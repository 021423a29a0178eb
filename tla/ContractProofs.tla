---------------------------- MODULE ContractProofs ----------------------------
(***************************************************************************)
(* What a contract built on soroban-zk-std calls: verify_proof, and reads  *)
(* through the constant cache.                                             *)
(*                                                                         *)
(* A verdict of verify_proof is the verdict of the Groth16 equation, for   *)
(* every group order, every multi-scalar multiplication and every set of   *)
(* buffers.  What is stored decodes, so every point the equation sees is   *)
(* one; then the product of the four pairings the code forms, three of its *)
(* points negated, is trivial exactly when the equation holds.             *)
(*                                                                         *)
(* Reads through the cache return what the code builds, for every content  *)
(* of the instance entry, every set of calls and every time to live.  The  *)
(* cache is coherent: an entry of a constant is absent or holds that       *)
(* constant, and decoding it gives it back.                                *)
(***************************************************************************)
EXTENDS Groth16, ConstantCache, TLAPS

-----------------------------------------------------------------------------
(* The Groth16 verifier.                                                    *)

LEMMA OrderIsPositive ==
  Q \in Int /\ Q > 1 /\ Off \notin Int /\ Stray \notin Int /\ Off # Stray
BY OrderAssumption

(* Quotient and remainder by the group order.                              *)
LEMMA DivMod ==
  ASSUME NEW x \in Int
  PROVE  /\ x = Q * (x \div Q) + (x % Q)
         /\ x \div Q \in Int /\ x % Q \in 0 .. (Q - 1)
<1>1. Q \in Int /\ Q > 0
  BY OrderIsPositive
<1>2. x = Q * (x \div Q) + (x % Q)
  BY <1>1, Z3
<1>3. x \div Q \in Int /\ x % Q \in 0 .. (Q - 1)
  BY <1>1, SMT
<1> QED
  BY <1>2, <1>3

(* A multiple of Q closer to zero than Q is zero.                          *)
LEMMA SmallMultiple ==
  ASSUME NEW d \in Int, -Q < Q * d, Q * d < Q
  PROVE  d = 0
<1>1. Q \in Int /\ Q > 0
  BY OrderIsPositive
<1>2. d >= 1 => Q * d >= Q
  BY <1>1, Z3
<1>3. d <= -1 => Q * d <= -Q
  BY <1>1, Z3
<1>4. Q * d \in Int
  BY <1>1
<1> QED
  BY <1>1, <1>2, <1>3, <1>4, Z3

(* A remainder is unique.                                                  *)
LEMMA RemainderIsUnique ==
  ASSUME NEW m \in Int, NEW n \in Int, NEW r \in 0 .. (Q - 1), NEW s \in 0 .. (Q - 1),
         Q * m + r = Q * n + s
  PROVE  r = s
<1>0. Q \in Int /\ Q > 0
  BY OrderIsPositive
<1>1. Q * (m - n) = Q * m - Q * n
  BY <1>0, Z3
<1>2. Q * (m - n) = s - r
  BY <1>0, <1>1, Z3
<1>3. m - n = 0
  BY <1>0, <1>2, SmallMultiple, Z3
<1> QED
  BY <1>0, <1>2, <1>3, Z3

(* Numbers that differ by a multiple of Q have the same remainder.         *)
LEMMA SameRemainder ==
  ASSUME NEW x \in Int, NEW y \in Int, NEW k \in Int, x = y + Q * k
  PROVE  x % Q = y % Q
<1> DEFINE m == x \div Q
           n == y \div Q
           r == x % Q
           s == y % Q
<1>1. /\ x = Q * m + r /\ y = Q * n + s
      /\ m \in Int /\ n \in Int /\ r \in 0 .. (Q - 1) /\ s \in 0 .. (Q - 1)
  BY DivMod
<1> HIDE DEF m, n, r, s
<1>2. Q * m + r = Q * (n + k) + s
  <2>1. Q * (n + k) = Q * n + Q * k
    BY <1>1, OrderIsPositive, Z3
  <2> QED
    BY <1>1, <2>1, OrderIsPositive, Z3
<1>3. r = s
  <2>1. n + k \in Int
    BY <1>1
  <2> QED
    BY <1>1, <1>2, <2>1, RemainderIsUnique
<1> QED
  BY <1>3 DEF r, s

(* The product of pairings is trivial exactly when both sides have the     *)
(* same remainder: x - y + Q * k is 0 modulo Q.                            *)
LEMMA ZeroSum ==
  ASSUME NEW x \in Int, NEW y \in Int, NEW z \in Int, NEW k \in Int, z = x - y + Q * k
  PROVE  z % Q = 0 <=> x % Q = y % Q
<1>1. z % Q = 0 => x % Q = y % Q
  <2> SUFFICES ASSUME z % Q = 0 PROVE x % Q = y % Q
    OBVIOUS
  <2> DEFINE m == z \div Q
  <2>1. z = Q * m + 0 /\ m \in Int
    BY DivMod
  <2> HIDE DEF m
  <2>2. Q * (m - k) = Q * m - Q * k
    BY <2>1, OrderIsPositive, Z3
  <2>3. x = y + Q * (m - k)
    BY <2>1, <2>2, OrderIsPositive, Z3
  <2>4. m - k \in Int
    BY <2>1
  <2> QED
    BY <2>3, <2>4, SameRemainder
<1>2. x % Q = y % Q => z % Q = 0
  <2> SUFFICES ASSUME x % Q = y % Q PROVE z % Q = 0
    OBVIOUS
  <2> DEFINE m == x \div Q
             n == y \div Q
             r == x % Q
  <2>1. /\ x = Q * m + r /\ y = Q * n + r
        /\ m \in Int /\ n \in Int /\ r \in 0 .. (Q - 1)
    BY DivMod
  <2> HIDE DEF m, n, r
  <2>2. Q * (m - n + k) = Q * m - Q * n + Q * k
    BY <2>1, OrderIsPositive, Z3
  <2>3. z = 0 + Q * (m - n + k)
    BY <2>1, <2>2, OrderIsPositive, Z3
  <2>4. m - n + k \in Int
    BY <2>1
  <2>5. z % Q = 0 % Q
    BY <2>3, <2>4, SameRemainder
  <2>6. 0 % Q = 0
    BY OrderIsPositive, SMT
  <2> QED
    BY <2>5, <2>6
<1> QED
  BY <1>1, <1>2

(* The four pairs of groth16_verify against the equation, on points.       *)
Trivial(a, b, c, al, be, ga, de, acc) ==
  (a * b + Neg(al) * be + Neg(acc) * ga + Neg(c) * de) % Q = 0
Balanced(a, b, c, al, be, ga, de, acc) ==
  (a * b) % Q = (al * be + acc * ga + c * de) % Q

LEMMA PairsAreTheEquation ==
  ASSUME NEW a \in Exponent \ {0}, NEW b \in Exponent \ {0}, NEW c \in Exponent \ {0},
         NEW al \in Exponent \ {0}, NEW be \in Exponent \ {0}, NEW ga \in Exponent \ {0},
         NEW de \in Exponent \ {0}, NEW acc \in Exponent \ {0}
  PROVE  Trivial(a, b, c, al, be, ga, de, acc) <=> Balanced(a, b, c, al, be, ga, de, acc)
<1>1. \A e \in Exponent \ {0} : Neg(e) = Q - e
  BY OrderIsPositive, SMT DEF Neg, Exponent
<1> DEFINE x == a * b
           y == al * be + acc * ga + c * de
           z == a * b + (Q - al) * be + (Q - acc) * ga + (Q - c) * de
           k == be + ga + de
<1>2. x \in Int /\ y \in Int /\ z \in Int /\ k \in Int
  BY OrderIsPositive DEF Exponent
<1>3. z = x - y + Q * k
  <2>1. /\ (Q - al) * be = Q * be - al * be
        /\ (Q - acc) * ga = Q * ga - acc * ga
        /\ (Q - c) * de = Q * de - c * de
    BY OrderIsPositive, Z3 DEF Exponent
  <2>2. Q * (be + ga + de) = Q * be + Q * ga + Q * de
    BY OrderIsPositive, Z3 DEF Exponent
  <2>3. /\ Q * be \in Int /\ Q * ga \in Int /\ Q * de \in Int /\ a * b \in Int
        /\ al * be \in Int /\ acc * ga \in Int /\ c * de \in Int
    BY OrderIsPositive DEF Exponent
  <2> QED
    BY <2>1, <2>2, <2>3
<1>4. z % Q = 0 <=> x % Q = y % Q
  <2> HIDE DEF x, y, z, k
  <2> QED
    BY <1>2, <1>3, ZeroSum
<1> QED
  BY <1>1, <1>4 DEF Trivial, Balanced

-----------------------------------------------------------------------------
(* The serialized bytes of a key that decodes are the bytes it was decoded *)
(* from.                                                                   *)
LEMMA RoundTrip ==
  ASSUME NEW b \in Buffer, Decoding(b) = "ok"
  PROVE  /\ Serialized(KeyOf(b)) = b
         /\ FixedPointsAreValid(b) /\ IcIsValid(b)
<1>1. /\ b.len >= FixedLen /\ FixedPointsAreValid(b) /\ b.len = Expected(b) /\ IcIsValid(b)
  BY BufferAssumption, SizeAssumption DEF Decoding, KeyBuffer
<1>2. b \in KeyBuffer /\ Len(b.ic) = (b.len - FixedLen) \div PointLen
  BY <1>1, BufferAssumption
<1>3. b.icLen \in Nat /\ b.len \in Nat /\ b.len - FixedLen = b.icLen * PointLen
  BY <1>1, <1>2, SizeAssumption DEF KeyBuffer, Expected
<1>4. \A n \in Nat : (n * PointLen) \div PointLen = n
  BY SizeAssumption, Z3
<1>5. Len(b.ic) = b.icLen
  BY <1>2, <1>3, <1>4
<1>6. Serialized(KeyOf(b)) = b
  BY <1>1, <1>2, <1>5 DEF Serialized, KeyOf, KeyBuffer, Expected
<1> QED
  BY <1>1, <1>6

(* What groth16_verify answers on a key and a proof that decode.           *)
HasStray(k, p) == Stray \in {k.beta, k.gamma, k.delta, p.b}

Verdict(k, p, s, r) ==
  /\ r \in Results
  /\ r = "trap" => HasStray(k, p)
  /\ r \in {"true", "false"} =>
       /\ Len(s) + 1 = Len(k.ic)
       /\ \A i \in 1 .. Len(s) : s[i] < Q
       /\ (r = "true") <=> Equation(k, p, s)
  /\ Len(s) + 1 = Len(k.ic) /\ (\A i \in 1 .. Len(s) : s[i] < Q) =>
       IF SumIsIdentity(k, s) THEN r \in {"DeserializationError", "InvalidInput"}
       ELSE IF HasStray(k, p) THEN r = "trap" ELSE r \in {"true", "false"}

LEMMA VerifyIsSound ==
  ASSUME NEW b \in Buffer, Decoding(b) = "ok",
         NEW p \in ProofBuffer, ProofDecodes(p), NEW s \in Inputs
  PROVE  Verdict(KeyOf(b), p, s, Verify(KeyOf(b), p, s))
<1> DEFINE k == KeyOf(b)
           r == Verify(k, p, s)
<1>1. /\ b \in KeyBuffer /\ FixedPointsAreValid(b) /\ IcIsValid(b) /\ s \in Seq(Nat)
      /\ p.a \in Exponent \ {0} /\ p.c \in Exponent \ {0}
      /\ p.b \in (Exponent \ {0}) \union {Stray}
  BY RoundTrip, BufferAssumption DEF ProofDecodes, IsValid, IsValid2
<1>2. /\ k.ic = b.ic /\ k.ic \in Seq(Point)
      /\ \A i \in 1 .. Len(k.ic) : k.ic[i] \in Exponent \ {0}
      /\ k.alpha \in Exponent \ {0}
      /\ k.beta \in (Exponent \ {0}) \union {Stray}
      /\ k.gamma \in (Exponent \ {0}) \union {Stray}
      /\ k.delta \in (Exponent \ {0}) \union {Stray}
  BY <1>1 DEF KeyOf, KeyBuffer, FixedPointsAreValid, IcIsValid, IsValid, IsValid2
<1> DEFINE fits == /\ Len(s) + 1 = Len(k.ic)
                   /\ \A i \in 1 .. Len(s) : s[i] < Q
<1> HIDE DEF k
<1>3. Len(s) \in Nat /\ Len(k.ic) \in Nat /\ \A i \in 1 .. Len(s) : s[i] \in Nat
  BY <1>1, <1>2
<1>4. CASE ~fits
  <2>1. r = CheckedInputs(k, s) /\ r \in {"InvalidInput", "InvalidFieldElement"}
    BY <1>3, <1>4, OrderIsPositive DEF Verify, CheckedInputs
  <2> QED
    BY <1>4, <2>1 DEF Verdict, Results, Errors, k
<1>5. CASE fits
  <2>1. CheckedInputs(k, s) = "ok"
    BY <1>3, <1>5, OrderIsPositive DEF CheckedInputs
  <2>2. \A i \in 1 .. Len(s) : Accepts(k.ic[i + 1])
    <3>1. \A i \in 1 .. Len(s) : i + 1 \in 1 .. Len(k.ic)
      BY <1>3, <1>5
    <3> QED
      BY <1>2, <3>1, OrderIsPositive DEF Accepts, Exponent
  <2>3. r = IF s # <<>> /\ ~IsValid(MsmOf(k, s)) THEN "DeserializationError"
            ELSE PairingCheck(Pairs(k, p, Acc(k, s)))
    BY <2>1, <2>2 DEF Verify
  <2>4. MsmOf(k, s) \in Exponent
    <3>1. \A i \in 2 .. Len(b.ic) : b.ic[i] # Off
      BY <1>1, <1>2, <1>3, OrderIsPositive DEF Exponent
    <3>2. Msm(SubSeq(b.ic, 2, Len(b.ic)), s) \in Exponent
      BY <1>2, <1>5, <3>1, MsmAssumption
    <3> QED
      BY <1>2, <3>2 DEF MsmOf
  <2>5. CASE s # <<>> /\ ~IsValid(MsmOf(k, s))
    <3>1. MsmOf(k, s) = 0
      BY <2>4, <2>5 DEF IsValid
    <3> QED
      BY <2>3, <2>5, <3>1 DEF Verdict, Results, Errors, SumIsIdentity, k
  <2>6. CASE ~(s # <<>> /\ ~IsValid(MsmOf(k, s)))
    <3>1. Acc(k, s) \in Exponent
      <4>1. k.ic[1] \in Exponent
        BY <1>2, <1>3, <1>5
      <4>2. Plus(k.ic[1], MsmOf(k, s)) \in Exponent
        BY <2>4, <4>1, OrderIsPositive, DivMod DEF Plus, Exponent
      <4> QED
        BY <4>1, <4>2 DEF Acc
    <3> DEFINE acc == Acc(k, s)
    <3>2. \A e \in Exponent \ {0} : Neg(e) \in Exponent \ {0}
      BY OrderIsPositive, SMT DEF Neg, Exponent
    <3>3. CASE acc = 0
      <4>1. Neg(acc) = 0
        BY <3>3, OrderIsPositive, SMT DEF Neg
      <4>2. ~IsValid(Pairs(k, p, acc)[3][1])
        BY <4>1 DEF Pairs, IsValid
      <4>3. r = "InvalidInput"
        BY <2>3, <2>6, <4>2 DEF PairingCheck
      <4> QED
        BY <3>3, <4>3 DEF Verdict, Results, Errors, SumIsIdentity, k
    <3>4. CASE acc # 0
      <4> DEFINE q == Pairs(k, p, acc)
      <4>1. /\ q[1] = <<p.a, p.b>> /\ q[2] = <<Neg(k.alpha), k.beta>>
            /\ q[3] = <<Neg(acc), k.gamma>> /\ q[4] = <<Neg(p.c), k.delta>>
        BY DEF Pairs
      <4> HIDE DEF q, acc
      <4>2. \A i \in 1 .. 4 : /\ q[i][1] \in Exponent \ {0}
                             /\ q[i][2] \in (Exponent \ {0}) \union {Stray}
        <5>1. /\ q[1][1] \in Exponent \ {0} /\ q[1][2] \in (Exponent \ {0}) \union {Stray}
              /\ q[2][1] \in Exponent \ {0} /\ q[2][2] \in (Exponent \ {0}) \union {Stray}
              /\ q[3][1] \in Exponent \ {0} /\ q[3][2] \in (Exponent \ {0}) \union {Stray}
              /\ q[4][1] \in Exponent \ {0} /\ q[4][2] \in (Exponent \ {0}) \union {Stray}
          BY <1>1, <1>2, <3>1, <3>2, <3>4, <4>1 DEF acc
        <5> QED
          BY <5>1
      <4>3. PairingCheck(q) = PairingCheckHost(q)
        BY <4>2 DEF PairingCheck, IsValid, IsValid2
      <4>4. r = PairingCheckHost(q)
        BY <2>3, <2>6, <4>3 DEF q, acc
      <4>5. ~SumIsIdentity(k, s)
        BY <2>6, <3>4, <2>4 DEF SumIsIdentity, IsValid, acc
      <4>6. CASE HasStray(k, p)
        <5>1. \E i \in 1 .. 4 : q[i][2] = Stray
          BY <4>1, <4>6 DEF HasStray
        <5>2. r = "trap"
          BY <4>4, <5>1 DEF PairingCheckHost, Accepts
        <5> QED
          BY <4>5, <4>6, <5>2 DEF Verdict, Results, k
      <4>7. CASE ~HasStray(k, p)
        <5>1. /\ k.beta \in Exponent \ {0} /\ k.gamma \in Exponent \ {0}
              /\ k.delta \in Exponent \ {0} /\ p.b \in Exponent \ {0}
          BY <1>1, <1>2, <4>7 DEF HasStray
        <5>2. \A i \in 1 .. 4 : Accepts(q[i][1]) /\ Accepts(q[i][2])
          <6>1. \A i \in 1 .. 4 : q[i][2] # Stray
            BY <4>1, <4>7 DEF HasStray
          <6> QED
            BY <4>2, <6>1, OrderIsPositive DEF Accepts, Exponent
        <5>3. PairingCheckHost(q)
                = IF (p.a * p.b + Neg(k.alpha) * k.beta
                       + Neg(acc) * k.gamma + Neg(p.c) * k.delta) % Q = 0
                    THEN "true" ELSE "false"
          BY <4>1, <5>2 DEF PairingCheckHost
        <5>4. (p.a * p.b + Neg(k.alpha) * k.beta + Neg(acc) * k.gamma
                 + Neg(p.c) * k.delta) % Q = 0
                <=> Equation(k, p, s)
          <6>1. acc \in Exponent \ {0}
            BY <3>1, <3>4 DEF acc
          <6>2. Equation(k, p, s) <=>
                  (p.a * p.b) % Q = (k.alpha * k.beta + acc * k.gamma + p.c * k.delta) % Q
            BY DEF Equation, acc
          <6>3. Trivial(p.a, p.b, p.c, k.alpha, k.beta, k.gamma, k.delta, acc)
                  <=> Balanced(p.a, p.b, p.c, k.alpha, k.beta, k.gamma, k.delta, acc)
            BY <1>1, <1>2, <5>1, <6>1, PairsAreTheEquation
          <6> QED
            BY <6>2, <6>3 DEF Trivial, Balanced
        <5>5. r \in {"true", "false"} /\ (r = "true" <=> Equation(k, p, s))
          BY <4>4, <5>3, <5>4
        <5> QED
          BY <1>5, <4>5, <4>7, <5>5 DEF Verdict, Results, Errors, k
      <4> QED
        BY <4>6, <4>7
    <3> QED
      BY <3>3, <3>4
  <2> QED
    BY <2>5, <2>6
<1> QED
  BY <1>4, <1>5

-----------------------------------------------------------------------------
(* What decoding can answer.                                               *)
LEMMA DecodingAnswers ==
  \A b : Decoding(b) \in {"ok", "trap", "DeserializationError"}
BY DEF Decoding

(* Setting a key answers as decoding does, and stores what was submitted.  *)
LEMMA SetIsRight ==
  ASSUME IInv, NEW b \in Buffer, SetVerifyingKey(b)
  PROVE  IInv'
<1>1. answer' = [op |-> "set", arg |-> b, result |-> Decoding(b)]
  BY DEF SetVerifyingKey
<1>2. answer'.op = "set" /\ answer'.result = Decoding(b) /\ answer'.arg = b
  BY <1>1
<1>3. stored' = IF Decoding(b) = "ok" THEN b ELSE stored
  BY RoundTrip DEF SetVerifyingKey
<1>4. Stored'
  BY <1>3 DEF IInv, Stored
<1>5. Decoding(b) \in Results
  BY DecodingAnswers DEF Results, Errors
<1>6. TypeOK'
  <2>1. stored' \in KeyBuffer \union {NoKey}
    BY <1>4, BufferAssumption DEF Stored
  <2> QED
    BY <1>1, <1>5, <2>1 DEF TypeOK
<1>7. StoredKeyDecodes'
  BY <1>2, <1>3, <1>4 DEF StoredKeyDecodes, Stored
<1>8. VerdictIsTheEquation' /\ OnlyStraysTrap' /\ OnlyIdentityIsRefused'
  BY <1>2 DEF VerdictIsTheEquation, OnlyStraysTrap, OnlyIdentityIsRefused, WellFormed
<1> QED
  BY <1>4, <1>6, <1>7, <1>8 DEF IInv

(* A verification answers as groth16_verify does on what is stored.        *)
LEMMA VerifyIsRight ==
  ASSUME IInv, NEW p \in ProofBuffer, NEW s \in Inputs, VerifyProof(p, s)
  PROVE  IInv'
<1> DEFINE r == answer'.result
           k == KeyOf(stored)
<1>1. /\ answer' = [op |-> "verify", key |-> stored, proof |-> p, inputs |-> s, result |-> r]
      /\ stored' = stored
      /\ r = IF stored = NoKey THEN "StorageError"
             ELSE IF Decoding(stored) # "ok" THEN Decoding(stored)
             ELSE IF ~ProofDecodes(p) THEN "DeserializationError"
             ELSE Verify(KeyOf(stored), p, s)
  BY DEF VerifyProof
<1>2. /\ answer'.op = "verify" /\ answer'.key = stored /\ answer'.proof = p
      /\ answer'.inputs = s
  BY <1>1
<1>3. stored # NoKey => stored \in Buffer /\ Decoding(stored) = "ok"
  BY DEF IInv, Stored
<1>4. stored # NoKey => k.ic = stored.ic
  BY DEF KeyOf
<1>5. CASE stored # NoKey /\ ProofDecodes(p)
  <2>1. r = Verify(k, p, s)
    BY <1>1, <1>3, <1>5
  <2>2. Verdict(k, p, s, r)
    BY <1>3, <1>5, <2>1, VerifyIsSound
  <2> HIDE DEF k, r
  <2>3. k = KeyOf(stored) /\ r = answer'.result
    BY DEF k, r
  <2>0. /\ KeyOf(stored) = k /\ HasStray(k, p) = Strays(answer')
    BY <1>2, <2>3 DEF HasStray, Strays, KeyOf
  <2>4. TypeOK'
    BY <1>1, <2>2 DEF IInv, TypeOK, Verdict
  <2>5. VerdictIsTheEquation'
    BY <1>2, <1>4, <1>5, <2>2, <2>3 DEF Verdict, VerdictIsTheEquation
  <2>6. OnlyStraysTrap'
    BY <2>0, <2>2, <2>3 DEF Verdict, OnlyStraysTrap
  <2>7. OnlyIdentityIsRefused'
    BY <1>2, <1>4, <1>5, <2>0, <2>2, <2>3 DEF Verdict, OnlyIdentityIsRefused, WellFormed
  <2>8. Stored' /\ StoredKeyDecodes'
    BY <1>1, <1>2 DEF IInv, Stored, StoredKeyDecodes
  <2> QED
    BY <2>4, <2>5, <2>6, <2>7, <2>8 DEF IInv
<1>6. CASE stored = NoKey \/ ~ProofDecodes(p)
  <2>1. r \in {"StorageError", "DeserializationError"}
    BY <1>1, <1>3, <1>6
  <2> HIDE DEF r
  <2>2. r = answer'.result
    BY DEF r
  <2>3. TypeOK'
    BY <1>1, <2>1 DEF IInv, TypeOK, Results, Errors
  <2>4. VerdictIsTheEquation' /\ OnlyStraysTrap'
    BY <2>1, <2>2 DEF VerdictIsTheEquation, OnlyStraysTrap
  <2>5. OnlyIdentityIsRefused'
    BY <1>2, <1>6 DEF OnlyIdentityIsRefused, WellFormed
  <2>6. Stored' /\ StoredKeyDecodes'
    BY <1>1, <1>2 DEF IInv, Stored, StoredKeyDecodes
  <2> QED
    BY <2>3, <2>4, <2>5, <2>6 DEF IInv
<1> QED
  BY <1>5, <1>6

(* The invariant holds in every reachable state.                           *)
THEOREM Invariance == Spec => []IInv
<1>1. Init => IInv
  BY NoKeyAssumption DEF Init, Nothing, IInv, Stored, TypeOK, StoredKeyDecodes,
     VerdictIsTheEquation, OnlyStraysTrap, OnlyIdentityIsRefused, WellFormed
<1>2. IInv /\ [Next]_vars => IInv'
  <2> SUFFICES ASSUME IInv, [Next]_vars PROVE IInv'
    OBVIOUS
  <2>1. ASSUME NEW b \in Buffer, SetVerifyingKey(b) PROVE IInv'
    BY <2>1, SetIsRight
  <2>2. ASSUME NEW p \in ProofBuffer, NEW s \in Inputs, VerifyProof(p, s) PROVE IInv'
    BY <2>2, VerifyIsRight
  <2>3. CASE UNCHANGED vars
    BY <2>3 DEF vars, IInv, Stored, TypeOK, StoredKeyDecodes, VerdictIsTheEquation,
       OnlyStraysTrap, OnlyIdentityIsRefused, WellFormed
  <2> QED
    BY <2>1, <2>2, <2>3 DEF Next
<1> QED
  BY <1>1, <1>2, PTL DEF Spec

(* A verdict of verify_proof is that of the Groth16 equation on as many    *)
(* inputs as the key has, each of them reduced (VerdictIsTheEquation).     *)
THEOREM Soundness == Spec => []VerdictIsTheEquation
<1>1. IInv => VerdictIsTheEquation
  BY DEF IInv
<1> QED
  BY <1>1, Invariance, PTL

(* Every point that reaches the host was decoded: it traps on no call of   *)
(* verify_proof but for a point of the second curve outside the subgroup   *)
(* (host.rs, validate_pairs).                                              *)
THEOREM NoTrap == Spec => []OnlyStraysTrap
<1>1. IInv => OnlyStraysTrap
  BY DEF IInv
<1> QED
  BY <1>1, Invariance, PTL

(* A well-formed claim is refused exactly when a sum of ic points is the   *)
(* identity, and otherwise gets a verdict unless a point is stray          *)
(* (groth16.rs, groth16_verify).                                           *)
THEOREM Completeness == Spec => []OnlyIdentityIsRefused
<1>1. IInv => OnlyIdentityIsRefused
  BY DEF IInv
<1> QED
  BY <1>1, Invariance, PTL

-----------------------------------------------------------------------------
(* The constant cache.                                                      *)

(* Keys of constants and keys of the contract's own entries do not meet.   *)
LEMMA KeysDiffer ==
  /\ \A c \in Constant : CacheKey(c) \in Key
  /\ \A n \in Own : OwnKey(n) \in Key
  /\ \A c \in Constant, n \in Own : CacheKey(c) # OwnKey(n)
  /\ \A c, d \in Constant : CacheKey(c) = CacheKey(d) => c = d
BY DEF Key, CacheKey, OwnKey

(* What the code stores for a constant is content, and is there.           *)
LEMMA StoredIsContent ==
  ASSUME NEW c \in Constant
  PROVE  Built[c] \in Value /\ Encoded(c) \in Content /\ Encoded(c) # Absent
<1>1. Built[c] \in Value
  BY BuiltAssumption
<1>2. Encoded(c) \in Value \union {ToBytes(v) : v \in Value}
  BY <1>1 DEF Encoded
<1> QED
  BY <1>1, <1>2, AbsentAssumption DEF Content

(* Decoding what the code stored gives back the constant.                  *)
LEMMA DecodesBack ==
  ASSUME NEW c \in Constant
  PROVE  Decoded(c, Encoded(c)) = Built[c]
<1>1. CASE c \in Parameter
  <2>1. c \notin Generator
    BY <1>1 DEF Parameter, Generator
  <2> QED
    BY <1>1, <2>1 DEF Decoded, Encoded
<1>2. CASE c \in Generator
  <2>1. c \notin Parameter
    BY <1>2 DEF Parameter, Generator
  <2>2. Built[c] \in Value
    BY BuiltAssumption
  <2>3. Encoded(c) = ToBytes(Built[c])
    BY <1>2 DEF Encoded
  <2>4. \A v \in Value : ToBytes(v) = ToBytes(Built[c]) => v = Built[c]
    BY DEF ToBytes
  <2>5. (CHOOSE v \in Value : Encoded(c) = ToBytes(v)) = Built[c]
    BY <2>2, <2>3, <2>4
  <2>6. Decodes(Encoded(c))
    BY <2>2, <2>3 DEF Decodes
  <2> QED
    BY <1>2, <2>1, <2>5, <2>6 DEF Decoded
<1> QED
  BY <1>1, <1>2 DEF Constant

(* One read of a coherent entry: the value is the one the code builds, and *)
(* the entry stays an entry and coherent.                                  *)
LEMMA ReadIsCoherent ==
  ASSUME NEW s \in Instance, CoherentIn(s), NEW c \in Constant
  PROVE  /\ Fetched(s, c) = Built[c]
         /\ Bump(Filled(s, c)) \in Instance
         /\ CoherentIn(Bump(Filled(s, c)))
<1>1. Fetched(s, c) = Built[c]
  <2>1. Cached(s, c) => s.val[CacheKey(c)] = Encoded(c)
    BY DEF CoherentIn, Cached
  <2> QED
    BY <2>1, DecodesBack DEF Fetched
<1>2. Filled(s, c) \in Instance
  BY KeysDiffer, StoredIsContent DEF Filled, Instance
<1>3. CoherentIn(Filled(s, c))
  <2> SUFFICES ASSUME NEW d \in Constant
               PROVE  Filled(s, c).val[CacheKey(d)] \in {Absent, Encoded(d)}
    BY DEF CoherentIn
  <2>1. s.val[CacheKey(d)] \in {Absent, Encoded(d)}
    BY DEF CoherentIn
  <2>2. CASE Cached(s, c)
    BY <2>1, <2>2 DEF Filled
  <2>3. CASE ~Cached(s, c)
    BY <2>1, <2>3, KeysDiffer DEF Filled, Instance
  <2> QED
    BY <2>2, <2>3
<1>4. \A t \in Instance : Bump(t) \in Instance /\ Bump(t).val = t.val
  BY TtlAssumption DEF Bump, Instance
<1>5. CoherentIn(Bump(Filled(s, c)))
  BY <1>2, <1>3, <1>4 DEF CoherentIn
<1> QED
  BY <1>1, <1>2, <1>4, <1>5

(* The invariant holds initially.                                          *)
LEMMA InitIsCoherent == CacheInit => CacheInv
<1> SUFFICES ASSUME CacheInit PROVE CacheInv
  OBVIOUS
<1>1. store \in Instance /\ work \in Instance
  BY TtlAssumption DEF CacheInit, Instance
<1>2. CoherentIn(store) /\ CoherentIn(work)
  BY KeysDiffer DEF CacheInit, CoherentIn
<1> QED
  BY <1>1, <1>2 DEF CacheInit, CacheInv, CacheTypeOK, Coherent, ReadsWhatIsBuilt

(* Every step preserves the invariant.                                     *)
LEMMA StepIsCoherent == CacheInv /\ [CacheNext]_cacheVars => CacheInv'
<1> SUFFICES ASSUME CacheInv, [CacheNext]_cacheVars PROVE CacheInv'
  OBVIOUS
<1> USE DEF CacheInv
<1>1. CASE Begin
  <2>1. call' \in Seq(Constant) \ {<<>>} /\ call' \in Calls
    BY <1>1, CallsAssumption DEF Begin
  <2>2. Len(got') = 0 /\ got' \in Seq(Value) /\ 0 <= Len(call')
    BY <1>1, <2>1 DEF Begin
  <2> QED
    BY <1>1, <2>1, <2>2 DEF Begin, CacheTypeOK, Coherent, CoherentIn, ReadsWhatIsBuilt
<1>2. CASE Read
  <2> DEFINE c == call[Len(got) + 1]
  <2>1. call \in Seq(Constant) /\ got \in Seq(Value) /\ Len(got) < Len(call)
    BY <1>2, CallsAssumption DEF Read, CacheTypeOK
  <2>2. c \in Constant
    BY <2>1
  <2>3. /\ got' = Append(got, Fetched(work, c))
        /\ work' = Bump(Filled(work, c))
        /\ UNCHANGED <<store, call>>
    BY <1>2 DEF Read
  <2>4. /\ Fetched(work, c) = Built[c]
        /\ work' \in Instance /\ CoherentIn(work')
    BY <2>2, <2>3, ReadIsCoherent DEF CacheTypeOK, Coherent
  <2>5. Built[c] \in Value
    BY <2>2, StoredIsContent
  <2>6. /\ got' \in Seq(Value) /\ Len(got') = Len(got) + 1
        /\ \A i \in 1 .. Len(got) : got'[i] = got[i]
        /\ got'[Len(got) + 1] = Built[c]
    BY <2>1, <2>3, <2>4, <2>5
  <2>7. CacheTypeOK'
    BY <2>1, <2>3, <2>4, <2>6 DEF CacheTypeOK
  <2>8. Coherent'
    BY <2>3, <2>4 DEF Coherent, CoherentIn
  <2>9. ReadsWhatIsBuilt'
    <3> SUFFICES ASSUME NEW i \in 1 .. Len(got') PROVE got'[i] = Built[call[i]]
      BY <2>3 DEF ReadsWhatIsBuilt
    <3>1. CASE i \in 1 .. Len(got)
      BY <1>2, <2>6, <3>1 DEF Read, ReadsWhatIsBuilt
    <3>2. CASE i = Len(got) + 1
      BY <2>6, <3>2
    <3> QED
      BY <2>1, <2>6, <3>1, <3>2
  <2> QED
    BY <2>7, <2>8, <2>9
<1>3. CASE Return
  BY <1>3 DEF Return, CacheTypeOK, Coherent, CoherentIn, ReadsWhatIsBuilt
<1>4. CASE Trap
  BY <1>4 DEF Trap, CacheTypeOK, Coherent, CoherentIn, ReadsWhatIsBuilt
<1>5. ASSUME NEW n \in Own, NEW v \in OwnValue, WriteOwn(n, v) PROVE CacheInv'
  <2>1. store' \in Instance
    BY <1>5, KeysDiffer DEF WriteOwn, CacheTypeOK, Instance, Content
  <2>2. CoherentIn(store)'
    BY <1>5, KeysDiffer DEF WriteOwn, CacheTypeOK, Instance, Coherent, CoherentIn
  <2> QED
    BY <1>5, <2>1, <2>2 DEF WriteOwn, CacheTypeOK, Coherent, CoherentIn, ReadsWhatIsBuilt
<1>6. CASE CloseLedger
  <2>1. store' \in Instance /\ store'.val = store.val
    BY <1>6 DEF CloseLedger, CacheTypeOK, Instance
  <2> QED
    BY <1>6, <2>1 DEF CloseLedger, CacheTypeOK, Coherent, CoherentIn, ReadsWhatIsBuilt
<1>7. CASE Restore
  <2>1. store' \in Instance /\ store'.val = store.val
    BY <1>7, TtlAssumption DEF Restore, CacheTypeOK, Instance
  <2> QED
    BY <1>7, <2>1 DEF Restore, CacheTypeOK, Coherent, CoherentIn, ReadsWhatIsBuilt
<1>8. CASE UNCHANGED cacheVars
  BY <1>8 DEF cacheVars, CacheTypeOK, Coherent, CoherentIn, ReadsWhatIsBuilt
<1> QED
  BY <1>1, <1>2, <1>3, <1>4, <1>5, <1>6, <1>7, <1>8 DEF CacheNext

(* The cache is coherent in every reachable state, and so a read returns   *)
(* the constant the code builds, for any content of the instance entry.    *)
THEOREM CacheInvariance == CacheSpec => []CacheInv
<1>1. CacheInit => CacheInv
  BY InitIsCoherent
<1>2. CacheInv /\ [CacheNext]_cacheVars => CacheInv'
  BY StepIsCoherent
<1> QED
  BY <1>1, <1>2, PTL DEF CacheSpec

(* The hash over the cache is the hash over the code (ReadsWhatIsBuilt).   *)
THEOREM CacheIsTransparent == CacheSpec => []ReadsWhatIsBuilt
<1>1. CacheInv => ReadsWhatIsBuilt
  BY DEF CacheInv
<1> QED
  BY <1>1, CacheInvariance, PTL
(***************************************************************************)
(* What the running call has done so far: it has renewed the entry if it   *)
(* has read anything, and its copy caches what the ledger does and what it *)
(* has read.                                                               *)
(***************************************************************************)
ReadSoFar == {call[i] : i \in 1 .. Len(got)}
Progress == call # <<>> => /\ got # <<>> => work.ttl >= Threshold
                           /\ CachedOn(work) = CachedOn(store) \union ReadSoFar

(* A read leaves at least Threshold ledgers, and caches what it reads.     *)
LEMMA ReadRenewsAndFills ==
  ASSUME NEW s \in Instance, NEW c \in Constant
  PROVE  /\ Bump(Filled(s, c)).ttl >= Threshold
         /\ CachedOn(Bump(Filled(s, c))) = CachedOn(s) \union {c}
<1>1. Filled(s, c) \in Instance
  BY KeysDiffer, StoredIsContent DEF Filled, Instance
<1>2. \A t \in Instance : Bump(t).ttl >= Threshold /\ Bump(t).val = t.val
  BY TtlAssumption DEF Bump, Instance
<1>3. \A d \in Constant : Cached(Filled(s, c), d) <=> Cached(s, d) \/ d = c
  BY KeysDiffer, StoredIsContent DEF Filled, Cached, Instance
<1>4. CachedOn(Bump(Filled(s, c))) = CachedOn(s) \union {c}
  BY <1>1, <1>2, <1>3 DEF CachedOn, Cached
<1> QED
  BY <1>1, <1>2, <1>4

(* Every step preserves that, and publishes whole calls only.              *)
LEMMA StepIsWhole ==
  ASSUME CacheInv, Progress, WholeCallsAreCached, [CacheNext]_cacheVars
  PROVE  Progress' /\ WholeCallsAreCached'
<1> USE DEF CacheInv
<1>1. CASE Begin
  <2>1. call' \in Seq(Constant) /\ got' = <<>> /\ work' = store /\ store' = store
    BY <1>1, CallsAssumption DEF Begin
  <2>2. ReadSoFar' = {}
    BY <2>1 DEF ReadSoFar
  <2> QED
    BY <2>1, <2>2 DEF Progress, WholeCallsAreCached, CachedOn, Cached
<1>2. CASE Read
  <2> DEFINE c == call[Len(got) + 1]
  <2>1. call \in Seq(Constant) /\ got \in Seq(Value) /\ Len(got) < Len(call)
    BY <1>2, CallsAssumption DEF Read, CacheTypeOK
  <2>2. c \in Constant
    BY <2>1
  <2>3. /\ Len(got') = Len(got) + 1
        /\ work' = Bump(Filled(work, c))
        /\ UNCHANGED <<store, call>>
    BY <1>2, <2>1 DEF Read, CacheTypeOK
  <2>4. work'.ttl >= Threshold /\ CachedOn(work') = CachedOn(work) \union {c}
    BY <2>2, <2>3, ReadRenewsAndFills DEF CacheTypeOK
  <2>5. ReadSoFar' = ReadSoFar \union {c}
    BY <2>1, <2>3 DEF ReadSoFar
  <2>6. call # <<>> /\ CachedOn(work)' = CachedOn(work')
    BY <1>2 DEF Read, CachedOn, Cached
  <2>7. CachedOn(store)' = CachedOn(store)
    BY <2>3 DEF CachedOn, Cached
  <2>8. Progress'
    BY <2>3, <2>4, <2>5, <2>6, <2>7 DEF Progress
  <2> QED
    BY <2>3, <2>7, <2>8 DEF WholeCallsAreCached
<1>3. CASE Return
  <2>1. /\ call \in Calls /\ Len(got) = Len(call)
        /\ store' = work /\ call' = <<>>
    BY <1>3 DEF Return, CacheTypeOK
  <2>2. ReadSoFar = RangeOf(call)
    BY <2>1 DEF ReadSoFar, RangeOf
  <2>3. CachedOn(store)' = CachedOn(store) \union RangeOf(call)
    BY <1>3, <2>1, <2>2 DEF Return, Progress, CachedOn, Cached
  <2>4. WholeCallsAreCached'
    BY <2>1, <2>3 DEF WholeCallsAreCached
  <2> QED
    BY <2>1, <2>4 DEF Progress
<1>4. CASE Trap \/ CloseLedger \/ Restore \/ UNCHANGED cacheVars
  <2>1. /\ store'.val = store.val
        /\ call' = <<>> \/ (call' = call /\ got' = got /\ work' = work /\ store' = store)
    BY <1>4 DEF Trap, CloseLedger, Restore, cacheVars, CacheTypeOK, Instance
  <2>2. CachedOn(store)' = CachedOn(store)
    BY <2>1 DEF CachedOn, Cached
  <2>3. CASE call' = <<>>
    BY <2>2, <2>3 DEF Progress, WholeCallsAreCached
  <2>4. CASE call' = call /\ got' = got /\ work' = work /\ store' = store
    BY <2>2, <2>4 DEF Progress, ReadSoFar, WholeCallsAreCached, CachedOn, Cached
  <2> QED
    BY <2>1, <2>3, <2>4
<1>5. ASSUME NEW n \in Own, NEW v \in OwnValue, WriteOwn(n, v)
      PROVE  Progress' /\ WholeCallsAreCached'
  <2>1. call' = <<>>
    BY <1>5 DEF WriteOwn
  <2>2. \A c \in Constant : store'.val[CacheKey(c)] = store.val[CacheKey(c)]
    BY <1>5, KeysDiffer DEF WriteOwn, CacheTypeOK, Instance
  <2>3. CachedOn(store)' = CachedOn(store)
    BY <2>2 DEF CachedOn, Cached
  <2> QED
    BY <2>1, <2>3 DEF Progress, WholeCallsAreCached
<1> QED
  BY <1>1, <1>2, <1>3, <1>4, <1>5 DEF CacheNext

(* A call that traps caches nothing (WholeCallsAreCached).                 *)
THEOREM CachedTogether == CacheSpec => [](Progress /\ WholeCallsAreCached)
<1>1. CacheInit => Progress /\ WholeCallsAreCached
  BY KeysDiffer DEF CacheInit, Progress, WholeCallsAreCached, CachedOn, Cached
<1>2. CacheInv /\ Progress /\ WholeCallsAreCached /\ [CacheNext]_cacheVars
        => (Progress /\ WholeCallsAreCached)'
  BY StepIsWhole
<1> QED
  BY <1>1, <1>2, CacheInvariance, PTL DEF CacheSpec

(* In use the contract is never archived: a call that returns leaves it at *)
(* least Threshold ledgers (UseRenews).                                    *)
THEOREM UseKeepsAlive == CacheSpec => UseRenews
<1>1. CacheInv /\ Progress /\ [CacheNext]_cacheVars
        => [call # <<>> /\ call' = <<>> /\ got' # <<>> => store'.ttl >= Threshold]_cacheVars
  <2> SUFFICES ASSUME CacheInv, Progress, CacheNext, call # <<>>, call' = <<>>, got' # <<>>
               PROVE  store'.ttl >= Threshold
    OBVIOUS
  <2>1. Return
    BY CallsAssumption DEF CacheNext, Begin, Read, Trap, WriteOwn, CloseLedger, Restore
  <2> QED
    BY <2>1 DEF Return, Progress
<1> QED
  BY <1>1, CacheInvariance, CachedTogether, PTL DEF CacheSpec, UseRenews
=============================================================================
