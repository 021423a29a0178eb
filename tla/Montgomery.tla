----------------------------- MODULE Montgomery -----------------------------
(***************************************************************************)
(* Multiplication modulo a fixed prime by Montgomery reduction             *)
(* (soroban-zk-core/src/lib.rs): montgomery_mul, one round per limb, and   *)
(* the calls that chain it, mul_mod, to_montgomery and from_montgomery.    *)
(*                                                                         *)
(* The array t of limbs is its value: adding a product at limb i, with     *)
(* its carries, adds it times the weight of limb i.  The array has a fixed *)
(* number of limbs, and a carry out of it is a panic.                      *)
(***************************************************************************)
EXTENDS Integers

CONSTANTS
    B,        \* the limb base, 2^64
    L,        \* the limbs of a Limbs array, 4
    Weight,   \* Weight[i] is B^i, the weight of limb i
    Engines   \* the values of Montgomery: FR_MONT and FQ_MONT

R == Weight[L]
Words == 0..(R - 1)

ASSUME BaseAssumption == B \in Nat /\ B > 1 /\ L \in Nat \ {0}

ASSUME WeightAssumption ==
    /\ Weight \in [0..(2 * L + 1) -> Nat \ {0}]
    /\ Weight[0] = 1
    /\ \A i \in 0..(2 * L) : Weight[i + 1] = B * Weight[i]
    /\ \A i, k \in 0..L : Weight[i + k] = Weight[i] * Weight[k]

(* n is the prime, n0inv the negated inverse of n modulo the base, r2 the   *)
(* square of R modulo n.  That n is prime is said by the last two: it does  *)
(* not divide R, nor a product of numbers below it but zero.               *)
ASSUME EngineAssumption ==
    /\ Engines \subseteq [n : Words, n0inv : 0..(B - 1), r2 : Words]
    /\ \A e \in Engines :
          /\ e.n > 1
          /\ (e.n0inv * e.n + 1) % B = 0
          /\ e.r2 = (R * R) % e.n
          /\ R % e.n # 0
          /\ \A x, y \in 0..(e.n - 1) : (x * y) % e.n = 0 => x = 0 \/ y = 0

VARIABLES
    eng,     \* the engine the call uses
    call,    \* the operation and its operands
    stage,   \* "idle", the product that is being computed, or "done"
    x, y,    \* the operands of that product
    i,       \* the limb of x of the next round
    t,       \* the accumulator
    ma, mb   \* the results of the products before

montVars == <<eng, call, stage, x, y, i, t, ma, mb>>

Calls == {"mul_mod", "to_montgomery", "from_montgomery"}
Stages == {"idle", "to_a", "to_b", "product", "from", "done"}
NoWords == [op |-> "none", a |-> 0, b |-> 0]
N == eng.n
Limb(v, k) == (v \div Weight[k]) % B

-----------------------------------------------------------------------------

MontInit ==
    /\ eng \in Engines
    /\ call = NoWords /\ stage = "idle"
    /\ x = 0 /\ y = 0 /\ i = 0 /\ t = 0 /\ ma = 0 /\ mb = 0

(* montgomery_mul starts with an empty accumulator.                         *)
Multiply(s, v, w) ==
    /\ stage' = s
    /\ x' = v /\ y' = w
    /\ i' = 0 /\ t' = 0

(* Every call takes any words and reduces them first.                       *)
Begin(op, a, b) ==
    /\ stage = "idle"
    /\ call' = [op |-> op, a |-> a, b |-> b]
    /\ IF op = "from_montgomery" THEN Multiply("from", a % N, 1)
       ELSE Multiply("to_a", a % N, eng.r2)
    /\ UNCHANGED <<eng, ma, mb>>

(* A round adds limb i of x times y, then the multiple of n that clears     *)
(* limb i of the sum.                                                      *)
Sum == t + Limb(x, i) * y * Weight[i]
Multiple(sum) == (Limb(sum, i) * eng.n0inv) % B

(* Mutant of Round: the multiple is taken before the product is added.      *)
RoundEarly ==
    /\ stage \notin {"idle", "done"} /\ i < L
    /\ t' = Sum + Multiple(t) * N * Weight[i]
    /\ i' = i + 1
    /\ UNCHANGED <<eng, call, stage, x, y, ma, mb>>

Round ==
    /\ stage \notin {"idle", "done"} /\ i < L
    /\ t' = Sum + Multiple(Sum) * N * Weight[i]
    /\ i' = i + 1
    /\ UNCHANGED <<eng, call, stage, x, y, ma, mb>>

(* The high limbs are the result, once the modulus is subtracted while they *)
(* are above it.  The comparison (limbs5_ge) is strict: equal limbs do not  *)
(* count as greater or equal.                                              *)
High == t \div R

Above(v, w) == v > w

SubtractModulus ==
    /\ stage \notin {"idle", "done"} /\ i = L
    /\ Above(High, N)
    /\ t' = t - N * R
    /\ UNCHANGED <<eng, call, stage, x, y, i, ma, mb>>

(* The low L limbs of what is left go to the next product or are returned.  *)
Product == High % R

Finish ==
    /\ stage \notin {"idle", "done"} /\ i = L
    /\ ~Above(High, N)
    /\ ma' = IF stage = "to_b" THEN ma ELSE Product
    /\ mb' = IF stage = "to_b" THEN Product ELSE mb
    /\ CASE stage = "to_a" /\ call.op = "mul_mod" -> Multiply("to_b", call.b % N, eng.r2)
         [] stage = "to_b" -> Multiply("product", ma, Product)
         [] stage = "product" -> Multiply("from", Product, 1)
         [] OTHER -> Multiply("done", 0, 0)
    /\ UNCHANGED <<eng, call>>

(* Nothing is kept between calls.                                            *)
Return ==
    /\ stage = "done"
    /\ stage' = "idle" /\ call' = NoWords
    /\ ma' = 0 /\ mb' = 0
    /\ UNCHANGED <<eng, x, y, i, t>>

MontNext ==
    \/ \E op \in Calls, a, b \in Words : Begin(op, a, b)
    \/ Round \/ SubtractModulus \/ Finish \/ Return

MontSpec == MontInit /\ [][MontNext]_montVars

-----------------------------------------------------------------------------

MontTypeOK ==
    /\ eng \in Engines
    /\ call \in [op : Calls, a : Words, b : Words] \cup {NoWords}
    /\ stage \in Stages
    /\ stage \in {"to_b", "product"} => call.op = "mul_mod"
    /\ stage = "to_a" => call.op \in {"mul_mod", "to_montgomery"}
    /\ stage = "from" => call.op \in {"mul_mod", "from_montgomery"}
    /\ stage \notin {"idle"} => call.op \in Calls
    /\ x \in Words /\ y \in Words /\ ma \in Words /\ mb \in Words
    /\ i \in 0..L
    /\ t \in Nat

(* Both operands of a product are below the modulus, so that the result of  *)
(* montgomery_mul is.                                                      *)
OperandsAreReduced ==
    stage \notin {"idle", "done"} => x < N /\ y < N

(* The accumulator is the product of y with the limbs of x seen so far,     *)
(* plus a multiple of the modulus, and its limbs below i are zero.  After   *)
(* the last round a multiple of the modulus may have been subtracted.       *)
AccumulatorIsExact ==
    stage \notin {"idle", "done"} =>
        /\ t % Weight[i] = 0
        /\ (t - (x % Weight[i]) * y) % N = 0
        /\ t <= (x % Weight[i]) * y + (Weight[i] - 1) * N

(* No carry leaves the accumulator of 2L + 1 limbs: `t[idx]` never panics.   *)
CarriesFit == t < Weight[2 * L + 1]

(* What each product left for the next one: the operands in Montgomery form,*)
(* their product in Montgomery form.                                       *)
ChainIsExact ==
    /\ stage \in {"to_b", "product"} => ma = (call.a * R) % N
    /\ stage = "product" => mb = (call.b * R) % N /\ x = ma /\ y = mb
    /\ stage = "from" =>
          x = (IF call.op = "mul_mod" THEN call.a * call.b * R ELSE call.a) % N
    /\ stage = "to_a" => x = call.a % N
    /\ stage = "to_b" => x = call.b % N
    /\ stage \in {"to_a", "to_b"} => y = eng.r2
    /\ stage = "from" => y = 1

(* Every call returns the residue its name says, in canonical form, whatever*)
(* the words it is given: the product, the Montgomery form a*R, or the word *)
(* whose Montgomery form it got.                                           *)
MulModIsExact ==
    stage = "done" =>
        CASE call.op = "mul_mod" -> ma = (call.a * call.b) % N
          [] call.op = "to_montgomery" -> ma = (call.a * R) % N
          [] call.op = "from_montgomery" -> ma < N /\ (ma * R) % N = call.a % N

MontInv ==
    /\ MontTypeOK
    /\ OperandsAreReduced
    /\ AccumulatorIsExact
    /\ CarriesFit
    /\ ChainIsExact
    /\ MulModIsExact
=============================================================================
