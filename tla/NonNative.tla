----------------------------- MODULE NonNative -----------------------------
(***************************************************************************)
(* Arithmetic modulo a foreign prime p on little-endian limbs              *)
(* (soroban-zk-std/src/gadgets/nonnative.rs).                              *)
(*                                                                         *)
(* A Bignum is its value: limb i of v is Limb(v, i), and the number of     *)
(* limbs in use is LimbCount(v).  What is kept limb by limb is the long    *)
(* division (div_rem), one digit of the quotient per step, since its       *)
(* correctness hangs on which limbs the estimate of a digit looks at.      *)
(***************************************************************************)
EXTENDS Integers

CONSTANTS
    Base,       \* 2^LIMB_BITS, the limb base
    MAX_LIMBS,  \* the capacity of a Bignum
    Weight,     \* Weight[i] is Base^i, the weight of limb i
    ForeignModuli   \* the moduli that fields are built from

ASSUME BaseAssumption == Base \in Nat /\ Base > 1

ASSUME WeightAssumption ==
    /\ MAX_LIMBS \in Nat
    /\ Weight \in [0..MAX_LIMBS -> Nat \ {0}]
    /\ Weight[0] = 1
    /\ MAX_LIMBS > 0 => Weight[1] = Base
    /\ \A i, k \in 0..MAX_LIMBS :
          i + k <= MAX_LIMBS => Weight[i + k] = Weight[i] * Weight[k]

(* An element takes at most so many limbs that products fit, scaled.       *)
ASSUME ForeignModuliAssumption ==
    \A m \in ForeignModuli :
        /\ m \in Nat \ {0}
        /\ \E len \in 1..MAX_LIMBS : m < Weight[len] /\ 2 * len + 2 <= MAX_LIMBS

VARIABLES
    p,       \* NonNativeField::modulus
    pc,      \* "idle", or the next part of the running call
    call,    \* the operation and its operands
    a,       \* div_rem: what is left of the scaled dividend
    place,   \* div_rem: the position of the next digit, -1 when none is left
    qhat,    \* div_rem: the estimate of the digit
    rhat,    \* div_rem: the remainder of the estimate
    q,       \* div_rem: the quotient so far
    r,       \* div_rem: the remainder
    returned \* what the last call returned

locals == <<a, place, qhat, rhat, q, r>>
nonNativeVars == <<p, pc, call, locals, returned>>

-----------------------------------------------------------------------------

(* Limb i of a value, and the number of its limbs, at least 1.             *)
Limb(v, i) == (v \div Weight[i]) % Base

HasLimbs(v, len) == v < Weight[len] /\ (len > 1 => v >= Weight[len - 1])

LimbCount(v) == CHOOSE len \in 1..MAX_LIMBS : HasLimbs(v, len)

(* num_limbs, the number of limbs of the modulus and of every element.     *)
n == LimbCount(p)

(* An Fp is a public vector of words: its length may be wrong, or one of its *)
(* words may not fit in a limb.  The value of such a vector is never read. *)
Fp ==
    [len : {n}, wide : {FALSE}, value : 0..(Weight[n] - 1)]
        \cup [len : {n}, wide : {TRUE}, value : {0}]
        \cup [len : {n + 1}, wide : BOOLEAN, value : {0}]

AssertValid(fp) ==
    IF fp.len # n THEN "InvalidInput"
    ELSE IF fp.wide THEN "ConstraintUnsatisfied" ELSE "Ok"

Ok(value, carry) == [status |-> "Ok", value |-> value, carry |-> carry]
Err(error) == [status |-> error, value |-> 0, carry |-> 0]

NoFp == [len |-> 0, wide |-> FALSE, value |-> 0]
NoCall == [op |-> "none", e |-> NoFp, f |-> NoFp]
NoReturn == Err("none")

(* What the call divides by the modulus.                                   *)
Dividend == IF call.op = "mul" THEN call.e.value * call.f.value ELSE call.e.value

(* The factor that makes the top limb of the divisor large.                *)
Scale == Base \div (Limb(p, n - 1) + 1)
Divisor == Scale * p

(* The n + 1 limbs of the dividend that the next digit is taken from.      *)
Window == (a \div Weight[place]) % Weight[n + 1]

-----------------------------------------------------------------------------

NonNativeInit ==
    /\ p \in ForeignModuli
    /\ pc = "idle"
    /\ call = NoCall
    /\ a = 0 /\ place = -1 /\ qhat = 0 /\ rhat = 0 /\ q = 0 /\ r = 0
    /\ returned = NoReturn

Return(value) ==
    /\ pc' = "answered"
    /\ returned' = value
    /\ a' = 0 /\ place' = -1 /\ qhat' = 0 /\ rhat' = 0 /\ q' = 0 /\ r' = 0
    /\ UNCHANGED p

Begin(op, e, f) ==
    /\ pc = "idle"
    /\ call' = [op |-> op, e |-> e, f |-> f]

(* A number becomes an element only when it is below the modulus.          *)
FromU256(e) ==
    /\ AssertValid(e) = "Ok"
    /\ Begin("from_u256", e, e)
    /\ Return(IF e.value >= p THEN Err("InvalidFieldElement") ELSE Ok(e.value, 0))

(* Mutant of CarryInto: a sum of exactly the base does not carry.          *)
CarryIntoStrict(e, f, i) ==
    IF (e % Weight[i]) + (f % Weight[i]) > Weight[i] THEN 1 ELSE 0

(* The limbs of a sum are checked one by one against the carries.  The sum *)
(* is not reduced: what does not fit in n limbs is the carry.              *)
CarryInto(e, f, i) == ((e % Weight[i]) + (f % Weight[i])) \div Weight[i]

CarriesHold(e, f) ==
    /\ \A i \in 0..(n - 1) :
          Limb(e + f, i) = (Limb(e, i) + Limb(f, i) + CarryInto(e, f, i)) % Base
    /\ Limb(e + f, n) = CarryInto(e, f, n)

Sum(e, f) ==
    IF CarriesHold(e, f)
    THEN Ok((e + f) % Weight[n], CarryInto(e, f, n))
    ELSE Err("ConstraintUnsatisfied")

Invalid(e, f) == AssertValid(e) # "Ok" \/ AssertValid(f) # "Ok"
Rejection(e, f) == Err(IF AssertValid(e) # "Ok" THEN AssertValid(e) ELSE AssertValid(f))

Add(e, f) ==
    /\ Begin("add", e, f)
    /\ Return(IF Invalid(e, f) THEN Rejection(e, f) ELSE Sum(e.value, f.value))

(* reduce and mul check their operands and divide.                         *)
Divide(op, e, f) ==
    /\ Begin(op, e, f)
    /\ \/ /\ Invalid(e, f)
          /\ Return(Rejection(e, f))
       \/ /\ ~Invalid(e, f)
          /\ pc' = "divide"
          /\ UNCHANGED <<p, locals, returned>>

(* A dividend below the modulus is its own remainder.                      *)
DivideSmall ==
    /\ pc = "divide" /\ Dividend < p
    /\ pc' = "check"
    /\ r' = Dividend
    /\ UNCHANGED <<p, call, a, place, qhat, rhat, q, returned>>

(* Otherwise dividend and divisor are scaled.  The dividend is given a zero *)
(* limb on top when it has no more limbs than the divisor, and only then.  *)
FirstPosition(scaled) ==
    IF LimbCount(scaled) <= n THEN 0 ELSE LimbCount(scaled) - n - 1

Normalize ==
    /\ pc = "divide" /\ Dividend >= p
    /\ pc' = "digit"
    /\ a' = Scale * Dividend
    /\ place' = FirstPosition(Scale * Dividend)
    /\ UNCHANGED <<p, call, qhat, rhat, q, r, returned>>

(* A digit is estimated from the two top limbs of the window ...           *)
Estimate ==
    /\ pc = "digit"
    /\ pc' = "correct"
    /\ qhat' = (Window \div Weight[n - 1]) \div Limb(Divisor, n - 1)
    /\ rhat' = (Window \div Weight[n - 1]) % Limb(Divisor, n - 1)
    /\ UNCHANGED <<p, call, a, place, q, r, returned>>

(* ... and lowered while the limb below shows that it is too large, or     *)
(* until its remainder outgrows a limb.                                    *)
TooLarge ==
    \/ qhat >= Base
    \/ n > 1 /\ qhat * Limb(Divisor, n - 2) > rhat * Base + Limb(Window, n - 2)

(* Mutant of Correct: the remainder of the estimate is not raised.         *)
CorrectOnly ==
    /\ pc = "correct" /\ TooLarge
    /\ qhat' = qhat - 1
    /\ UNCHANGED <<pc, rhat, p, call, a, place, q, r, returned>>

Correct ==
    /\ pc = "correct" /\ TooLarge
    /\ qhat' = qhat - 1
    /\ rhat' = IF n > 1 THEN rhat + Limb(Divisor, n - 1) ELSE rhat
    /\ pc' = IF n > 1 /\ rhat' >= Base THEN "subtract" ELSE "correct"
    /\ UNCHANGED <<p, call, a, place, q, r, returned>>

(* The product is subtracted from the window, modulo its n + 1 limbs, and  *)
(* the divisor added back once if that borrows.                            *)
Size == Weight[n + 1]
Product == (qhat * Divisor) % Size
Borrows == Window < Product

(* Mutant of RestOf: the divisor is not added back.                        *)
RestOfBorrowed == IF Borrows THEN Window - Product + Size ELSE Window - Product

DigitOf == IF Borrows THEN qhat - 1 ELSE qhat
RestOf == IF Borrows THEN (Window - Product + Size + Divisor) % Size
          ELSE Window - Product

Subtract ==
    /\ \/ pc = "subtract"
       \/ pc = "correct" /\ ~TooLarge
    /\ a' = a - Weight[place] * (Window - RestOf)
    /\ q' = q + Weight[place] * DigitOf
    /\ qhat' = 0 /\ rhat' = 0
    /\ place' = place - 1
    /\ pc' = IF place = 0 THEN "remainder" ELSE "digit"
    /\ UNCHANGED <<p, call, r, returned>>

(* The n low limbs, scaled back, are the remainder.                        *)
Remainder ==
    /\ pc = "remainder"
    /\ pc' = "check"
    /\ r' = (a % Weight[n]) \div Scale
    /\ UNCHANGED <<p, call, a, place, qhat, rhat, q, returned>>

(* Mutant of Check: the relation is not verified.                          *)
CheckNothing ==
    /\ pc = "check"
    /\ Return(Ok(r % Weight[n], 0))
    /\ UNCHANGED call

(* The private add gives its sum as many limbs as the longer operand has;  *)
(* what it carries into a new limb is not among those that cmp compares.   *)
Recomputes(v) ==
    \E k, l \in 1..MAX_LIMBS :
        /\ HasLimbs(q * p, k) /\ HasLimbs(r, l)
        /\ v = (q * p + r) % Weight[IF k > l THEN k ELSE l]

(* reduce and mul verify the division before they answer.                  *)
Check ==
    /\ pc = "check"
    /\ Return(IF Recomputes(Dividend) THEN Ok(r % Weight[n], 0)
              ELSE Err("ConstraintUnsatisfied"))
    /\ UNCHANGED call

(* A field keeps nothing between calls.                                    *)
Take ==
    /\ pc = "answered"
    /\ pc' = "idle"
    /\ call' = NoCall
    /\ returned' = NoReturn
    /\ UNCHANGED <<p, locals>>

NonNativeNext ==
    \/ \E e \in Fp : FromU256(e) \/ Divide("reduce", e, e)
    \/ \E e, f \in Fp : Add(e, f) \/ Divide("mul", e, f)
    \/ DivideSmall \/ Normalize \/ Estimate \/ Correct \/ Subtract
    \/ Remainder \/ Check \/ Take

NonNativeSpec == NonNativeInit /\ [][NonNativeNext]_nonNativeVars

-----------------------------------------------------------------------------

Statuses == {"none", "Ok", "InvalidInput", "ConstraintUnsatisfied", "InvalidFieldElement"}

(* Every variable keeps its type.                                          *)
TypeOK ==
    /\ p \in ForeignModuli
    /\ pc \in {"idle", "divide", "digit", "correct", "subtract", "remainder",
               "check", "answered"}
    /\ call \in [op : {"from_u256", "add", "mul", "reduce"}, e : Fp, f : Fp]
                   \cup {NoCall}
    /\ a \in Nat /\ qhat \in Nat /\ rhat \in Nat /\ q \in Nat /\ r \in Nat
    /\ place \in -1..MAX_LIMBS
    /\ returned \in [status : Statuses, value : Nat, carry : Nat]

(* The window of the first digit starts below the divisor, as long division *)
(* needs.  The limb that is put on top of the dividend does not see to it. *)
Aligned ==
    Scale * Dividend < Divisor * Weight[FirstPosition(Scale * Dividend) + 1]

Dividing == pc \in {"digit", "correct", "subtract", "remainder"}

(* What is left of an aligned dividend is always a remainder of it, and too *)
(* small for another digit above it.                                       *)
DivisionIsExact ==
    Dividing /\ Aligned =>
        /\ a = Scale * Dividend - Divisor * q
        /\ a < Divisor * Weight[place + 1]

(* Only valid operands are divided, and the window stays within the limbs. *)
OperandsAreValid ==
    pc \notin {"idle", "answered"} =>
        call.op \in {"mul", "reduce"} /\ ~Invalid(call.e, call.f)

PositionOK ==
    /\ pc \in {"idle", "divide", "answered"} => q = 0
    /\ pc \in {"digit", "correct", "subtract"} => place \in 0..(MAX_LIMBS - n - 1)
    /\ pc = "remainder" => place = -1

(* An estimate is never below the digit, so that adding back once suffices. *)
EstimateIsEnough ==
    /\ pc = "subtract" => n > 1 /\ rhat >= Base
    /\ pc \in {"correct", "subtract"} /\ n > 1 =>
          qhat * Limb(Divisor, n - 1) + rhat = Window \div Weight[n - 1]
    /\ pc \in {"correct", "subtract"} /\ Aligned =>
          /\ qhat >= Window \div Divisor
          /\ n = 1 => qhat = Window \div Divisor

(* The remainder of an aligned dividend, or of one below the modulus, is   *)
(* the canonical one when the division is verified.                        *)
RemainderIsExact ==
    pc = "check" =>
        /\ r < Weight[n]
        /\ Aligned \/ Dividend < p => q * p + r = Dividend /\ r < p

Answered(op) == pc = "answered" /\ call.op = op /\ ~Invalid(call.e, call.f)

(* reduce returns the canonical representative of every valid element, and *)
(* never refuses one.                                                      *)
ReduceIsCanonical ==
    Answered("reduce") => returned = Ok(call.e.value % p, 0)

(* The dividend takes a limb more than both its remainder and the multiple *)
(* of the modulus below it.                                                *)
Outgrows ==
    \E k \in 1..MAX_LIMBS :
        /\ Dividend % p < Weight[k] /\ Dividend - (Dividend % p) < Weight[k]
        /\ Dividend >= Weight[k]

(* mul returns the canonical representative when the dividend is aligned   *)
(* and does not outgrow the two numbers whose sum it is compared with: only *)
(* then the division is right and the check sees that it is (nonnative.rs, *)
(* add and cmp under mul).                                                 *)
AlignedMulIsCanonical ==
    Answered("mul") /\ (Aligned \/ Dividend < p) /\ ~Outgrows =>
        returned = Ok(Dividend % p, 0)

(* What mul returns is congruent to the product in every case: a division  *)
(* that went wrong is not passed on.                                       *)
MulIsCongruent ==
    Answered("mul") /\ returned.status = "Ok" => returned.value % p = Dividend % p

(* add never refuses valid elements, and its sum and carry are exact.      *)
AddIsExact ==
    Answered("add") =>
        /\ returned.status = "Ok"
        /\ returned.value + Weight[n] * returned.carry = call.e.value + call.f.value

(* All of these, the inductive invariant.                                  *)
IInv ==
    /\ TypeOK /\ OperandsAreValid /\ PositionOK
    /\ DivisionIsExact /\ EstimateIsEnough /\ RemainderIsExact
    /\ ReduceIsCanonical /\ AlignedMulIsCanonical /\ MulIsCongruent /\ AddIsExact
=============================================================================
