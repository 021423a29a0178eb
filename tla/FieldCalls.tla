----------------------------- MODULE FieldCalls -----------------------------
(* The calls of the fields of Bn254 on any words, one at a time.             *)
EXTENDS Bn254

(* a to every power up to a word, modulo m.                                   *)
PowerOf(a, m) ==
    LET power[k \in 0..Word] == IF k = 0 THEN 1 ELSE (power[k - 1] * a) % m IN power

(* The moduli are primes, by what Fermat's theorem says of these.            *)
ASSUME PrimeAssumption ==
    \A m \in Moduli : \A a \in 1..(m - 1) : PowerOf(a, m)[m - 1] = 1

VARIABLE fieldReply   \* the last call of the field: operands, modulus, result

NoFieldReply == [call |-> "none", a |-> 0, b |-> 0, m |-> FR_MODULUS, out |-> 0]

FieldInit == fieldReply = NoFieldReply

Reply(call, a, b, m, out) ==
    /\ fieldReply = NoFieldReply
    /\ fieldReply' = [call |-> call, a |-> a, b |-> b, m |-> m, out |-> out]

FieldTake == fieldReply # NoFieldReply /\ fieldReply' = NoFieldReply

FieldNext ==
    \/ \E a, b \in U256, m \in Moduli :
          \/ Reply("add", a, b, m, AddMod(a, b, m))
          \/ Reply("sub", a, b, m, SubMod(a, b, m))
    \/ \E a, b \in U256 :
          Reply("mul_mod_legacy", a, b, FR_MODULUS, MulModNaive(a, b, FR_MODULUS))
    \/ \E a \in U256, m \in Moduli : Reply("invert", a, 0, m, Invert(a, m))
    \/ \E a \in U256 : Reply("sqrt_fq", a, 0, FQ_MODULUS, SqrtFq(a))
    \/ FieldTake

FieldSpec == FieldInit /\ [][FieldNext]_fieldReply

(* Sums and differences of elements are exact.  Of words that are not       *)
(* reduced they are congruent to the exact ones as long as one modulus is   *)
(* all that a sum exceeds the word by, or a difference falls below zero.    *)
(* The product by halves is the residue for all words.  An inverse is one   *)
(* for every word that has one, and zero for the others.  A square root     *)
(* squares to its argument whenever the argument is a square.               *)
FieldCallsAreExact ==
    LET a == fieldReply.a   b == fieldReply.b   m == fieldReply.m   out == fieldReply.out
    IN  CASE fieldReply.call = "add" ->
               /\ a < m /\ b < m => out = (a + b) % m
               /\ (out - (a + b)) % m = 0 <=> a + b < Word + m \/ Word % m = 0
          [] fieldReply.call = "sub" ->
               /\ a < m /\ b < m => out = (a - b) % m
               /\ (out - (a - b)) % m = 0 <=> b - a <= m \/ Word % m = 0
          [] fieldReply.call = "mul_mod_legacy" -> out = (a * b) % m
          [] fieldReply.call = "invert" ->
               out < m /\ (a * out) % m = (IF a % m = 0 THEN 0 ELSE 1)
          [] fieldReply.call = "sqrt_fq" ->
               (\E c \in U256 : (c * c) % m = a % m) => (out * out) % m = a % m
          [] OTHER -> fieldReply = NoFieldReply
=============================================================================
