--------------------------- MODULE BooleanGadgets ---------------------------
(***************************************************************************)
(* Bit decompositions, gates over vectors of bits and the multiplexer      *)
(* (soroban-zk-std/src/gadgets/boolean.rs).  Every gadget computes and     *)
(* checks at once; a wire that should be a bit may hold any word.          *)
(***************************************************************************)
EXTENDS Integers, Sequences

CONSTANTS
    WordBits,   \* 256
    BitCounts,  \* the counts of bits a caller asks for
    Wires,      \* what a supplied vector of bits may hold
    MaxVector,  \* the length of a supplied vector
    Checked     \* the builds: does the type of a word check its operations

(* What a bit counts at its position.                                        *)
BitWeight[k \in 0..WordBits] == IF k = 0 THEN 1 ELSE 2 * BitWeight[k - 1]

ASSUME BooleanAssumption ==
    /\ WordBits \in Nat \ {0} /\ BitCounts \subseteq Nat
    /\ MaxVector \in Nat
    /\ Wires \subseteq 0..(BitWeight[WordBits] - 1)
    /\ Checked \subseteq BOOLEAN

Value == 0..(BitWeight[WordBits] - 1)
Vectors == UNION {[1..k -> Wires] : k \in 0..MaxVector}
Ops == {"and", "or", "xor"}

Is(out) == [status |-> "ok", out |-> out]
Unmet(why) == [status |-> why, out |-> <<>>]

AssertBits(bits) == \A k \in DOMAIN bits : bits[k] \in {0, 1}

(* The bits are joined by `|=`.  A shift past the word panics in a build    *)
(* that checks; in the others its amount wraps, and the bit meets those at  *)
(* the position it wraps to.                                                *)
Overshifts(checked, bits) == checked /\ Len(bits) > WordBits

Wrapped(bits) ==
    [k \in 1..(IF Len(bits) > WordBits THEN WordBits ELSE Len(bits)) |->
       IF \E l \in DOMAIN bits : bits[l] = 1 /\ (l - 1) % WordBits = k - 1 THEN 1 ELSE 0]

Recomposition(bits) ==
    LET w == Wrapped(bits)
        joined[k \in 0..Len(w)] ==
          IF k = 0 THEN 0 ELSE joined[k - 1] + (w[k] * BitWeight[k - 1])
    IN  joined[Len(w)]

BitDecompose(v, n) ==
    LET bits == [k \in 1..n |-> (v \div BitWeight[k - 1]) % 2] IN
    IF n > WordBits THEN Unmet("InvalidInput")
    ELSE IF Recomposition(bits) # v THEN Unmet("ConstraintUnsatisfied")
    ELSE Is(bits)

(* Mutant of AssertBitDecomposition: the wires are not checked to be bits.   *)
AssertSumOnly(checked, v, bits, n) ==
    IF n # Len(bits) THEN Unmet("InvalidInput")
    ELSE IF Overshifts(checked, bits) THEN Unmet("panic")
    ELSE IF Recomposition(bits) # v THEN Unmet("ConstraintUnsatisfied")
    ELSE Is(bits)

AssertBitDecomposition(checked, v, bits, n) ==
    IF n # Len(bits) THEN Unmet("InvalidInput")
    ELSE IF ~AssertBits(bits) THEN Unmet("ConstraintUnsatisfied")
    ELSE IF Overshifts(checked, bits) THEN Unmet("panic")
    ELSE IF Recomposition(bits) # v THEN Unmet("ConstraintUnsatisfied")
    ELSE Is(bits)

(* A gate on two bits, as the polynomial the code computes.                 *)
GateBit(op, a, b) ==
    CASE op = "and" -> a * b
      [] op = "or" -> a + b - a * b
      [] op = "xor" -> a + b - 2 * (a * b)

GateBits(op, a, b) ==
    IF Len(a) # Len(b) THEN Unmet("InvalidInput")
    ELSE IF ~AssertBits(a) \/ ~AssertBits(b) THEN Unmet("ConstraintUnsatisfied")
    ELSE Is([k \in DOMAIN a |-> GateBit(op, a[k], b[k])])

NotBits(a) ==
    IF ~AssertBits(a) THEN Unmet("ConstraintUnsatisfied")
    ELSE Is([k \in DOMAIN a |-> 1 - a[k]])

Recompose(checked, bits) ==
    IF ~AssertBits(bits) THEN Unmet("ConstraintUnsatisfied")
    ELSE IF Overshifts(checked, bits) THEN Unmet("panic")
    ELSE Is(Recomposition(bits))

(* bitwise_and, bitwise_or and bitwise_xor.                                 *)
Bitwise(checked, op, a, b, n) ==
    LET ba == BitDecompose(a, n)   bb == BitDecompose(b, n) IN
    IF ba.status # "ok" THEN ba
    ELSE IF bb.status # "ok" THEN bb
    ELSE Recompose(checked, GateBits(op, ba.out, bb.out).out)

(* b - a is taken whatever the selector; in a build that checks it panics   *)
(* below zero, in the others it wraps and the sum wraps back.               *)
Mux(checked, sel, a, b) ==
    IF sel \notin {0, 1} THEN Unmet("ConstraintUnsatisfied")
    ELSE IF checked /\ b < a THEN Unmet("panic")
    ELSE Is((a + (sel * ((b - a) % BitWeight[WordBits]))) % BitWeight[WordBits])

-----------------------------------------------------------------------------

VARIABLE gate   \* the last call: its name, its inputs, its result

NoGate == [call |-> "none", args |-> <<>>, result |-> Unmet("none")]

BooleanInit == gate = NoGate

Answers(call, args, result) == gate' = [call |-> call, args |-> args, result |-> result]

BooleanNext ==
    \/ /\ gate = NoGate
       /\ \/ \E v \in Value, n \in BitCounts : Answers("decompose", <<v, n>>, BitDecompose(v, n))
          \/ \E c \in Checked, v \in Value, w \in Vectors, n \in 0..MaxVector :
                Answers("assert", <<c, v, w, n>>, AssertBitDecomposition(c, v, w, n))
          \/ \E op \in Ops, a, b \in Vectors : Answers(op, <<a, b>>, GateBits(op, a, b))
          \/ \E a \in Vectors : Answers("not", <<a>>, NotBits(a))
          \/ \E c \in Checked, a \in Vectors : Answers("recompose", <<c, a>>, Recompose(c, a))
          \/ \E c \in Checked, op \in Ops, a, b \in Value, n \in BitCounts :
                Answers("bitwise", <<op, a, b, n>>, Bitwise(c, op, a, b, n))
          \/ \E c \in Checked, sel \in Wires, a, b \in Value :
                Answers("mux", <<c, sel, a, b>>, Mux(c, sel, a, b))
    \/ gate # NoGate /\ gate' = NoGate

BooleanSpec == BooleanInit /\ [][BooleanNext]_gate

-----------------------------------------------------------------------------

(* The positions of the bits of a number, as sets.                          *)
Ones(v) == {k \in 0..(WordBits - 1) : (v \div BitWeight[k]) % 2 = 1}
Combined(op, A, B) ==
    CASE op = "and" -> A \cap B [] op = "or" -> A \cup B
      [] op = "xor" -> (A \cup B) \ (A \cap B)
OnesOf(bits) == {k - 1 : k \in {l \in DOMAIN bits : bits[l] = 1}}

(* The wires of a decomposition of a number.                                 *)
Decomposes(w, v, n) ==
    Len(w) = n /\ (\A k \in DOMAIN w : w[k] < 2) /\ OnesOf(w) = Ones(v)

(* Is every bit of the vector joined at its own position?                   *)
Fits(checked, w) == checked \/ Len(w) <= WordBits

(* A value has a decomposition of n bits exactly when it is below 2^n.  Of  *)
(* the vectors that fit in the word no other passes for it, whatever their  *)
(* wires hold, and in a build that checks its shifts no longer vector does. *)
(* Gates combine the sets of positions that are one, and refuse what is not *)
(* a bit.  What the multiplexer returns is the operand it was asked for.    *)
GatesAreExact ==
    LET args == gate.args   ok == gate.result.status = "ok"   out == gate.result.out IN
    CASE gate.call = "decompose" ->
           /\ ok <=> args[2] <= WordBits /\ args[1] < BitWeight[args[2]]
           /\ ok => Len(out) = args[2] /\ OnesOf(out) = Ones(args[1])
      [] gate.call = "assert" ->
           /\ ok /\ Fits(args[1], args[3]) => Decomposes(args[3], args[2], args[4])
           /\ Len(args[3]) <= WordBits /\ Decomposes(args[3], args[2], args[4]) => ok
      [] gate.call \in Ops ->
           /\ ok <=> Len(args[1]) = Len(args[2]) /\ \A k \in DOMAIN args[1] :
                        args[1][k] < 2 /\ args[2][k] < 2
           /\ ok => /\ Len(out) = Len(args[1])
                    /\ OnesOf(out) = Combined(gate.call, OnesOf(args[1]), OnesOf(args[2]))
      [] gate.call = "not" -> ok => OnesOf(out) = (0..(Len(args[1]) - 1)) \ OnesOf(args[1])
      [] gate.call = "recompose" -> ok /\ Fits(args[1], args[2]) => Ones(out) = OnesOf(args[2])
      [] gate.call = "bitwise" ->
           /\ ok <=> args[4] <= WordBits /\ args[2] < BitWeight[args[4]] /\ args[3] < BitWeight[args[4]]
           /\ ok => Ones(out) = Combined(args[1], Ones(args[2]), Ones(args[3]))
      [] gate.call = "mux" ->
           /\ ok => args[2] < 2 /\ out = IF args[2] = 1 THEN args[4] ELSE args[3]
           /\ args[2] < 2 /\ args[3] <= args[4] => ok
      [] OTHER -> gate = NoGate

(* The multiplexer returns (1 - sel) * a + sel * b for every selector that  *)
(* is a bit, as its comment says.  A build that checks panics when b is     *)
(* below a, also when a is selected.                                        *)
MuxSelects ==
    gate.call = "mux" /\ gate.args[2] < 2 =>
        /\ gate.result.status = "ok"
        /\ gate.result.out = IF gate.args[2] = 1 THEN gate.args[4] ELSE gate.args[3]
=============================================================================
