----------------------------- MODULE MCGadgets -----------------------------
(***************************************************************************)
(* The gadgets and, in turn, arithmetic modulo a foreign prime, which      *)
(* shares no state with them.  Words of three bits for the gates, three    *)
(* rows for the tables, words of three bytes in base 3 for the sums, 13    *)
(* elements for the permutations, the sizes of the code for SHA-256, and   *)
(* limbs of two bits for the foreign primes.                               *)
(***************************************************************************)
EXTENDS Gadgets, NonNative

VARIABLE turn   \* what is run: "gadgets" or "nonnative"

MCInit ==
  /\ Init /\ NonNativeInit
  /\ \/ turn = "gadgets" /\ p = CHOOSE m \in ForeignModuli : TRUE
     \/ turn = "nonnative" /\ part = "boolean"

MCNext ==
  \/ turn = "gadgets" /\ Next /\ UNCHANGED <<turn, nonNativeVars>>
  \/ turn = "nonnative" /\ NonNativeNext /\ UNCHANGED <<turn, vars>>

MCSpec == MCInit /\ [][MCNext]_<<turn, vars, nonNativeVars>>

MCRC == [k \in 1..4 |->
  IF k \in 2..3 THEN <<k + 4, 0, 0>> ELSE <<(5 * k) % 13, (3 * k + 1) % 13, (7 * k) % 13>>]
MCRoundKeys == [k \in 1..4 |-> <<k, (2 * k + 5) % 13, (9 * k) % 13>>]
MCResidue(c) == (3 * c[1] + c[2]) % 4
MCLengths == 0..140
MCWeight == [k \in 0..MAX_LIMBS |-> Base ^ k]
=============================================================================
