------------------------------- MODULE Gadgets -------------------------------
(***************************************************************************)
(* The gadgets and hashes under one caller, who uses one of them at a      *)
(* time.  They share no state.                                             *)
(***************************************************************************)
EXTENDS BooleanGadgets, Lut, FieldAdd, Permutations, Sponge, Sha256

VARIABLE part   \* what the caller is at

vars == <<part, gate, lutVars, sum, permuted, spongeVars, shaVars>>

Init ==
    /\ part \in {"boolean", "lut", "sum", "permutation", "sponge", "sha256"}
    /\ BooleanInit /\ LutInit /\ SumInit /\ PermInit /\ SpongeInit /\ ShaInit

Next ==
    \/ /\ part = "boolean" /\ BooleanNext
       /\ UNCHANGED <<part, lutVars, sum, permuted, spongeVars, shaVars>>
    \/ /\ part = "lut" /\ LutNext
       /\ UNCHANGED <<part, gate, sum, permuted, spongeVars, shaVars>>
    \/ /\ part = "sum" /\ SumNext
       /\ UNCHANGED <<part, gate, lutVars, permuted, spongeVars, shaVars>>
    \/ /\ part = "permutation" /\ PermNext
       /\ UNCHANGED <<part, gate, lutVars, sum, spongeVars, shaVars>>
    \/ /\ part = "sponge" /\ SpongeNext
       /\ UNCHANGED <<part, gate, lutVars, sum, permuted, shaVars>>
    \/ /\ part = "sha256" /\ ShaNext
       /\ UNCHANGED <<part, gate, lutVars, sum, permuted, spongeVars>>

Spec == Init /\ [][Next]_vars
=============================================================================
