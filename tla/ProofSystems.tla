---------------------------- MODULE ProofSystems ----------------------------
(***************************************************************************)
(* The building blocks of proof systems under one caller, who uses one of  *)
(* them at a time.  They share no state.                                   *)
(***************************************************************************)
EXTENDS Polynomials, Halo2, Bulletproofs, Fri, StarkTree

VARIABLE part   \* what the caller is at

vars == <<part, polyVars, halo2Vars, rangeVars, friVars, treeVars>>

Init ==
    /\ part \in {"polynomial", "halo2", "range", "fri", "tree"}
    /\ PolyInit /\ Halo2Init /\ RangeInit /\ FriInit /\ TreeInit

Next ==
    \/ /\ part = "polynomial" /\ PolyNext
       /\ UNCHANGED <<part, halo2Vars, rangeVars, friVars, treeVars>>
    \/ /\ part = "halo2" /\ Halo2Next
       /\ UNCHANGED <<part, polyVars, rangeVars, friVars, treeVars>>
    \/ /\ part = "range" /\ RangeNext
       /\ UNCHANGED <<part, polyVars, halo2Vars, friVars, treeVars>>
    \/ /\ part = "fri" /\ FriNext
       /\ UNCHANGED <<part, polyVars, halo2Vars, rangeVars, treeVars>>
    \/ /\ part = "tree" /\ TreeNext
       /\ UNCHANGED <<part, polyVars, halo2Vars, rangeVars, friVars>>

Spec == Init /\ [][Next]_vars
=============================================================================
