---------------------------- MODULE Arithmetic ----------------------------
(***************************************************************************)
(* The arithmetic of soroban-zk-core under one caller: a product of words, *)
(* a call of the field, or a computation on the curve.  The parts share no *)
(* state; Curve takes the products of Montgomery to be exact.              *)
(***************************************************************************)
EXTENDS Montgomery, FieldCalls, Curve

VARIABLE part   \* what the caller is at

vars == <<part, montVars, fieldReply, curveVars>>

Init ==
    /\ part \in {"product", "field", "curve"}
    /\ MontInit /\ FieldInit /\ CurveInit
    /\ part # "curve" => group = "none"

Next ==
    \/ part = "product" /\ MontNext /\ UNCHANGED <<part, fieldReply, curveVars>>
    \/ part = "field" /\ FieldNext /\ UNCHANGED <<part, montVars, curveVars>>
    \/ part = "curve" /\ CurveNext /\ UNCHANGED <<part, montVars, fieldReply>>

Spec == Init /\ [][Next]_vars
=============================================================================
