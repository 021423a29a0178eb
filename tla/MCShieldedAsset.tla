--------------------------- MODULE MCShieldedAsset ---------------------------
(* Two accounts.  Calls of an honest client cross in flight; of another     *)
(* client, which may build any call, one is as good as many.                *)
EXTENDS ShieldedAsset

MCAmounts == -1 .. 1
MCDeltas == {-1, 1}
MCMaxInFlight == [u \in User |-> IF u \in Honest THEN 2 ELSE 1]
=============================================================================
