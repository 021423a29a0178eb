---------------------------- MODULE MCContracts ----------------------------
(***************************************************************************)
(* The four parts on small instances.                                      *)
(***************************************************************************)
EXTENDS Contracts, SequencesExt

(* Two accounts.  Calls of an honest client cross in flight; of another     *)
(* client, which may build any call, one is as good as many.                *)
MCAmounts == -1 .. 1
MCDeltas == {-1, 1}
MCMaxInFlight == [u \in User |-> IF u \in Honest THEN 2 ELSE 1]

(* One transaction of the index does not invoke the contract, as when an   *)
(* archived entry is restored; a page is too small for the whole ledger.   *)

(* The hash of ZkContract, and a contract that reads the generators, alone *)
(* and after the hash, and keeps an entry named like a generator.          *)
CONSTANTS rc, mat, fr, g1, g2, junk

MCValue == {rc, mat, fr, g1, g2}
MCBuilt == [c \in Constant |->
  CASE c = "Poseidon2RoundConstants" -> rc
    [] c = "Poseidon2MatDiag" -> mat
    [] c = "FrModulus" -> fr
    [] c = "G1Generator" -> g1
    [] c = "G2Generator" -> g2]
MCCalls == {Poseidon2Hash, <<"G1Generator">>, <<"G2Generator", "G1Generator">>,
            Poseidon2Hash \o <<"G2Generator">>}
MCOwn == {"G1Generator", "FrModulus"}
MCOwnValue == {junk, ToBytes(g2)}

(* Groups of a small prime order, keys of up to two inputs, buffers that   *)
(* are cut, extended, or of an ic_len that does not fit.                   *)
CONSTANTS NoPoint, stray, none

MCMsm(p, s) ==
  IF NoPoint \in ToSet(p) THEN NoPoint
  ELSE FoldLeft(LAMBDA x, y : x + y, 0, [i \in 1 .. Len(s) |-> p[i] * s[i]]) % Q

MCFixedLen == 3
MCPointLen == 2
MCWord == 16

Upto2(S) == {<<>>} \union {<<x>> : x \in S} \union {<<x, y>> : x, y \in S}
Good == 1 .. (Q - 1)

Ic == {<<>>, <<1, 2, 4>>} \union {<<x>> : x \in Good}
        \union {<<x, y>> : x \in {1, 2}, y \in {1, Q - 1}}
KeyOn(gamma, ic) ==
  Serialized([alpha |-> 1, beta |-> 2, gamma |-> gamma, delta |-> Q - 1, ic |-> ic])
GoodKey == {KeyOn(g, ic) : g \in {1, 2}, ic \in Ic}
OneInput == {KeyOn(1, <<2, y>>) : y \in {1, 2}}

Strayed == {[KeyOn(1, ic) EXCEPT !.beta = b, !.gamma = g, !.delta = d] :
              ic \in {<<1>>, <<2, 1>>}, b, g, d \in {1, stray}}

BadPoint == {[KeyOn(g, ic) EXCEPT !.alpha = a] :
               a \in {0, 1}, g \in {1, NoPoint}, ic \in Upto2({0, 1, NoPoint})}
Cut == {[b EXCEPT !.len = @ - 1, !.ic = <<2>>] : b \in OneInput}
Short == {[KeyOn(1, <<>>) EXCEPT !.len = MCFixedLen - 1]}
Longer == {[b EXCEPT !.len = @ + MCPointLen, !.ic = Append(@, 1)] : b \in OneInput}
Misled == {[b EXCEPT !.icLen = n] : b \in OneInput, n \in 0 .. (MCWord - 1)}
MCBuffer == GoodKey \union Strayed \union BadPoint \union Cut \union Short \union Longer \union Misled

ProofOf(a, b, c) == [whole |-> TRUE, a |-> a, b |-> b, c |-> c]
MCProofBuffer ==
  {ProofOf(a, 1, c) : a \in Good, c \in {1, 3}}
    \union {[ProofOf(1, 1, 1) EXCEPT !.whole = FALSE]}
    \union {ProofOf(1, stray, 1)}
    \union UNION {{ProofOf(x, 1, 1), ProofOf(1, x, 1), ProofOf(1, 1, x)} : x \in {0, NoPoint}}

MCInputs == Upto2({0, 1, Q - 1, Q}) \union {<<x>> : x \in 0 .. (Q + 1)}
=============================================================================
