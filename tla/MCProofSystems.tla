--------------------------- MODULE MCProofSystems ---------------------------
(* The field of 17 elements for polynomials, Halo2 and range proofs of four *)
(* bits, that of 97 for the STARK blocks: 97 - 1 is 3 times a power of two, *)
(* and the offset of the domains has three in its order, as in the code.    *)
EXTENDS ProofSystems

MCCoeffLists ==
  UNION {[1..n -> {0, 1, 16}] : n \in 0..2} \cup {<<3, 0, 5>>, <<2, 0, 0, 0>>, <<0, 0, 0, 1>>}
MCTermLists == UNION {[1..n -> {0, 1, 4} \X {0, 1, 16}] : n \in 0..3}

(* Keys over two rows and two columns.                                      *)
MCPermutations == {s \in [1..4 -> 0..3] : {s[i] : i \in 1..4} = 0..3}
MCOthers == {<<0, 0, 2, 3>>, <<1, 1, 2, 3>>, <<3, 3, 3, 3>>, <<1, 2, 2, 0>>, <<1, 0, 3, 3>>}
MCIdentity == <<0, 1, 2, 3>>
MCNoGate == FromTermList(<<>>)
MCRotated == FromTermList(<<FromFactors(1, <<<<0, 1>>>>), FromFactors(16, <<<<1, -2>>>>)>>)
MCSquare == FromTermList(<<FromFactors(1, <<<<0, 0>>, <<0, -3>>>>), FromFactors(16, <<<<1, 1>>>>)>>)
MCKey(sigma, n, gates) ==
  [domain |-> 2, numGates |-> n, gates |-> gates, sigma |-> sigma, permutationCols |-> 2]
MCSound ==
  {MCKey(s, 0, <<MCNoGate, MCNoGate>>) : s \in MCPermutations \cup MCOthers}
    \cup {MCKey(s, 2, <<MCRotated, MCSquare>>) : s \in {MCIdentity, <<2, 1, 0, 3>>}}
    \cup {MCKey(s, 1, <<MCSquare, MCRotated>>) : s \in {<<3, 2, 1, 0>>, <<0, 0, 1, 2>>}}
MCMalformed ==
  LET key == MCKey(MCIdentity, 1, <<MCRotated, MCNoGate>>) IN
  {[key EXCEPT !.domain = 3], [key EXCEPT !.numGates = 3], [key EXCEPT !.permutationCols = 3],
   [key EXCEPT !.sigma = <<0, 4, 1, 2>>], [key EXCEPT !.sigma = <<0, 1, 2>>],
   [key EXCEPT !.sigma = <<0, 1, 2, 3, 4>>],
   [key EXCEPT !.gates = <<[MCRotated EXCEPT !.numTerms = 3], MCNoGate>>],
   [key EXCEPT !.gates = <<FromTermList(<<[FromFactors(1, <<>>) EXCEPT !.degree = 3]>>), MCNoGate>>],
   [key EXCEPT !.gates = <<FromTermList(<<FromFactors(1, <<<<0, 0>>, <<2, 0>>>>)>>), MCNoGate>>]}
MCKeys == MCSound \cup MCMalformed

MCStreams == {
  [alpha |-> 3, rho |-> 5, tau1 |-> 7, tau2 |-> 11, sL |-> <<1, 2, 16, 4>>, sR |-> <<9, 1, 3, 8>>],
  [alpha |-> 16, rho |-> 1, tau1 |-> 2, tau2 |-> 2, sL |-> <<6, 6, 1, 13>>, sR |-> <<1, 1, 1, 1>>],
  [alpha |-> 2, rho |-> 1, tau1 |-> 2, tau2 |-> 2, sL |-> <<6, 0, 1, 13>>, sR |-> <<1, 1, 1, 1>>]}
MCYZChallenges == {<<0, 3>>, <<1, 0>>, <<2, 5>>, <<16, 1>>}
MCWeights == {<<>>, <<3, 5>>, <<4, 0>>}

MCTracePolys ==
  {<<>>, <<1>>, <<0, 1>>, <<3, 5, 7>>, <<1, 0, 2, 0, 96, 4, 5, 6>>, <<0, 0, 0, 0, 0, 11>>}

(* Cells of a trace are numbers, <<n>>, or words of digests.                *)
MCZero == <<<<0>>>>
MCOne == <<<<1>>>>
MCPair(one, other) == AsColumns(RowLeaf(one)) \o AsColumns(RowLeaf(other))
MCTraces ==
  UNION {[1..n -> {MCZero, MCOne}] : n \in 0..4}
    \cup {[k \in 1..n |-> <<<<k>>, <<k>>>>] : n \in 5..8}
    \cup {<<[k \in 1..9 |-> <<1>>], MCOne>>, <<MCPair(MCZero, MCOne), MCOne>>}
MCRevealedRows ==
  {MCZero, MCOne, <<<<4>>, <<4>>>>, MCPair(MCZero, MCOne), MCPair(MCOne, MCOne),
   MCPair(MCPair(MCZero, MCOne), MCPair(MCOne, MCOne))}
MCColumns == UNION {UNION {{t[k][c] : c \in DOMAIN t[k]} : k \in DOMAIN t} : t \in MCTraces}
MCBadSiblings ==
  {<<RowLeaf(MCZero), RowLeaf(MCOne)>>,
   <<RowLeaf(MCOne), ShaPair(RowLeaf(MCZero), RowLeaf(MCOne))>>,
   <<ShaPair(RowLeaf(MCOne), RowLeaf(MCOne))>>}
MCAetSizes == {0, 1, 3, 4} \X {0, 1}
=============================================================================
