------------------------------ MODULE StarkTree ------------------------------
(***************************************************************************)
(* Commitments to execution traces: rows as leaves, the tree over them,    *)
(* authentication paths, and the constraints checked on revealed rows      *)
(* (soroban-zk-std/src/stark/merkle.rs and aet.rs).                        *)
(*                                                                         *)
(* SHA-256 is opaque and has no collisions: a digest is the columns, of    *)
(* eight bytes each, that were hashed.  Leaves and nodes are hashed alike. *)
(* A caller commits to a trace level by level, opens one row level by      *)
(* level, and reveals a row against the root.                              *)
(***************************************************************************)
EXTENDS Integers, Sequences

CONSTANTS
    Traces,         \* traces: sequences of rows, which are sequences
    Columns,        \* what a column may hold, words of digests among it
    DigestWords,    \* columns that a digest fills, 4
    MAX_COLUMNS,    \* columns a row's buffer has room for, 64
    MAX_DEPTH,      \* siblings a path has room for, 32
    RowIndices,     \* rows opened
    RevealedRows,   \* rows claimed
    PathIndices,    \* indices of paths
    BadSiblings,    \* other siblings in a path
    AetSizes        \* pairs of log_trace_length and trace_width

(* The powers that a path and its depth know.                               *)
Pow2[d \in 0..MAX_DEPTH] == IF d = 0 THEN 1 ELSE 2 * Pow2[d - 1]

(* The leaves are in a vector of the host, whose length is a word of        *)
(* MAX_DEPTH bits.                                                          *)
ASSUME TreeAssumption ==
    /\ MAX_DEPTH \in Nat /\ DigestWords \in Nat \ {0}
    /\ \A t \in Traces : t \in Seq(Seq(Columns)) /\ Len(t) <= Pow2[MAX_DEPTH]
    /\ RowIndices \subseteq Nat /\ PathIndices \subseteq Nat
    /\ AetSizes \subseteq Nat \X Nat

VARIABLES
    trace,      \* the trace committed to, or being so
    phase,      \* what the caller does: "idle", "root", "open", "opened", "panic"
    level,      \* the level of the tree at hand
    root,       \* the root, or NoRoot
    path,       \* the path being opened: siblings, depth and index
    idx,        \* where it stands in the level
    revealed    \* the last answer to a revealed row

treeVars == <<trace, phase, level, root, path, idx, revealed>>

NoRoot == <<>>
NoPath == [siblings |-> <<>>, depth |-> 0, index |-> 0]
NotRevealed == [call |-> "none"]

Sha(columns) == <<"sha", columns>>
AsColumns(digest) == [k \in 1..DigestWords |-> <<digest, k>>]

RowLeaf(row) == Sha(row)
ShaPair(l, r) == Sha(AsColumns(l) \o AsColumns(r))

TreeInit ==
    /\ trace = <<>> /\ phase = "idle" /\ level = <<>> /\ root = NoRoot
    /\ path = NoPath /\ idx = 0 /\ revealed = NotRevealed

(* A row wider than its buffer is a panic.                                  *)
CommitTrace ==
    /\ phase = "idle" /\ root = NoRoot /\ revealed = NotRevealed
    /\ \E rows \in Traces :
          /\ trace' = rows
          /\ IF \E k \in DOMAIN rows : Len(rows[k]) > MAX_COLUMNS
             THEN phase' = "panic" /\ UNCHANGED level
             ELSE phase' = "root" /\ level' = [k \in DOMAIN rows |-> RowLeaf(rows[k])]
    /\ UNCHANGED <<root, path, idx, revealed>>

(* Mutant of NextLevel: the pairs overlap by one.                           *)
NextLevelOverlap(nodes) ==
    [k \in 1..(Len(nodes) \div 2) |-> ShaPair(nodes[k], nodes[k + 1])]

(* Nodes 2k - 1 and 2k hash to node k of the next level.                    *)
NextLevel(nodes) ==
    [k \in 1..(Len(nodes) \div 2) |-> ShaPair(nodes[2 * k - 1], nodes[2 * k])]

(* A level of odd length reads past its end, and so does the root of none.  *)
RootLevel ==
    /\ phase = "root"
    /\ CASE Len(level) = 1 -> /\ root' = level[1] /\ level' = <<>> /\ phase' = "idle"
         [] Len(level) > 1 /\ Len(level) % 2 = 0 ->
              level' = NextLevel(level) /\ UNCHANGED <<root, phase>>
         [] OTHER -> phase' = "panic" /\ UNCHANGED <<root, level>>
    /\ UNCHANGED <<trace, path, idx, revealed>>

Open ==
    /\ phase = "idle" /\ root # NoRoot /\ path = NoPath
    /\ \E i \in RowIndices :
          /\ path' = [NoPath EXCEPT !.index = i] /\ idx' = i
          /\ level' = [k \in DOMAIN trace |-> RowLeaf(trace[k])]
    /\ phase' = "open"
    /\ UNCHANGED <<trace, root, revealed>>

Sibling(i) == IF i % 2 = 0 THEN i + 1 ELSE i - 1

(* The sibling is read before the level is hashed.                          *)
OpenLevel ==
    /\ phase = "open"
    /\ IF Len(level) <= 1 THEN
            phase' = "opened" /\ level' = <<>> /\ UNCHANGED <<path, idx>>
       ELSE IF Sibling(idx) >= Len(level) \/ path.depth = MAX_DEPTH \/ Len(level) % 2 = 1 THEN
            phase' = "panic" /\ UNCHANGED <<level, path, idx>>
       ELSE /\ path' = [path EXCEPT !.siblings = Append(@, level[Sibling(idx) + 1]),
                                    !.depth = @ + 1]
            /\ idx' = idx \div 2
            /\ level' = NextLevel(level)
            /\ UNCHANGED phase
    /\ UNCHANGED <<trace, root, revealed>>

(* The bits of the index say on which side the siblings are.                *)
ComputeRoot(p, leaf) ==
    LET cur[i \in 0..p.depth] ==
          IF i = 0 THEN leaf
          ELSE IF (p.index \div Pow2[i - 1]) % 2 = 0
               THEN ShaPair(cur[i - 1], p.siblings[i]) ELSE ShaPair(p.siblings[i], cur[i - 1])
    IN  cur[p.depth]

VerifyPath(p, leaf, r) == ComputeRoot(p, leaf) = r

(* A boundary constraint is about the cell at its column of a revealed row. *)
VerifyBoundary(constraint, cell) == cell = constraint.value
VerifyBoundaryConstraints(checks) ==
    IF \E k \in DOMAIN checks : ~VerifyBoundary(checks[k].constraint, checks[k].cell)
    THEN "BoundaryConstraintFailed" ELSE "ok"

(* A path with another index, another sibling or cut at a level, and a row  *)
(* with a constraint on its first cell.                                     *)
Reveal ==
    /\ phase = "opened" /\ revealed = NotRevealed
    /\ \E row \in RevealedRows, i \in PathIndices, d \in 0..path.depth :
       \E sib \in BadSiblings \cup {path.siblings} :
       \E value \in {other[1] : other \in RevealedRows} :
          LET p == [siblings |-> SubSeq(sib, 1, d), depth |-> d, index |-> i]
              check == [constraint |-> [step |-> i, column |-> 0, value |-> value],
                        cell |-> row[1]]
          IN  /\ Len(sib) >= d
              /\ revealed' = [call |-> "row", row |-> row, path |-> p, value |-> value,
                              ok |-> /\ VerifyPath(p, RowLeaf(row), root)
                                     /\ VerifyBoundaryConstraints(<<check>>) = "ok"]
    /\ UNCHANGED <<trace, phase, level, root, path, idx>>

(* AetConfig::new, with the number of rows of the trace.                    *)
NewAet ==
    /\ phase = "idle" /\ root = NoRoot /\ revealed = NotRevealed
    /\ \E s \in AetSizes :
          revealed' = [call |-> "aet", size |-> s,
                       ok |-> ~(s[1] = 0 \/ s[1] > MAX_DEPTH \/ s[2] = 0)]
    /\ UNCHANGED <<trace, phase, level, root, path, idx>>

TreeForget ==
    /\ phase = "panic" \/ root # NoRoot \/ revealed # NotRevealed
    /\ trace' = <<>> /\ phase' = "idle" /\ level' = <<>> /\ root' = NoRoot
    /\ path' = NoPath /\ idx' = 0 /\ revealed' = NotRevealed

TreeNext ==
    CommitTrace \/ RootLevel \/ Open \/ OpenLevel \/ Reveal \/ NewAet \/ TreeForget

TreeSpec == TreeInit /\ [][TreeNext]_treeVars

-----------------------------------------------------------------------------
PowersOfTwo == {Pow2[d] : d \in 0..MAX_DEPTH}

(* The tree over the trace: node k of level d, counted from zero, is over   *)
(* the rows from k * 2^d.                                                   *)
NodeOf(rows) ==
    LET node[d \in 0..MAX_DEPTH] ==
          [k \in Nat |-> IF d = 0 THEN RowLeaf(rows[k + 1])
                         ELSE ShaPair(node[d - 1][2 * k], node[d - 1][2 * k + 1])]
    IN  node
Node == NodeOf(trace)

(* The columns that are hashed to node k of the level above these.          *)
Spelled(nodes, k) == AsColumns(nodes[2 * k]) \o AsColumns(nodes[2 * k + 1])

(* A trace gets a root exactly when it has a power of two of rows that fit. *)
(* What then opens authenticates the row it opened.  A revealed row that    *)
(* verifies with the whole path is the committed row whose place the index  *)
(* names in its lowest bits, higher ones not being looked at, and its cell  *)
(* is the one that the constraint demands.  A path that is cut verifies at  *)
(* most the row that is spelled by the two digests below the node it names. *)
PathsAuthenticate ==
    /\ root # NoRoot => Len(trace) \in PowersOfTwo
    /\ phase = "panic" /\ root = NoRoot =>
         Len(trace) \notin PowersOfTwo \/ \E k \in DOMAIN trace : Len(trace[k]) > MAX_COLUMNS
    /\ phase = "panic" /\ root # NoRoot => path.index >= Len(trace)
    /\ phase = "opened" /\ path.index < Len(trace) =>
         /\ Pow2[path.depth] = Len(trace)
         /\ VerifyPath(path, RowLeaf(trace[path.index + 1]), root)
    /\ revealed.call = "row" /\ revealed.ok =>
         LET cut == path.depth - revealed.path.depth
             place == revealed.path.index % Pow2[revealed.path.depth]
         IN  /\ cut = 0 => revealed.row = trace[place + 1]
             /\ cut > 0 => revealed.row = Spelled(Node[cut - 1], place)
             /\ revealed.value = revealed.row[1]
    /\ revealed.call = "aet" /\ revealed.ok => Pow2[revealed.size[1]] \in PowersOfTwo \ {1}

-----------------------------------------------------------------------------
(* Why: where each phase stands in the tree.                                *)

IsLevel(d) ==
    /\ \A k \in 1..Len(level) : level[k] = Node[d][k - 1]
    /\ Len(level) \in Nat /\ Len(level) * Pow2[d] = Len(trace)

TreeType ==
    /\ trace \in Traces \cup {<<>>}
    /\ phase \in {"idle", "root", "open", "opened", "panic"}
    /\ path = [siblings |-> path.siblings, depth |-> path.depth, index |-> path.index]
    /\ path.depth \in 0..MAX_DEPTH /\ path.index \in Nat
    /\ path.siblings = [e \in 1..path.depth |-> path.siblings[e]]
    /\ root = NoRoot => path = NoPath
    /\ phase = "root" => root = NoRoot
    /\ phase \in {"open", "opened"} => root # NoRoot
    /\ revealed.call = "row" => phase = "opened"

Rooting == phase = "root" => \E d \in 0..MAX_DEPTH : IsLevel(d)
Rooted ==
    root # NoRoot => \E d \in 0..MAX_DEPTH : Len(trace) = Pow2[d] /\ root = Node[d][0]
Opening ==
    /\ phase = "open" => IsLevel(path.depth) /\ idx = path.index \div Pow2[path.depth]
    /\ phase \in {"open", "opened"} =>
         \A e \in 1..path.depth :
            path.siblings[e] = Node[e - 1][Sibling(path.index \div Pow2[e - 1])]
    /\ phase = "opened" => Pow2[path.depth] = Len(trace)

TreeInv == TreeType /\ Rooting /\ Rooted /\ Opening /\ PathsAuthenticate
=============================================================================
