--------------------------------- MODULE Lut ---------------------------------
(***************************************************************************)
(* Lookup tables (soroban-zk-std/src/gadgets/lut.rs): building a table,    *)
(* sorting it by insertion one exchange at a time, and looking inputs up,  *)
(* by a scan or, once sorted, by a binary search one probe at a time.      *)
(***************************************************************************)
EXTENDS Integers, Sequences, SequencesExt

CONSTANTS
    Words,    \* what a column may hold, from 0
    Widths,   \* numbers of input columns
    MaxRows   \* rows of a table a caller gives

ASSUME LutAssumption == Words \subseteq Nat /\ Widths \subseteq Nat /\ MaxRows \in Nat

VARIABLES
    lut,     \* the table: width, rows, and whether it is sorted
    given,   \* the rows it was built from
    at,      \* "none", "idle", "sort" or "search"
    i, j,    \* sort: the row that is inserted and where it is
    lo, hi,  \* lookup_sorted
    query,   \* the inputs looked up, and the claimed output
    answer   \* of the last call

lutVars == <<lut, given, at, i, j, lo, hi, query, answer>>

NoAnswer == [status |-> "none", out |-> 0]
NoLut == [width |-> 0, table |-> <<>>, sorted |-> FALSE]
Rows(width) == [1..(width + 1) -> Words]

LutInit ==
    /\ lut = NoLut /\ given = <<>> /\ at = "none"
    /\ i = 0 /\ j = 0 /\ lo = 0 /\ hi = 0
    /\ query = <<>> /\ answer = NoAnswer

-----------------------------------------------------------------------------
(* Building a table.                                                        *)

New(width, rows) ==
    /\ at = "none" /\ answer = NoAnswer
    /\ IF width = 0 \/ \E k \in DOMAIN rows : Len(rows[k]) # width + 1
       THEN /\ answer' = [status |-> "InvalidInput", out |-> 0]
            /\ UNCHANGED <<lut, given, at>>
       ELSE /\ lut' = [width |-> width, table |-> rows, sorted |-> FALSE]
            /\ given' = rows /\ at' = "idle"
            /\ UNCHANGED answer
    /\ UNCHANGED <<i, j, lo, hi, query>>

RangeLut(max) == New(1, [k \in 1..(max + 1) |-> <<k - 1, 1>>])

TruthTable(op) ==
    CASE op = "and" -> <<<<0, 0, 0>>, <<0, 1, 0>>, <<1, 0, 0>>, <<1, 1, 1>>>>
      [] op = "or" -> <<<<0, 0, 0>>, <<0, 1, 1>>, <<1, 0, 1>>, <<1, 1, 1>>>>
      [] op = "xor" -> <<<<0, 0, 0>>, <<0, 1, 1>>, <<1, 0, 1>>, <<1, 1, 0>>>>

BinaryGateLut(op) == New(2, TruthTable(op))

-----------------------------------------------------------------------------
(* Sorting.  Rows are compared by all their columns, the output included.   *)

RowLt(a, b) ==
    \E k \in DOMAIN a : a[k] < b[k] /\ \A l \in 1..(k - 1) : a[l] = b[l]

Sort ==
    /\ at = "idle" /\ answer = NoAnswer
    /\ at' = "sort" /\ i' = 1 /\ j' = 1
    /\ UNCHANGED <<lut, given, lo, hi, query, answer>>

(* Row j is exchanged with the one before while it is smaller; rows are     *)
(* counted from zero, as in the code.                                      *)
Exchange ==
    /\ at = "sort" /\ i < Len(lut.table)
    /\ j > 0 /\ RowLt(lut.table[j + 1], lut.table[j])
    /\ lut' = [lut EXCEPT !.table =
                 [@ EXCEPT ![j] = lut.table[j + 1], ![j + 1] = lut.table[j]]]
    /\ j' = j - 1
    /\ UNCHANGED <<given, at, i, lo, hi, query, answer>>

(* Mutant of NextRow: a row is compared with the one before it only.        *)
NextRowEarly ==
    /\ at = "sort" /\ i < Len(lut.table)
    /\ j = i => ~RowLt(lut.table[j + 1], lut.table[j])
    /\ i' = i + 1 /\ j' = i + 1
    /\ UNCHANGED <<lut, given, at, lo, hi, query, answer>>

NextRow ==
    /\ at = "sort" /\ i < Len(lut.table)
    /\ j > 0 => ~RowLt(lut.table[j + 1], lut.table[j])
    /\ i' = i + 1 /\ j' = i + 1
    /\ UNCHANGED <<lut, given, at, lo, hi, query, answer>>

Sorted ==
    /\ at = "sort" /\ i >= Len(lut.table)
    /\ lut' = [lut EXCEPT !.sorted = TRUE]
    /\ at' = "idle"
    /\ UNCHANGED <<given, i, j, lo, hi, query, answer>>

-----------------------------------------------------------------------------
(* Looking up.                                                              *)

InputEq(row, inputs) == \A k \in DOMAIN inputs : row[k] = inputs[k]
InputLess(row, inputs) ==
    \E k \in DOMAIN inputs : row[k] < inputs[k] /\ \A l \in 1..(k - 1) : row[l] = inputs[l]

Found(row) == [status |-> "ok", out |-> row[lut.width + 1]]
Refuse(why) == [status |-> why, out |-> 0]

(* assert_lookup is a lookup whose output is compared with the claim.       *)
Against(claim, result) ==
    IF claim.asserted /\ result.status = "ok" /\ result.out # claim.out
    THEN Refuse("ConstraintUnsatisfied") ELSE result

Scan(inputs) ==
    LET hits == {k \in DOMAIN lut.table : InputEq(lut.table[k], inputs)}
    IN  IF hits = {} THEN Refuse("ConstraintUnsatisfied")
        ELSE Found(lut.table[Min(hits)])

Lookup(inputs, claim) ==
    /\ at = "idle" /\ answer = NoAnswer
    /\ query' = [inputs |-> inputs, claim |-> claim]
    /\ IF lut.sorted /\ Len(inputs) = lut.width
       THEN at' = "search" /\ lo' = 0 /\ hi' = Len(lut.table) /\ UNCHANGED answer
       ELSE /\ answer' = IF Len(inputs) # lut.width THEN Refuse("InvalidInput")
                         ELSE Against(claim, Scan(inputs))
            /\ UNCHANGED <<at, lo, hi>>
    /\ UNCHANGED <<lut, given, i, j>>

Mid == lo + (hi - lo) \div 2

Probe ==
    /\ at = "search" /\ lo < hi
    /\ LET row == lut.table[Mid + 1] IN
       IF InputEq(row, query.inputs)
       THEN at' = "idle" /\ answer' = Against(query.claim, Found(row)) /\ UNCHANGED <<lo, hi>>
       ELSE /\ IF InputLess(row, query.inputs) THEN lo' = Mid + 1 /\ hi' = hi
                                               ELSE hi' = Mid /\ lo' = lo
            /\ UNCHANGED <<at, answer>>
    /\ UNCHANGED <<lut, given, i, j, query>>

NotFound ==
    /\ at = "search" /\ lo >= hi
    /\ at' = "idle" /\ answer' = Refuse("ConstraintUnsatisfied")
    /\ UNCHANGED <<lut, given, i, j, lo, hi, query>>

(* The caller takes the answer, or drops the table.                         *)
TakeAnswer ==
    /\ answer # NoAnswer
    /\ answer' = NoAnswer /\ query' = <<>> /\ lo' = 0 /\ hi' = 0
    /\ UNCHANGED <<lut, given, at, i, j>>

Drop ==
    /\ at = "idle" /\ answer = NoAnswer
    /\ lut' = NoLut /\ given' = <<>> /\ at' = "none" /\ i' = 0 /\ j' = 0
    /\ lo' = 0 /\ hi' = 0
    /\ UNCHANGED <<query, answer>>

Claims == {[asserted |-> FALSE, out |-> 0]} \cup [asserted : {TRUE}, out : Words]

LutNext ==
    \/ \E w \in Widths, cols \in Widths : \E rows \in BoundedSeq(Rows(cols), MaxRows) : New(w, rows)
    \/ \E max \in Words : RangeLut(max)
    \/ \E op \in {"and", "or", "xor"} : BinaryGateLut(op)
    \/ Sort \/ Exchange \/ NextRow \/ Sorted
    \/ \E n \in Widths : \E inputs \in [1..n -> Words], claim \in Claims : Lookup(inputs, claim)
    \/ Probe \/ NotFound \/ TakeAnswer \/ Drop

LutSpec == LutInit /\ [][LutNext]_lutVars

-----------------------------------------------------------------------------

Occurrences(s, row) == {k \in DOMAIN s : s[k] = row}
SameRows ==
    \A row \in Range(lut.table) \cup Range(given) :
       Cardinality(Occurrences(lut.table, row)) = Cardinality(Occurrences(given, row))

(* The first rows are in order, one of them aside.                          *)
InOrder(top, skipped) ==
    \A k, l \in 1..Len(lut.table) :
       k < l /\ l <= top /\ skipped \notin {k, l} => ~RowLt(lut.table[l], lut.table[k])

(* What the rows given say of the last answer.                              *)
Hits == {k \in DOMAIN given : InputEq(given[k], query.inputs)}
Outs == {given[k][lut.width + 1] : k \in Hits}
AnswersAreRight ==
    answer # NoAnswer /\ at = "idle" =>
      CASE Len(query.inputs) # lut.width -> answer.status = "InvalidInput"
        [] Len(query.inputs) = lut.width /\ query.claim.asserted ->
             /\ answer.status = "ok" => query.claim.out \in Outs
             /\ Outs = {query.claim.out} => answer.status = "ok"
        [] OTHER ->
             /\ (answer.status = "ok") <=> (Hits # {})
             /\ Hits # {} => answer.out \in Outs
             /\ Hits # {} /\ ~lut.sorted => answer.out = given[Min(Hits)][lut.width + 1]

(* Sorting neither loses nor makes a row; while it runs the rows before the *)
(* one that moves are in order, and so is a table that says it is sorted.   *)
(* A lookup answers with the output of a given row whenever one has its     *)
(* inputs, and refuses otherwise, sorted or not; of several such rows the   *)
(* first answers before sorting.  A false claim is refused, and a true one  *)
(* accepted when no other row has these inputs.                            *)
LookupIsFaithful ==
    /\ SameRows
    /\ at = "sort" => InOrder(i + 1, j + 1)
    /\ lut.sorted => at = "sort" \/ InOrder(Len(lut.table), 0)
    /\ AnswersAreRight

-----------------------------------------------------------------------------
(* Why: the invariant that a step of sort or of lookup_sorted keeps.        *)

Wide(width) == [1..(width + 1) -> Nat]
TableType ==
    /\ lut \in [width : Nat, table : Seq(Wide(lut.width)), sorted : BOOLEAN]
    /\ given \in Seq(Wide(lut.width))

ControlType ==
    /\ at \in {"none", "idle", "sort", "search"}
    /\ i \in Nat /\ j \in Nat /\ lo \in Nat /\ hi \in Nat
    /\ answer \in [status : {"none", "ok", "InvalidInput", "ConstraintUnsatisfied"}, out : Nat]
    /\ answer.status = "none" => answer = NoAnswer
    /\ at \in {"sort", "search"} => answer = NoAnswer
    /\ at = "none" => given = <<>> /\ ~lut.sorted
    /\ at = "search" \/ (at = "idle" /\ answer # NoAnswer) =>
          query \in [inputs : Seq(Nat), claim : [asserted : BOOLEAN, out : Nat]]

(* The row that moves is smaller than those it was exchanged with.          *)
Sorting ==
    at = "sort" =>
      /\ 1 <= i /\ j <= i /\ (i > 1 => i <= Len(lut.table))
      /\ i >= Len(lut.table) => j = i
      /\ InOrder(i + 1, j + 1)
      /\ \A l \in (j + 2)..(i + 1) : l <= Len(lut.table) => ~RowLt(lut.table[l], lut.table[j + 1])

Ordered ==
    at # "sort" => IF lut.sorted THEN InOrder(Len(lut.table), 0) ELSE lut.table = given

(* The rows below lo are too small and those from hi on too large.          *)
Searching ==
    at = "search" =>
      /\ lut.sorted /\ Len(query.inputs) = lut.width
      /\ lo <= hi /\ hi <= Len(lut.table)
      /\ \A k \in 1..lo : InputLess(lut.table[k], query.inputs)
      /\ \A k \in (hi + 1)..Len(lut.table) :
            ~InputLess(lut.table[k], query.inputs) /\ ~InputEq(lut.table[k], query.inputs)

LutInv ==
    /\ TableType /\ ControlType /\ Sorting /\ Ordered /\ Searching
    /\ LookupIsFaithful
=============================================================================
