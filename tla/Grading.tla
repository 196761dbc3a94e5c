------------------------------- MODULE Grading -------------------------------
(***************************************************************************)
(* How an answer is graded: comparing two results (gold/compare.py),       *)
(* grouping the rules whose naive answers cannot be told apart             *)
(* (gold/build.py), and judging a run against a gold item                  *)
(* (agent/classify.py).                                                    *)
(*                                                                         *)
(* A value is a pair <<kind, n>>; only numbers of the same kind are        *)
(* compared by size, and Tolerance stands for REL_TOL and ABS_TOL.  NaN is *)
(* a number no comparison is true of, here a kind of its own.              *)
(***************************************************************************)
EXTENDS Integers, FiniteSets, SequencesExt, Lists, Groups

CONSTANT Tolerance

ASSUME GradingAssumption == Tolerance \in Nat

Null == <<0, 0>>
NaN == <<4, 0>>
IsNumber(v) == v[1] = 2
IsNothing(v) == v \in {Null, NaN}

-----------------------------------------------------------------------------
(* gold/compare.py                                                         *)

\* _sort_key: by kind first, then by exact value.
SortKey(v) == v

KeyLess(v, w) ==
    LET k == SortKey(v)  l == SortKey(w)
    IN  k[1] < l[1] \/ (k[1] = l[1] /\ k[2] < l[2])

RowLess(r, s) ==
    \E i \in 1..Len(s) :
        /\ \A j \in 1..(i - 1) : j <= Len(r) /\ SortKey(r[j]) = SortKey(s[j])
        /\ i > Len(r) \/ KeyLess(r[i], s[i])

ValuesEqual(v, w) ==
    /\ v[1] = w[1] /\ v # NaN
    /\ IF IsNumber(v) THEN v[2] - w[2] \in -Tolerance..Tolerance ELSE v = w

RowEqual(r, s) == Len(r) = Len(s) /\ \A i \in DOMAIN r : ValuesEqual(r[i], s[i])

InOrder(rows) == Sorted(rows, RowLess)

RowsEqual(expected, actual, ordered) ==
    LET left == IF ordered THEN expected ELSE InOrder(expected)
        right == IF ordered THEN actual ELSE InOrder(actual)
    IN  Len(left) = Len(right) /\ \A i \in DOMAIN left : RowEqual(left[i], right[i])

\* What rows_equal stands for: some pairing of the rows makes them equal.
SameMultiset(expected, actual) ==
    /\ Len(expected) = Len(actual)
    /\ \E f \in Bijection(DOMAIN expected, DOMAIN actual) :
           \A i \in DOMAIN expected : RowEqual(expected[i], actual[f[i]])

\* "Exact whenever the tolerance is small relative to the gaps between distinct values."
Separated(rows) ==
    \A i, j \in DOMAIN rows : \A c \in DOMAIN rows[i], d \in DOMAIN rows[j] :
        IsNumber(rows[i][c]) /\ IsNumber(rows[j][d]) /\ rows[i][c] # rows[j][d] =>
            rows[i][c][2] - rows[j][d][2] \notin -(2 * Tolerance)..(2 * Tolerance)

-----------------------------------------------------------------------------
(* gold/build.py.  An item's naive variants are a function from its rules  *)
(* to results; the rules are numbers, in the order of their names.         *)

\* The pairs that are alike, in the order the two loops over the sorted rules meet them.
AlikePairs(naive, ordered) ==
    LET pairs == {p \in (DOMAIN naive) \X (DOMAIN naive) :
                     p[1] < p[2] /\ RowsEqual(naive[p[1]], naive[p[2]], ordered)}
        earlier == {e \in pairs \X pairs :
                       e[1][1] < e[2][1] \/ (e[1][1] = e[2][1] /\ e[1][2] < e[2][2])}
    IN  Listed(pairs, earlier)

AmbiguousGroups(naive, gold, ordered) ==
    LET groups == ToSet(FoldLeft(Join, <<>>, AlikePairs(naive, ordered)))
        inert == {r \in DOMAIN naive : RowsEqual(naive[r], gold, ordered)}
    IN  groups \cup {{r} : r \in inert \ UNION groups}

Degenerate(rows) ==
    \A i \in DOMAIN rows : \A c \in DOMAIN rows[i] : rows[i][c] \in {Null, <<1, 0>>, <<2, 0>>}

\* _build_item refuses an item that says nothing, or that scores the same at L0 and L3.
Builds(gold, composite, ordered) ==
    ~Degenerate(gold) /\ ~RowsEqual(gold, composite, ordered)

-----------------------------------------------------------------------------
(* agent/classify.py                                                       *)

Column(rows, c) == [i \in DOMAIN rows |-> rows[i][c]]

ShapeMismatch(rows, gold) ==
    Len(rows[1]) # Len(gold[1]) \/ Len(rows) # Len(gold)

AllNull(rows) == \A i \in DOMAIN rows : \A c \in DOMAIN rows[i] : IsNothing(rows[i][c])

\* A column that float() takes, booleans included, and that never turns round.
Monotonic(values) ==
    /\ Len(values) >= 2 /\ \A i \in DOMAIN values : values[i][1] \in {1, 2}
    /\ \/ \A i \in 2..Len(values) : values[i - 1][2] >= values[i][2]
       \/ \A i \in 2..Len(values) : values[i - 1][2] <= values[i][2]

\* Mutant of TieBreakOnly: the ranking columns are not looked at.
TieBreakOnly_AnyOrder(rows, gold, ordered) == ordered /\ RowsEqual(rows, gold, FALSE)

\* Called with rows of gold's shape: the same rows, and every ranking column as in gold.
TieBreakOnly(rows, gold, ordered) ==
    /\ ordered /\ RowsEqual(rows, gold, FALSE)
    /\ \A c \in DOMAIN gold[1] :
           Monotonic(Column(gold, c)) =>
               \A i \in DOMAIN gold : ValuesEqual(gold[i][c], rows[i][c])

\* Mutant of Attribute: the groups an item recorded are not consulted.
Attribute_FirstMatch(rows, item) ==
    LET matched == {r \in DOMAIN item.naive : RowsEqual(rows, item.naive[r], item.ordered)}
    IN  IF matched = {} THEN {} ELSE {CHOOSE r \in matched : \A s \in matched : r <= s}

Widen(found, group) == IF found \cap group # {} THEN found \cup group ELSE found

\* Every group that a match so far touches is added, in the order recorded.
Attribute(rows, item) ==
    LET matched == {r \in DOMAIN item.naive : RowsEqual(rows, item.naive[r], item.ordered)}
        earlier == {e \in item.groups \X item.groups : Min(e[1]) < Min(e[2])}
    IN  FoldLeft(Widen, matched, Listed(item.groups, earlier))

\* A run is "none" without attempts, the kind of error of its last attempt, or its rows.
Judge(run, item) ==
    LET visible(kind) == [outcome |-> "visible_failure", kind |-> kind, rules |-> {}]
        judged(outcome, rules) == [outcome |-> outcome, kind |-> "none", rules |-> rules]
    IN  CASE run.rows = <<>> -> visible(run.ended)
          [] AllNull(run.rows) -> visible("null_result")
          [] ~AllNull(run.rows) /\ ShapeMismatch(run.rows, item.gold) -> visible("shape_mismatch")
          [] OTHER ->
                IF \/ RowsEqual(run.rows, item.gold, item.ordered)
                   \/ TieBreakOnly(run.rows, item.gold, item.ordered)
                THEN judged("correct", {})
                ELSE judged("silent_error", Attribute(run.rows, item))

=============================================================================
