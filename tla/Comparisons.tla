----------------------------- MODULE Comparisons -----------------------------
(***************************************************************************)
(* Paired comparisons of cells (paired.py, sweep/diff.py), and the order   *)
(* in which cells are drawn (sweep/chart_model.py).                        *)
(*                                                                         *)
(* A cell is [role, level, mode, replicate, reference, complete, kept,     *)
(* correct]: kept says whether it retained per-item outcomes, and correct  *)
(* is a function from the items that ran.  Its label is its slot; a cell   *)
(* and its stored twin have the same one.                                  *)
(***************************************************************************)
EXTENDS Integers, FiniteSets, SequencesExt, Combinatorics

-----------------------------------------------------------------------------
(* paired.py                                                               *)

Table(both, onlyA, onlyB, neither) ==
    [both |-> both, onlyA |-> onlyA, onlyB |-> onlyB, neither |-> neither]

\* Mutant of Compare: an item one side has no answer for counts as wrong there.
Compare_Missing(a, b) ==
    LET right(f) == {i \in DOMAIN f : f[i]}
        items == DOMAIN a \cup DOMAIN b
    IN  Table(Cardinality(right(a) \cap right(b)), Cardinality(right(a) \ right(b)),
              Cardinality(right(b) \ right(a)), Cardinality(items \ (right(a) \cup right(b))))

\* compare: only items in both maps are paired.
Compare(a, b) ==
    LET shared == DOMAIN a \cap DOMAIN b
        count(x, y) == Cardinality({i \in shared : a[i] = x /\ b[i] = y})
    IN  Table(count(TRUE, TRUE), count(TRUE, FALSE), count(FALSE, TRUE), count(FALSE, FALSE))

Pairs(t) == t.both + t.onlyA + t.onlyB + t.neither
Discordant(t) == t.onlyA + t.onlyB

\* Exact McNemar below one in twenty: 2 * tail / 2^n < 1/20.  No p-value without discordance.
Significant(t) ==
    /\ Discordant(t) > 0
    /\ 40 * MapThenSumSet(LAMBDA k : choose(Discordant(t), k), 0..Min({t.onlyA, t.onlyB}))
           < 2 ^ Discordant(t)

\* render: which arm is worse, by its label, or that nothing can be said.
Render(t, labelA, labelB) ==
    LET better == IF t.onlyA > t.onlyB THEN labelA ELSE labelB
        worse == IF better = labelA THEN labelB ELSE labelA
    IN  IF Significant(t) THEN [says |-> "worse", worse |-> worse, better |-> better]
        ELSE [says |-> "not distinguishable"]

-----------------------------------------------------------------------------
(* sweep/diff.py                                                           *)

MinDiscordant == CHOOSE n \in 1..10 : 2 ^ n > 40 /\ \A m \in 1..(n - 1) : 2 ^ m <= 40

Slot(c) == [role |-> c.role, level |-> c.level, mode |-> c.mode, replicate |-> c.replicate]

Build(kind, a, b) == [kind |-> kind, a |-> a, b |-> b, table |-> Compare(a.correct, b.correct)]

CrossModel(c) == c.a.role # c.b.role
HasPValue(c) == ~CrossModel(c) /\ Discordant(c.table) > 0
Distinguishable(c) ==
    ~CrossModel(c) /\ Discordant(c.table) >= MinDiscordant /\ Significant(c.table)

\* delta_pp, times the pairs: the silent errors of B less those of A.
Delta(c) == c.table.onlyA - c.table.onlyB

Reading(c) ==
    CASE CrossModel(c) -> [says |-> "refused"]
      [] ~CrossModel(c) /\ Pairs(c.table) = 0 ->
            [says |-> IF c.a.kept /\ c.b.kept THEN "nothing shared" ELSE "not retained"]
      [] ~CrossModel(c) /\ Pairs(c.table) > 0 /\ Discordant(c.table) < MinDiscordant ->
            [says |-> "below the minimum"]
      [] OTHER -> Render(c.table, Slot(c.a), Slot(c.b))

Finished(cells) == SelectSeq(cells, LAMBDA c : c.complete)

\* Mutant of Index: the last cell of a slot wins it.
Index_Last(cells) ==
    [s \in {Slot(c) : c \in ToSet(cells)} |-> Last(SelectSeq(cells, LAMBDA c : Slot(c) = s))]

\* A later cell takes a slot from an earlier one only if it is live.
Index(cells) ==
    [s \in {Slot(c) : c \in ToSet(cells)} |->
        LET here == SelectSeq(cells, LAMBDA c : Slot(c) = s)
            live == SelectSeq(here, LAMBDA c : ~c.reference)
        IN  IF live = <<>> THEN here[1] ELSE Last(live)]

\* The pairs of cells in two slots that differ in one field, by kind.
Deltas(kind, cells, from(_), to(_)) ==
    LET at == Index(Finished(cells))
    IN  {Build(kind, at[s], at[to(s)]) : s \in {r \in DOMAIN at : from(r) /\ to(r) \in DOMAIN at}}

ModeDeltas(cells) ==
    Deltas("mode", cells, LAMBDA s : s.mode = "one_shot", LAMBDA s : [s EXCEPT !.mode = "loop"])

LevelDeltas(cells) ==
    Deltas("level", cells, LAMBDA s : s.level = "L0", LAMBDA s : [s EXCEPT !.level = "L3"])

\* The worker's loop against one shot of the frontier, in the first replicate.
NamedSecondaryDeltas(cells) ==
    Deltas("secondary", cells,
           LAMBDA s : s.role = "worker" /\ s.mode = "loop" /\ s.replicate = 0,
           LAMBDA s : [s EXCEPT !.role = "frontier", !.mode = "one_shot"])

LiveVsReference(cells) ==
    LET live == {c \in ToSet(Finished(cells)) : ~c.reference}
        stored == {c \in ToSet(cells) : c.reference}
    IN  {Build("live_vs_reference", p[1], p[2]) :
            p \in {q \in stored \X live : Slot(q[1]) = Slot(q[2])}}

AllComparisons(cells) ==
    LiveVsReference(cells) \cup ModeDeltas(cells) \cup LevelDeltas(cells)
        \cup NamedSecondaryDeltas(cells)

-----------------------------------------------------------------------------
(* sweep/chart_model.py                                                    *)

Rank(x) == CASE x \in {"frontier", "L0", "loop"} -> 0 [] OTHER -> 1

\* role, level, mode and replicate, and only then whether the cell is stored.
CellKey(c) ==
    <<Rank(c.role), Rank(c.level), Rank(c.mode), c.replicate, IF c.reference THEN 1 ELSE 0>>

OrderedCells(cells) ==
    SortSeq(cells, LAMBDA c, d :
        \E i \in 1..5 : /\ \A j \in 1..(i - 1) : CellKey(c)[j] = CellKey(d)[j]
                        /\ CellKey(c)[i] < CellKey(d)[i])

=============================================================================
