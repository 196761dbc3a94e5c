----------------------------- MODULE Dashboards -----------------------------
(***************************************************************************)
(* What is drawn of a sweep's cells: the charts (sweep/chart_model.py,     *)
(* sweep/charts.py, sweep/render.py) and the DIAL view (views/dial.py).    *)
(*                                                                         *)
(* A cell is one of Comparisons with its runs, as Triage has them; what it *)
(* keeps of them for a paired test is in correct.                          *)
(***************************************************************************)
EXTENDS Comparisons, Triage

ItemsRan(c) == {i \in DOMAIN c.runs : c.runs[i].ran}

\* rate_value and rate_n: nothing ran, no rate.
RateOf(c) ==
    IF ItemsRan(c) = {} THEN <<>>
    ELSE <<Cardinality({i \in ItemsRan(c) : ~c.runs[i].correct}), Cardinality(ItemsRan(c))>>

\* load_reference, beside the live cells: all that is stored, or what fills a gap.
Beside(live, stored, mode) ==
    LET taken == {Slot(c) : c \in ToSet(live)}
    IN  CASE mode = "hide" -> live
          [] mode = "fill" -> live \o SelectSeq(stored, LAMBDA c : Slot(c) \notin taken)
          [] OTHER -> live \o stored

-----------------------------------------------------------------------------
(* The charts.                                                             *)

\* bar_rows; money spent on nothing is not measured.
BarRows(cells, metric) ==
    LET row(c) == [slot |-> Slot(c), pending |-> ~c.complete, reference |-> c.reference,
                   value |-> IF metric = "rate" THEN RateOf(c)
                             ELSE IF c.runs = <<>> THEN <<>> ELSE <<Len(c.runs)>>]
    IN  [i \in DOMAIN cells |-> row(OrderedCells(cells)[i])]

\* _bar_figure: how the bar of a row is drawn.
BarStyle(row) ==
    CASE row.value = <<>> -> "outline"
      [] row.value # <<>> /\ row.reference -> "hatched"
      [] OTHER -> IF row.pending THEN "faint" ELSE "solid"

Partition(comparisons) ==
    [testable |-> SelectSeq(comparisons, LAMBDA c : Pairs(c.table) > 0),
     untestable |-> SelectSeq(comparisons, LAMBDA c : Pairs(c.table) = 0)]

\* _delta_row: its note is about the same cases as the reading, its bar about the pairs alone.
DeltaRow(c) ==
    [between |-> <<Slot(c.a), Slot(c.b)>>, value |-> Delta(c),
     testable |-> ~CrossModel(c) /\ Discordant(c.table) >= MinDiscordant,
     note |-> CASE CrossModel(c) -> "no p-value"
                [] ~CrossModel(c) /\ Pairs(c.table) = 0 -> "cannot be paired"
                [] ~CrossModel(c) /\ Pairs(c.table) > 0 /\ Discordant(c.table) < MinDiscordant ->
                      "not distinguishable"
                [] OTHER -> "p-value"]

\* Where a row without a reading stands for a chart without rows.
EmptyRow == [between |-> <<>>, value |-> 0, testable |-> FALSE, note |-> "not yet measured"]

DeltaChart(comparisons) ==
    LET parts == Partition(comparisons)
        rows == [i \in DOMAIN comparisons |-> DeltaRow((parts.testable \o parts.untestable)[i])]
    IN  [rows |-> IF rows = <<>> THEN <<EmptyRow>> ELSE rows,
         uncounted |-> Len(parts.untestable),
         refusal |-> \E i \in DOMAIN comparisons : CrossModel(comparisons[i])]

\* curve_cell, over cells whose items are on disk: the preferred one, or the first longest.
CurveCell(cells) ==
    LET fit == SelectSeq(cells, LAMBDA c : c.complete /\ ~c.reference /\ c.mode = "loop" /\ c.runs # <<>>)
        preferred == SelectSeq(fit, LAMBDA c : c.role = "worker" /\ c.level = "L0" /\ c.replicate = 0)
        longest == SelectSeq(fit, LAMBDA c : \A i \in DOMAIN fit : Len(fit[i].runs) <= Len(c.runs))
    IN  SubSeq(preferred \o longest, 1, Min({1, Len(fit)}))

AbstentionPoints(cells) == FlattenSeq([i \in DOMAIN CurveCell(cells) |-> Curve(CurveCell(cells)[i].runs)])

\* abstention_chart: the points by coverage; one that answered nothing is counted, not drawn.
AbstentionChart(points) ==
    LET usable == SelectSeq(points, LAMBDA p : p.total > 0 /\ p.answered > 0)
    IN  [dots |-> SortSeq(usable, LAMBDA p, q : p.answered < q.answered),
         dropped |-> Len(points) - Len(usable)]

WriteCharts(cells, comparisons) ==
    [dial |-> BarRows(cells, "rate"), cost |-> BarRows(cells, "cost"),
     delta |-> DeltaChart(comparisons), abstention |-> AbstentionChart(AbstentionPoints(cells))]

\* render.summarise: what the terminal says of the same cells and comparisons.
Terminal(cells, comparisons) ==
    LET parts == Partition(comparisons)
        all == parts.testable \o parts.untestable
    IN  [done |-> Len(Finished(cells)), of |-> Len(cells),
         testable |-> Len(parts.testable), untestable |-> Len(parts.untestable),
         readings |-> [i \in DOMAIN all |-> [between |-> <<Slot(all[i].a), Slot(all[i].b)>>,
                                             reading |-> Reading(all[i])]]]

-----------------------------------------------------------------------------
(* DIAL                                                                    *)

\* live_or_reference_badge, with the rate.
Badged(c) == [reference |-> c.reference, rate |-> RateOf(c)]

\* _rows: the live cells, then the stored ones.
DialRows(cells) ==
    LET of(stored) == OrderedCells(SelectSeq(cells, LAMBDA c : c.reference = stored))
        all == of(FALSE) \o of(TRUE)
    IN  [i \in DOMAIN all |-> [slot |-> Slot(all[i]), shows |-> Badged(all[i])]]

Loops(level) == [role |-> "worker", level |-> level, mode |-> "loop", replicate |-> 0]
OneShots(level) == [role |-> "frontier", level |-> level, mode |-> "one_shot", replicate |-> 0]

\* by_key: the last cell of a slot.
At(cells, slot) == LET here == SelectSeq(cells, LAMBDA c : Slot(c) = slot)
                   IN  IF here = <<>> THEN <<>> ELSE <<Last(here)>>

\* _comparison, at one level: both sides' badges, and the reading when there is one.
SecondaryRow(cells, level) ==
    LET worker == At(cells, Loops(level))
        frontier == At(cells, OneShots(level))
        derived == {c \in NamedSecondaryDeltas(cells) : Slot(c.a) = Loops(level)}
    IN  [worker |-> [i \in DOMAIN worker |-> Badged(worker[i])],
         frontier |-> [i \in DOMAIN frontier |-> Badged(frontier[i])],
         reading |-> {Reading(c) : c \in derived}]

\* _refresh
Dial(live, stored, mode) ==
    LET cells == Beside(live, stored, mode)
        done == Finished(cells)
    IN  [rows |-> DialRows(cells), secondary |-> [l \in {"L0", "L3"} |-> SecondaryRow(cells, l)],
         landed |-> FoldLeft(LAMBDA n, c : n + Cardinality(ItemsRan(c)), 0, done),
         done |-> Len(done), of |-> Len(cells)]

=============================================================================
