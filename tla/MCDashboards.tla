---------------------------- MODULE MCDashboards ----------------------------
(* Questions about what is drawn of a sweep, and what must be true of it.  *)
EXTENDS MCComparisons, MCTriage, Dashboards

DashRun(ran, right, rejections) ==
    [ran |-> ran, termination |-> IF rejections > 1 THEN "max_attempts" ELSE "success",
     rejections |-> rejections, correct |-> ran /\ right]

FewRuns == {<<>>, <<DashRun(FALSE, FALSE, 0)>>, <<DashRun(TRUE, TRUE, 0), DashRun(TRUE, FALSE, 1)>>}

\* Enough runs for a claim, all of them right, wrong or sent back, and one that failed.
ManyRuns == {[i \in 1..7 |-> DashRun(i < 7, right, IF right THEN 0 ELSE 2)] : right \in BOOLEAN}

DashCell(slot, reference, complete, kept, runs) ==
    slot @@ [reference |-> reference, complete |-> complete, kept |-> kept, runs |-> runs,
             correct |-> IF kept THEN [i \in {i \in DOMAIN runs : runs[i].ran} |-> runs[i].correct]
                         ELSE <<>>]

LiveCells(slot) ==
    {DashCell(slot, FALSE, TRUE, TRUE, r) : r \in FewRuns \cup ManyRuns}
    \cup {DashCell(slot, FALSE, FALSE, TRUE, r) : r \in FewRuns}
StoredCells(slot) == {DashCell(slot, TRUE, TRUE, kept, r) : kept \in BOOLEAN, r \in ManyRuns}

\* At most two live cells and a stored one, of two slots that may be compared with each other.
AskScreens ==
    /\ asked = Idle
    /\ \E mode \in {"hide", "fill", "compare"}, r, s \in Slots :
       \E first \in LiveCells(r), second \in {<<>>} \cup {<<c>> : c \in LiveCells(s)},
          stored \in {<<>>} \cup {<<c>> : c \in StoredCells(s)} :
           /\ r # s /\ r.role = "worker"
           /\ r.level = s.level \/ (r.role = s.role /\ r.mode = s.mode)
           /\ stored = <<>> <=> mode = "hide"
           /\ Ask("screens", [mode |-> mode, live |-> <<first>> \o second, stored |-> stored])

Seen == Beside(asked.live, asked.stored, asked.mode)
Compared == SetToSeq(AllComparisons(Seen))

-----------------------------------------------------------------------------

\* charts.py, "One row per compared pair ... nothing untestable gets a bar": every comparison
\* has its row in the chart and its lines on the terminal; what the terminal claims has a bar,
\* to the side of the arm it calls worse; what it refuses has none, and is counted.
DeltaDrawsWhatTheTerminalSays ==
    asked.topic = "screens" =>
        LET comparisons == Compared
            chart == WriteCharts(Seen, comparisons).delta
            said == Terminal(Seen, comparisons)
            n == Len(comparisons)
        IN  /\ Len(chart.rows) = Max({n, 1}) /\ Len(said.readings) = n
            /\ said.testable + said.untestable = n /\ chart.uncounted = said.untestable
            /\ \A i \in 1..n :
                   LET row == chart.rows[i]
                       says == said.readings[i].reading.says
                   IN  /\ row.between = said.readings[i].between
                       /\ says = "worse" => row.testable /\ row.value # 0
                       /\ row.testable => says \in {"worse", "not distinguishable"} /\ row.note = "p-value"
                       /\ says = "refused" => ~row.testable /\ row.note = "no p-value" /\ chart.refusal
                       /\ says = "worse" /\ row.between[1] # row.between[2] =>
                              said.readings[i].reading.worse =
                                  (IF row.value > 0 THEN row.between[2] ELSE row.between[1])

\* charts.py, "an empty row and a measured zero must not look alike": the chart and the view
\* show the same cells with the same rates, a stored one is never drawn as a live one, and a
\* rate is drawn only of a cell in which something ran.
BarsAndRowsAreTheSameCells ==
    asked.topic = "screens" =>
        LET bars == WriteCharts(Seen, <<>>).dial
            rows == Dial(asked.live, asked.stored, asked.mode).rows
            drawn(b) == [slot |-> b.slot, shows |-> [reference |-> b.reference, rate |-> b.value]]
        IN  /\ Len(bars) = Len(Seen) /\ {drawn(b) : b \in ToSet(bars)} = ToSet(rows)
            /\ \A b \in ToSet(bars) :
                   /\ BarStyle(b) = "outline" <=>
                          \A c \in ToSet(Seen) :
                              Slot(c) = b.slot /\ c.reference = b.reference => RateOf(c) = <<>>
                   /\ BarStyle(b) \in {"solid", "faint"} =>
                          \E c \in ToSet(asked.live) : Slot(c) = b.slot /\ (c.complete <=> BarStyle(b) = "solid")

\* views/dial.py, "it must never fill the gap with a conclusion nothing on screen supports":
\* in the view's own mode, a row of the secondary has a reading exactly when both of the
\* cells it badges are there and finished; it never has a p-value.
SecondaryReadsTheBadgedCells ==
    asked.topic = "screens" /\ asked.mode # "compare" =>
        \A level \in {"L0", "L3"} :
            LET row == Dial(asked.live, asked.stored, asked.mode).secondary[level]
                there(slot) == {c \in ToSet(Seen) : Slot(c) = slot}
            IN  /\ row.reading \subseteq {[says |-> "refused"]}
                /\ Cardinality(there(Loops(level))) <= 1 /\ Cardinality(there(OneShots(level))) <= 1
                /\ row.reading # {} <=>
                       /\ \E c \in there(Loops(level)) : c.complete /\ row.worker = <<Badged(c)>>
                       /\ \E c \in there(OneShots(level)) : c.complete /\ row.frontier = <<Badged(c)>>

\* charts.py, "the count dropped is reported": every threshold of the curve is a dot or is
\* counted, a dot has a precision, and the dots climb in coverage as the threshold falls; the
\* curve is that of a finished live loop, and absent only where there is none.
CurveIsOfAFinishedLiveLoop ==
    asked.topic = "screens" =>
        LET points == AbstentionPoints(Seen)
            chart == AbstentionChart(points)
            loops == {c \in ToSet(asked.live) : c.complete /\ c.mode = "loop" /\ c.runs # <<>>}
        IN  /\ points = <<>> <=> loops = {}
            /\ Len(chart.dots) + chart.dropped = Len(points)
            /\ points # <<>> => \E c \in loops : points = Curve(c.runs)
            /\ \A c \in loops : Slot(c) = Loops("L0") => points = Curve(c.runs)
            /\ \A i, j \in DOMAIN chart.dots :
                   i < j => chart.dots[i].answered <= chart.dots[j].answered
            /\ \A i, j \in DOMAIN points :
                   points[i].threshold < points[j].threshold => points[i].answered >= points[j].answered

\* The counts under the view: it has landed what ran in the finished cells, and no more.
DialCountsFinishedCells ==
    asked.topic = "screens" =>
        LET dial == Dial(asked.live, asked.stored, asked.mode)
            done == {i \in DOMAIN Seen : Seen[i].complete}
        IN  /\ dial.done = Cardinality(done) /\ dial.of = Len(dial.rows)
            /\ dial.landed = MapThenSumSet(LAMBDA i : Len(SelectSeq(Seen[i].runs, LAMBDA r : r.ran)), done)

\* What a comparison claims is what its pairs support, wherever it is shown.
ClaimsFollowFromThePairs ==
    /\ MinimumIsSharp /\ ModelsAreComparedWithoutAPValue /\ DeltaIsTheGapOverSharedItems
    /\ DeltaDrawsWhatTheTerminalSays /\ SecondaryReadsTheBadgedCells

\* What is drawn of a sweep is its cells, in whatever order their files were read.
OrderOfFilesDoesNotShow ==
    /\ ComparisonsDependOnTheCellsOnly /\ StoredCellsAreDrawnUnderTheirTwins
    /\ BarsAndRowsAreTheSameCells /\ CurveIsOfAFinishedLiveLoop /\ DialCountsFinishedCells

=============================================================================
