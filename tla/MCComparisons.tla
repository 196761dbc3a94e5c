---------------------------- MODULE MCComparisons ----------------------------
(* Questions about comparisons, and what must be true of the answers.      *)
EXTENDS Questions, Comparisons

\* Any table of up to nine discordant pairs.
AskTable ==
    /\ asked = Idle
    /\ \E a, b \in 0..9, rest \in 0..1 :
           a + b <= 9 /\ Ask("table", [table |-> Table(rest, a, b, 0)])

Slots == [role : {"worker", "frontier"}, level : {"L0", "L3"}, mode : {"one_shot", "loop"},
          replicate : {0}]

CellOf(slot, reference, complete, kept, correct) ==
    slot @@ [reference |-> reference, complete |-> complete, kept |-> kept, correct |-> correct]

\* Two of the items, answered by both arms, by one, or by none; a stored cell is whole.
CellsOf(slot) ==
    {CellOf(slot, r, c, k, f) : r, c, k \in BOOLEAN,
        f \in {<<TRUE, FALSE>>, <<FALSE>>}}
    \cup {CellOf(slot, TRUE, TRUE, FALSE, <<>>)}

Usual(slot) == {c \in CellsOf(slot) : (c.reference => c.complete) /\ (c.correct # <<>> => c.kept)}

AskPair ==
    /\ asked = Idle
    /\ \E r, s \in Slots : \E a \in Usual(r), b \in Usual(s) :
           /\ r = s => a.reference # b.reference
           /\ Ask("cells", [cells |-> <<a, b>>])

\* A slot measured twice, live and stored, in either order, and another cell beside them.
AskTwins ==
    /\ asked = Idle
    /\ \E r, s \in Slots : \E a, b \in Usual(r), c \in Usual(s) :
           /\ r # s /\ r.role = "worker" /\ a.reference # b.reference
           /\ Ask("cells", [cells |-> <<a, b, c>>])

\* Two cells of six items that disagree about all of them.
AskSix ==
    /\ asked = Idle
    /\ \E r, s \in Slots : \E ra, rb, winner \in BOOLEAN :
           /\ r = s => ra # rb
           /\ Ask("cells", [cells |-> <<CellOf(r, ra, TRUE, TRUE, [i \in 1..6 |-> winner]),
                                        CellOf(s, rb, TRUE, TRUE, [i \in 1..6 |-> ~winner])>>])

-----------------------------------------------------------------------------

\* min_discordant_for_significance: "below the n returned here, no arrangement of the data
\* produces a significant result", and at that n one does.
MinimumIsSharp ==
    asked.topic = "table" =>
        LET t == asked.table
        IN  /\ Significant(t) => Discordant(t) >= MinDiscordant
            /\ Discordant(t) = MinDiscordant /\ 0 \in {t.onlyA, t.onlyB} => Significant(t)
            /\ Significant(t) <=> Significant(Table(t.both, t.onlyB, t.onlyA, t.neither))

\* The comparisons of a set of cells are the same in whatever order its files were read,
\* and never rest on a cell that is not finished or on a stored one where a live one is.
ComparisonsDependOnTheCellsOnly ==
    asked.topic = "cells" =>
        LET found == AllComparisons(asked.cells)
            cells == ToSet(asked.cells)
            superseded(c) == c.reference /\ \E d \in cells :
                                 ~d.reference /\ d.complete /\ Slot(d) = Slot(c)
        IN  /\ found = AllComparisons(Reverse(asked.cells))
            /\ \A c \in found :
                   /\ c.a.complete /\ c.b.complete
                   /\ superseded(c.a) => c.kind = "live_vs_reference"
                   /\ ~superseded(c.b)

\* diff.py, CROSS_MODEL_REFUSAL: two models are compared by the named secondary alone, and
\* what a comparison says is significant has a p-value to say it with.
ModelsAreComparedWithoutAPValue ==
    asked.topic = "cells" =>
        \A c \in AllComparisons(asked.cells) :
            /\ CrossModel(c) <=> c.kind = "secondary"
            /\ CrossModel(c) => Reading(c).says = "refused" /\ ~HasPValue(c)
            /\ Reading(c).says = "worse" <=> Distinguishable(c)

\* DELTA_CAPTION: the difference is that of the silent errors over the items both arms
\* answered, and so the gap between the bars where they answered the same ones.
DeltaIsTheGapOverSharedItems ==
    asked.topic = "cells" =>
        \A c \in AllComparisons(asked.cells) :
            LET shared == DOMAIN c.a.correct \cap DOMAIN c.b.correct
                silent(cell) == Cardinality({i \in shared : ~cell.correct[i]})
            IN  /\ Pairs(c.table) = Cardinality(shared)
                /\ Delta(c) = silent(c.b) - silent(c.a)
                /\ Reading(c).says = "not retained" => ~(c.a.kept /\ c.b.kept)

\* ordered_cells: a stored cell is drawn right under its live twin, in whatever order the
\* cells were read.
StoredCellsAreDrawnUnderTheirTwins ==
    asked.topic = "cells" =>
        LET drawn == OrderedCells(asked.cells)
        IN  /\ drawn = OrderedCells(Reverse(asked.cells))
            /\ \A i, j \in DOMAIN drawn :
                   Slot(drawn[i]) = Slot(drawn[j]) /\ ~drawn[i].reference /\ drawn[j].reference =>
                       j = i + 1

-----------------------------------------------------------------------------
(* A statement of the documentation that the code does not keep.           *)

\* paired.py: "the honest statement is directional only - 'this arm is worse'".
ReadingNamesTheWorseArm ==
    asked.topic = "cells" =>
        \A c \in AllComparisons(asked.cells) :
            Reading(c).says = "worse" => Reading(c).worse # Reading(c).better

=============================================================================
