----------------------------- MODULE MCGrading ------------------------------
(* Questions about grading, and what must be true of the answers.          *)
EXTENDS Questions, Grading

Values == {Null, <<1, 1>>, <<2, 1>>, <<2, 2>>, <<2, 5>>}
Thin == [1..3 -> {<<v>> : v \in Values}]
Wide == [1..2 -> {<<v, w>> : v, w \in {Null, <<2, 1>>, <<2, 2>>}}]

AskRowsEqual ==
    /\ asked = Idle
    /\ \/ \E l, r \in Thin : Ask("rows", [left |-> l, right |-> r])
       \/ \E l, r \in Wide : Ask("rows", [left |-> l, right |-> r])

\* Numbers that no tolerance takes for each other.
Apart(n) == n * (2 * Tolerance + 1)

One(n) == <<<<<<2, Apart(n)>>>>>>

\* An item is its gold answer, the naive answers by rule, and whether order counts.
Item(gold, naive, ordered) ==
    [gold |-> gold, naive |-> naive, ordered |-> ordered,
     groups |-> AmbiguousGroups(naive, gold, ordered)]

AskGroups ==
    /\ asked = Idle
    /\ \E f \in [1..4 -> {1, 3, 5, 9}], gold \in {1, 5} :
           Ask("groups", [item |-> Item(One(gold), [r \in 1..4 |-> One(f[r])], FALSE)])

\* Two products and what they sold; a product is known by a name or by a number.
Product(k, i, n) == <<<<k, Apart(i)>>, <<2, Apart(n)>>>>
Ranking == {<<Product(k, i, m), Product(k, 14 - i, n)>> :
                k \in {2, 3}, i \in {5, 9}, m, n \in {1, 5}}
Odd == {<<>>, <<Product(3, 5, 5)>>, <<<<Null>>>>, <<<<NaN>>>>, One(1), One(5)}
Naive == {One(1), One(5), <<Product(3, 5, 5), Product(3, 9, 1)>>}

AskJudge ==
    /\ asked = Idle
    /\ \E gold \in Ranking \cup {One(1)}, a, b \in Naive, rows \in Ranking \cup Odd,
          ordered \in BOOLEAN, ended \in {"no_attempts", "timeout"} :
           /\ rows # <<>> => ended = "no_attempts"
           /\ Ask("judge", [run |-> [rows |-> rows, ended |-> ended],
                            item |-> Item(gold, <<a, b>>, ordered)])

-----------------------------------------------------------------------------
\* gold/compare.py, "exact whenever the tolerance is small relative to the gaps": sorting
\* and pairing never equates what no pairing equates, and misses nothing of separated data.
SortedPairingIsExact ==
    asked.topic = "rows" =>
        LET equal == RowsEqual(asked.left, asked.right, FALSE)
            same == SameMultiset(asked.left, asked.right)
        IN  /\ equal => same
            /\ same /\ Separated(asked.left) /\ Separated(asked.right) => equal

\* Of results that have no row twice.
SameRows(l, r, ordered) == IF ordered THEN l = r ELSE ToSet(l) = ToSet(r)

\* _ambiguous_groups: as long as likeness is transitive, the groups are its classes of
\* two rules or more, and the rules that change nothing.
GroupsAreTheAmbiguities ==
    asked.topic = "groups" =>
        LET item == asked.item
            alike(r) == {s \in DOMAIN item.naive :
                            SameRows(item.naive[s], item.naive[r], item.ordered)}
            inert(r) == SameRows(item.naive[r], item.gold, item.ordered)
        IN  item.groups = {alike(r) : r \in {s \in DOMAIN item.naive :
                                                 inert(s) \/ Cardinality(alike(s)) > 1}}

\* _attribute, "every matching variant is returned, not the first": a silent error is laid
\* to exactly the rules whose naive answer it gave, in whatever order it gave it.
SilentErrorsNameTheirVariants ==
    asked.topic = "judge" =>
        LET item == asked.item
            judgement == Judge(asked.run, item)
            gave(r) == SameRows(item.naive[r], asked.run.rows, item.ordered)
        IN  judgement.outcome = "silent_error" =>
                judgement.rules = {r \in DOMAIN item.naive : gave(r)}

\* agent/classify.py, "both orderings are correct answers": products that are known by a
\* name may be listed either way when they sold the same, and no other way but gold's.
NamedTiesMayBeBrokenEitherWay ==
    asked.topic = "judge" /\ asked.run.rows \in Ranking =>
        LET gold == asked.item.gold
            rows == asked.run.rows
        IN  asked.item.ordered /\ gold[1][1][1] = 3 =>
                (Judge(asked.run, asked.item).outcome = "correct"
                    <=> \/ rows = gold
                        \/ rows = Reverse(gold) /\ gold[1][2] = gold[2][2])

\* An answer is correct when it is gold's up to the tolerance, its order only where order
\* was asked for, and a tie between named products only where they are tied.
CorrectMeansTheSameAnswer == SortedPairingIsExact /\ NamedTiesMayBeBrokenEitherWay

\* A wrong answer is laid to every rule it could come from, and what cannot be told apart
\* was listed when the gold set was built.
WrongAnswersAreLaidToTheirRules == GroupsAreTheAmbiguities /\ SilentErrorsNameTheirVariants

=============================================================================
