---------------------------- MODULE MCPublication ----------------------------
(* Instances of Publication for TLC.                                        *)
EXTENDS Publication, TLC

CONSTANTS f1, w1, s1, s2, item1, item2, head1, head2, gold

AllRight == item1 :> "right" @@ item2 :> "right"
OneWrong == item1 :> "right" @@ item2 :> "wrong"

\* Reports that differ in their counts; those of a worker cell are not compared.
TheOutcomes == [k \in Keys |-> IF k \in Frontier THEN {AllRight, OneWrong} ELSE {AllRight}]

TwoCommits == {[git |-> TRUE, head |-> h, edits |-> NoEdits, gold |-> gold] : h \in {head1, head2}}

Alike == Permutations(Sweeps) \cup Permutations({head1, head2})

=============================================================================
