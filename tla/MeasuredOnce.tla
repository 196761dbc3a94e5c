----------------------------- MODULE MeasuredOnce -----------------------------
(***************************************************************************)
(* What the sweep promises of the cells it has finished, with invocations, *)
(* files and failures left out: a cell is measured at most once, over one  *)
(* whole item set, and keeps the cost it was measured at.                  *)
(***************************************************************************)
EXTENDS Naturals

CONSTANTS
    Cells,
    ItemSets,       \* the item sets a cell may be measured over
    Unmeasured

VARIABLE measured       \* by cell: the items and the cost, or Unmeasured

Init == measured = [c \in Cells |-> Unmeasured]

Measurements == [items : ItemSets, cost : Nat]

Measure(c) ==
    /\ measured[c] = Unmeasured
    /\ measured'[c] \in Measurements
    /\ measured' = [measured EXCEPT ![c] = measured'[c]]

Next == \E c \in Cells : Measure(c)

Spec == Init /\ [][Next]_measured

=============================================================================
