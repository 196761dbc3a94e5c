------------------------------- MODULE MCSweep -------------------------------
(* Instances of Sweep for TLC.                                              *)
EXTENDS Sweep, TLC

CONSTANTS
    oneShot, loop,      \* cells, in the order build_cells lists them
    item1, item2,
    smoke, delivery     \* profiles

ThePlans == smoke :> <<oneShot>> @@ delivery :> <<oneShot, loop>>

PlanOfProfiles == [p \in Profiles |-> ThePlans[p]]

\* smoke limits the items, delivery runs them all.
ItemsOfProfiles == [p \in Profiles |-> IF p = smoke THEN {item1} ELSE Items]

\* Every item may cost two, and delivery can pay for all four of its runs.
Honest == [c \in Cells |-> 2]

Caps == [p \in Profiles |-> IF p = smoke THEN 2 ELSE 8]

\* Items cost up to twice their projection: the first cell may use up the cap
\* before the second starts, and the second may breach it.
Underrated == [c \in Cells |-> 1]

TightCaps == [p \in Profiles |-> IF p = smoke THEN 2 ELSE 5]

=============================================================================
