-------------------------------- MODULE Groups -------------------------------
(* Groups of rules, and the pairs of them that are alike (gold/build.py).   *)
EXTENDS Integers, Sequences

\* A pair joins the first group that has either rule, or starts one.
Join(groups, pair) ==
    LET having == {g \in DOMAIN groups : groups[g] \cap {pair[1], pair[2]} # {}}
    IN  IF having = {} THEN Append(groups, {pair[1], pair[2]})
        ELSE [groups EXCEPT ![CHOOSE g \in having : \A h \in having : g <= h] =
                 @ \cup {pair[1], pair[2]}]

=============================================================================
