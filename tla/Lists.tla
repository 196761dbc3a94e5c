-------------------------------- MODULE Lists ---------------------------------
(* What Python's sorted does, to a list and to a set.                      *)
EXTENDS Integers, FiniteSets, Functions

\* Stable, and of a list of any kind.  SortSeq would do, but only TLC knows what it means.
Sorted(s, earlier(_, _)) ==
    LET place == CHOOSE p \in [DOMAIN s -> DOMAIN s] :
                     /\ IsInjective(p)
                     /\ \A m, n \in DOMAIN s : m < n =>
                            \/ earlier(s[p[m]], s[p[n]])
                            \/ ~earlier(s[p[n]], s[p[m]]) /\ p[m] < p[n]
    IN  [n \in DOMAIN s |-> s[place[n]]]

\* The members of a set, of which earlier says which comes before which.
Listed(S, earlier) ==
    [n \in 1..Cardinality(S) |-> CHOOSE x \in S : Cardinality({y \in S : <<y, x>> \in earlier}) = n - 1]

=============================================================================
