------------------------------- MODULE Triage --------------------------------
(***************************************************************************)
(* What is done with the answers a pass recorded: abstaining below a       *)
(* threshold (triage/abstain.py), escalating what was declined             *)
(* (triage/escalate.py), and picking items and failures to look at, spread *)
(* over the patterns (gold/build.py, triage/failures.py).                  *)
(*                                                                         *)
(* A run is [ran, termination, rejections, correct], in hundredths where   *)
(* the code has a confidence.                                              *)
(***************************************************************************)
EXTENDS Integers, FiniteSets, SequencesExt, Lists

\* CONFIDENCE: 15 is budget_exhausted, 20 hit_the_attempt_cap, 30 gave_up_no_progress.
Confidences == {100, 70, 30, 20, 15, 0}

DefaultThreshold == 70

\* confidence_of: whether it ran comes first, then how it ended, then its rejections.
Confidence(run) ==
    CASE ~run.ran -> 0
      [] run.ran /\ run.termination = "budget" -> 15
      [] run.ran /\ run.termination = "no_progress" -> 30
      [] run.ran /\ run.termination = "max_attempts" -> 20
      [] OTHER -> IF run.rejections > 0 THEN 70 ELSE 100

Answered(run, threshold) == Confidence(run) >= threshold

OperatingPoint(runs, threshold) ==
    LET answered == {i \in DOMAIN runs : Answered(runs[i], threshold)}
    IN  [threshold |-> threshold, total |-> Len(runs), answered |-> Cardinality(answered),
         correct |-> Cardinality({i \in answered : runs[i].correct})]

\* sorted({0.0, *CONFIDENCE.values()})
Thresholds == Sorted(SetToSeq(Confidences \cup {0}), LAMBDA t, u : t < u)

Curve(runs) == [i \in DOMAIN Thresholds |-> OperatingPoint(runs, Thresholds[i])]

\* select_for_escalation: the positions of the first declined runs, and how many declined.
SelectForEscalation(runs, threshold, limit) ==
    LET declined == {i \in DOMAIN runs : ~Answered(runs[i], threshold)}
    IN  [selected |-> {i \in declined : Cardinality({j \in declined : j <= i}) <= limit},
         declined |-> Cardinality(declined)]

\* Mutant of Escalate: the rate is taken over what the limit left.
Escalate_Capped(runs, frontier, threshold, limit) ==
    LET chosen == SelectForEscalation(runs, threshold, limit)
        escalated == Cardinality(chosen.selected)
    IN  [asked |-> Len(runs), declined |-> escalated, escalated |-> escalated,
         wasCapped |-> chosen.declined > limit,
         converted |-> Cardinality({i \in chosen.selected : frontier[i] /\ ~runs[i].correct})]

\* run_escalation; frontier is whether the expensive model gets each question right.
Escalate(runs, frontier, threshold, limit) ==
    LET chosen == SelectForEscalation(runs, threshold, limit)
    IN  [asked |-> Len(runs), declined |-> chosen.declined,
         escalated |-> Cardinality(chosen.selected), wasCapped |-> chosen.declined > limit,
         converted |-> Cardinality({i \in chosen.selected : frontier[i] /\ ~runs[i].correct})]

-----------------------------------------------------------------------------
(* Items are given by their pattern, in order; what is picked, by position. *)

Depth(items, i) == Cardinality({j \in 1..(i - 1) : items[j] = items[i]})

\* Mutant of RoundRobin: the first of the list.
RoundRobin_Prefix(items, limit) == [i \in 1..Min({limit, Len(items)}) |-> i]

\* The second of a pattern comes after the first of any.
Earlier(items, i, j) ==
    \/ Depth(items, i) < Depth(items, j)
    \/ Depth(items, i) = Depth(items, j) /\ items[i] < items[j]

\* One of each pattern, in the order of their keys, before a second of any.
RoundRobin(items, limit) ==
    SubSeq(Sorted([i \in DOMAIN items |-> i], LAMBDA i, j : Earlier(items, i, j)),
           1, Min({limit, Len(items)}))

SpreadAcrossClusters(items, limit) == RoundRobin(items, limit)

\* The places of the silent errors: <<cell, row>>.
Silent(cells) ==
    UNION {{c} \X {i \in DOMAIN cells[c] : cells[c][i].outcome = "silent_error"} : c \in DOMAIN cells}

\* candidates: the silent errors of all cells, cell after cell, spread the same way.
Candidates(cells, limit) ==
    LET pool == Sorted(SetToSeq(Silent(cells)),
                       LAMBDA a, b : a[1] < b[1] \/ (a[1] = b[1] /\ a[2] < b[2]))
        row(i) == cells[pool[i][1]][pool[i][2]]
        picked == RoundRobin([i \in DOMAIN pool |-> row(i).pattern], limit)
    IN  [i \in DOMAIN picked |-> row(picked[i])]

=============================================================================
