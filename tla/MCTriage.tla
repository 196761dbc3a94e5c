------------------------------ MODULE MCTriage -------------------------------
(* Questions about triage, and what must be true of the answers.           *)
EXTENDS Questions, Triage

\* What a Level 2 pass records: only a query that ran is ever judged correct.
Runs ==
    {[ran |-> r, termination |-> t, rejections |-> j, correct |-> c] :
        r \in BOOLEAN, t \in {"success", "budget", "no_progress", "max_attempts"},
        j \in 0..1, c \in BOOLEAN}

Recorded == {r \in Runs : r.correct => r.ran}

Few == {r \in Recorded : r.ran /\ r.termination \in {"success", "max_attempts"}}

AskAbstain ==
    /\ asked = Idle
    /\ \E r, s \in Recorded : Ask("abstain", [runs |-> <<r, s>>])

AskEscalate ==
    /\ asked = Idle
    /\ \E runs \in [1..3 -> {r \in Few : r.rejections = 1}], frontier \in [1..3 -> BOOLEAN],
          limit \in 0..2 :
           Ask("escalate", [runs |-> runs, frontier |-> frontier, limit |-> limit])

AskSpread ==
    /\ asked = Idle
    /\ \E n \in 0..5 : \E items \in [1..n -> 1..3] : Ask("spread", [items |-> items])

Outcomes == (1..2) \X {"silent_error", "correct"}

AskCandidates ==
    /\ asked = Idle
    /\ \E m, n \in 0..2 :
           \E a \in [1..m -> Outcomes], b \in [1..n -> Outcomes] :
               LET rows(s, arm) == [i \in DOMAIN s |->
                                       [pattern |-> s[i][1], outcome |-> s[i][2], arm |-> arm, n |-> i]]
               IN  Ask("candidates", [cells |-> <<rows(a, 1), rows(b, 2)>>])

-----------------------------------------------------------------------------

\* abstain.py, "answer anything the verifier eventually passed, decline anything that hit a
\* cap or gave up going in circles": the default threshold draws that line.
DefaultAnswersWhatPassed ==
    asked.topic = "abstain" =>
        \A i \in DOMAIN asked.runs :
            LET run == asked.runs[i]
            IN  Answered(run, DefaultThreshold) <=> run.ran /\ run.termination = "success"

\* The slider reaches from answering everything to no more than the cleanest answers, and
\* raising it never answers more.
CurveReachesBothEnds ==
    asked.topic = "abstain" =>
        LET points == Curve(asked.runs)
        IN  /\ points[1].answered = Len(asked.runs)
            /\ \A i \in 2..Len(points) : points[i].answered <= points[i - 1].answered
            /\ \A i \in DOMAIN asked.runs :
                   Answered(asked.runs[i], Last(points).threshold) =>
                       asked.runs[i].termination = "success" /\ asked.runs[i].rejections = 0

\* select_for_escalation, "reported over everything declined rather than over what the
\* budget allowed": what the limit drops is still counted, and is what was capped.
EscalationCountsWhatItDrops ==
    asked.topic = "escalate" =>
        \A threshold \in Confidences :
            LET report == Escalate(asked.runs, asked.frontier, threshold, asked.limit)
                point == OperatingPoint(asked.runs, threshold)
            IN  /\ report.declined = point.total - point.answered
                /\ report.wasCapped <=> report.escalated < report.declined
                /\ report.converted <= report.escalated

\* spread_across_clusters: no pattern is picked from twice more often than another that
\* still has items, and a larger limit only adds to a smaller one.
SpreadIsEvenAndStable ==
    asked.topic = "spread" =>
        LET all == SpreadAcrossClusters(asked.items, Len(asked.items))
        IN  \A limit \in 0..Len(asked.items) :
                LET picked == SpreadAcrossClusters(asked.items, limit)
                    taken(p) == Cardinality({i \in DOMAIN picked : asked.items[picked[i]] = p})
                    has(p) == Cardinality({i \in DOMAIN asked.items : asked.items[i] = p})
                IN  /\ Len(picked) = limit /\ IsInjective(picked)
                    /\ \A p, q \in ToSet(asked.items) : taken(p) > taken(q) + 1 => taken(q) = has(q)
                    /\ IsPrefix(picked, all)

\* candidates: only silent errors, each once, and one of every pattern that has any before
\* a second of any.
CandidatesCoverThePatterns ==
    asked.topic = "candidates" =>
        LET pool == UNION {ToSet(asked.cells[c]) : c \in DOMAIN asked.cells}
            silent == {row \in pool : row.outcome = "silent_error"}
            patterns == {row.pattern : row \in silent}
        IN  \A limit \in 0..Cardinality(pool) :
                LET picked == Candidates(asked.cells, limit)
                IN  /\ ToSet(picked) \subseteq silent /\ IsInjective(picked)
                    /\ Len(picked) = Min({limit, Cardinality(silent)})
                    /\ limit >= Cardinality(patterns) =>
                           {row.pattern : row \in ToSet(picked)} = patterns

\* Abstaining and escalating are about the same answers, all of them counted.
DeclinedAnswersAreCounted ==
    DefaultAnswersWhatPassed /\ CurveReachesBothEnds /\ EscalationCountsWhatItDrops

\* A limit never keeps a pattern from being looked at.
PicksCoverThePatterns == SpreadIsEvenAndStable /\ CandidatesCoverThePatterns

=============================================================================
