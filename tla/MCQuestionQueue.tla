--------------------------- MODULE MCQuestionQueue ---------------------------
(* Instances of QuestionQueue for TLC.                                      *)
EXTENDS QuestionQueue, TLC

CONSTANTS w1, w2, p1, p2, p3, gold, free

\* Every actor is a thread of one process: the deployment in which claims and
\* submissions really interleave.
OneProcess == [a \in {w1, w2, p1, p2, p3} |-> "app"]

\* Producer p3 submits from a terminal of its own, the rest is one process.
OneTerminal == [a \in {w1, w2, p1, p2, p3} |-> IF a = p3 THEN "terminal" ELSE "app"]

=============================================================================
