--------------------------- MODULE AtMostOnceQueue ---------------------------
(***************************************************************************)
(* What loopeng.queue promises to whoever submits a question, with the     *)
(* store, the workers and the database left out: a question that was       *)
(* accepted keeps its place, questions are taken oldest first, each is     *)
(* taken at most once, and a closed one stays as it was closed.            *)
(* QuestionQueue implements it.                                            *)
(***************************************************************************)
EXTENDS Naturals, Sequences

CONSTANT Questions

VARIABLE jobs      \* the accepted questions, oldest first, each with its stage

Init == jobs = <<>>

Accept(q) == jobs' = Append(jobs, [question |-> q, stage |-> "queued"])

Take(i) ==
    /\ jobs[i].stage = "queued"
    /\ \A j \in 1..(i - 1) : jobs[j].stage # "queued"
    /\ jobs' = [jobs EXCEPT ![i].stage = "claimed"]

Close(i, stage) ==
    /\ jobs[i].stage = "claimed"
    /\ jobs' = [jobs EXCEPT ![i].stage = stage]

Next ==
    \/ \E q \in Questions : Accept(q)
    \/ \E i \in DOMAIN jobs : Take(i)
    \/ \E i \in DOMAIN jobs, stage \in {"done", "failed"} : Close(i, stage)

Spec == Init /\ [][Next]_jobs

=============================================================================
