----------------------------- MODULE Questions ------------------------------
(* What the pure parts of the workshop are asked, one question at a time:  *)
(* a state is a question, and the invariants speak of its answer.          *)

VARIABLE asked

Idle == [topic |-> "none"]

AskNothing == asked = Idle

Ask(topic, question) ==
    asked' = [f \in DOMAIN question \cup {"topic"} |-> IF f = "topic" THEN topic ELSE question[f]]

Again == asked # Idle /\ asked' = Idle

=============================================================================
