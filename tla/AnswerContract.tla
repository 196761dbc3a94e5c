--------------------------- MODULE AnswerContract ----------------------------
(***************************************************************************)
(* What a run of the answering loop promises its caller, be it Level 1     *)
(* (AgentLoop) or Level 2 (VerifiedLoop): a bounded number of attempts,    *)
(* each of known kind, and one named reason for stopping that fits them.   *)
(***************************************************************************)
EXTENDS Naturals, Sequences

CONSTANT MaxAttempts

VARIABLES
    log,        \* the kind of every attempt so far, in order
    verdict     \* "running", the reason the run stopped, or "raised"

vars == <<log, verdict>>

Sent == {"rejected", "db_error"}     \* the kinds the model is told to correct

\* Whether the run may stop after an attempt, and under which name.
Reasons(kind) ==
    CASE kind = "accepted"    -> {"success"}
      [] kind = "refused"     -> {"credential", "bad_request"}
      [] kind = "call_failed" -> {"running"}
      [] kind \in Sent        ->
            IF \E i \in DOMAIN log : log[i] \in Sent
              THEN {"running", "no_progress"} ELSE {"running"}

Init == log = <<>> /\ verdict = "running"

Try(kind) ==
    /\ verdict = "running"
    /\ Len(log) < MaxAttempts
    /\ log' = Append(log, kind)
    /\ verdict' \in Reasons(kind)

GiveUp ==
    /\ verdict = "running"
    /\ verdict' = IF Len(log) < MaxAttempts THEN "budget" ELSE "max_attempts"
    /\ UNCHANGED log

Raise ==
    /\ verdict = "running"
    /\ verdict' = "raised"
    /\ UNCHANGED log

Next ==
    \/ \E kind \in {"accepted", "refused", "call_failed"} \cup Sent : Try(kind)
    \/ GiveUp
    \/ Raise

Spec == Init /\ [][Next]_vars

=============================================================================
