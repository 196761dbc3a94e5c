----------------------------- MODULE MCAnalysis ------------------------------
(* The pure parts of the workshop, asked one question at a time, and the   *)
(* passes over the gold set, run one at a time.                            *)
EXTENDS MCPatterns, MCVerifiers, MCDashboards, MCLedgers, MCPasses

Init == AskNothing /\ PassInit

AskAny ==
    \/ AskRowsEqual \/ AskGroups \/ AskJudge \/ AskPattern
    \/ AskAbstain \/ AskEscalate \/ AskSpread \/ AskCandidates
    \/ AskComplaints \/ AskVerdict \/ AskSurface
    \/ AskTable \/ AskPair \/ AskTwins \/ AskSix
    \/ AskScreens \/ AskLedgers \/ AskPreflight

Next ==
    \/ stage = "idle" /\ (AskAny \/ Again) /\ UNCHANGED passVars
    \/ asked = Idle /\ PassNext /\ UNCHANGED asked

\* The pool runs what it was given: its threads, and the main thread that waits for them.
Fairness == WF_passVars(asked = Idle /\ Advance /\ UNCHANGED asked)

Spec == Init /\ [][Next]_<<asked, passVars>> /\ Fairness

=============================================================================
