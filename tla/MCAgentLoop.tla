----------------------------- MODULE MCAgentLoop -----------------------------
(* Instances of AgentLoop for TLC.                                          *)
EXTENDS AgentLoop, TLC

CONSTANTS sqlA, sqlB, parseError, noColumn, noTable, overloaded

=============================================================================
