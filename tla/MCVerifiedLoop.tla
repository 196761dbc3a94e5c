---------------------------- MODULE MCVerifiedLoop ----------------------------
(* Instances of VerifiedLoop for TLC.                                       *)
EXTENDS VerifiedLoop, TLC

CONSTANTS sqlA, sqlB, noColumn, noTable, softDelete, fanOut, overloaded

=============================================================================
