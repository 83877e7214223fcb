----------------------------- MODULE MCLogReads -----------------------------
(***************************************************************************)
(* LogReads for TLC.  The constants are given in the configurations.       *)
(***************************************************************************)
EXTENDS LogReads

CONSTANTS q1, q2, r1, r2, b1, b2

\* -1 asks for the whole file.
AllSizes == -1..7
WholeFile == {-1}

=============================================================================
