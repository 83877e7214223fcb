--------------------------- MODULE MCLogCollector ---------------------------
(***************************************************************************)
(* LogCollector for TLC.  The constants are given in the configurations.   *)
(***************************************************************************)
EXTENDS LogCollector

CONSTANTS r1, s1, s2

=============================================================================
