------------------------------ MODULE MCAlerts ------------------------------
(***************************************************************************)
(* Alerts for TLC.  The constants are given in the configurations.         *)
(***************************************************************************)
EXTENDS Alerts

CONSTANTS t1, t2, o1, o2, o3

=============================================================================
