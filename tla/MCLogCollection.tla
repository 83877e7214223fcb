-------------------------- MODULE MCLogCollection --------------------------
(***************************************************************************)
(* LogCollection for TLC.  The constants are given in the configurations.  *)
(***************************************************************************)
EXTENDS LogCollection

=============================================================================
