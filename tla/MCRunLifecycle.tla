--------------------------- MODULE MCRunLifecycle ---------------------------
(***************************************************************************)
(* A run that may be retried once, with places for a pod of either         *)
(* attempt, one client that may abort it and one event that goes wrong.    *)
(***************************************************************************)
EXTENDS RunLifecycle

CONSTANTS p1, p2, c1

=============================================================================
