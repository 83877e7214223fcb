---------------------- MODULE MCInternalBackgroundTasks ----------------------
(***************************************************************************)
(* InternalBackgroundTasks for TLC.  Two creating threads can both miss an *)
(* active task; three names allow a task to be deleted from the history    *)
(* while its function still runs.                                          *)
(***************************************************************************)
EXTENDS InternalBackgroundTasks

CONSTANTS n1, n2, n3, c1, c2, g1

=============================================================================
