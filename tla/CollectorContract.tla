------------------------- MODULE CollectorContract -------------------------
(***************************************************************************)
(* What the log collector promises to the API, without its goroutines,     *)
(* handlers, files and streams: which runs it has taken on to collect, and *)
(* what may change that.  LogCollector implements it; LogCollection is the *)
(* API's side of it.                                                       *)
(*                                                                         *)
(* A run is carried while somebody in the collector works for it: the      *)
(* handler of a request, or the monitoring loop or a streaming goroutine   *)
(* that has read its item.  A run that is carried may be taken on at any   *)
(* time, also when it was stopped in the meantime.                         *)
(***************************************************************************)
EXTENDS Naturals, FiniteSets

CONSTANT Runs     \* the uids logs are collected under

VARIABLES
    items,        \* the runs the collector is to collect
    saved,        \* the runs it goes on with after a restart
    carried,      \* the runs somebody in it has been asked for or has read
    stopping,     \* the runs the StopLogs call in progress has yet to remove
    up,           \* whether the process is there
    pod           \* the phase of each run's pod

vars == <<items, saved, carried, stopping, up, pod>>

Phases == {"Pending", "Running", "Done", "Gone"}

Init ==
    /\ items = {} /\ saved = {} /\ carried = {} /\ stopping = {}
    /\ up = TRUE
    /\ pod = [r \in Runs |-> "Pending"]

\* A request to collect the logs of a run reaches the collector.
Request(r) ==
    /\ up
    /\ carried' = carried \cup {r}
    /\ UNCHANGED <<items, saved, stopping, up, pod>>

\* The loop or the goroutines of some runs read their items.
Carry(R) ==
    /\ R \subseteq items
    /\ carried' = carried \cup R
    /\ UNCHANGED <<items, saved, stopping, up, pod>>

Release(r) ==
    /\ carried' = carried \ {r}
    /\ UNCHANGED <<items, saved, stopping, up, pod>>

\* A run is taken on when its pod has left Pending, and not before.
Collect(r) ==
    /\ up
    /\ r \in carried
    /\ pod[r] # "Pending"
    /\ items' = items \cup {r}
    /\ carried' \in {carried, carried \ {r}}
    /\ UNCHANGED <<saved, stopping, up, pod>>

\* The collector drops a run by itself when its pod no longer runs.
Complete(r) ==
    /\ r \in items
    /\ pod[r] \notin {"Pending", "Running"}
    /\ items' = items \ {r}
    /\ UNCHANGED <<saved, carried, stopping, up, pod>>

\* A request to stop runs, which are removed one by one,
StopLogs(R) ==
    /\ up
    /\ stopping = {} /\ stopping' = R
    /\ UNCHANGED <<items, saved, carried, up, pod>>

Stop(r) ==
    /\ r \in stopping
    /\ items' = items \ {r} /\ stopping' = stopping \ {r}
    /\ UNCHANGED <<saved, carried, up, pod>>

\* or all of a project, which are removed in one step.
StopProject(R) ==
    /\ up
    /\ items' = items \ R
    /\ UNCHANGED <<saved, carried, stopping, up, pod>>

\* The items are persisted.
Save ==
    /\ up
    /\ saved' = items
    /\ UNCHANGED <<items, carried, stopping, up, pod>>

\* A crash while the state file is written loses what it held.
Crash ==
    /\ up /\ up' = FALSE
    /\ items' = {} /\ carried' = {} /\ stopping' = {}
    /\ saved' \in {saved, {}}
    /\ UNCHANGED pod

Restart ==
    /\ ~up /\ up' = TRUE
    /\ items' = saved
    /\ UNCHANGED <<saved, carried, stopping, pod>>

PodStep(r) ==
    /\ \/ pod[r] = "Pending" /\ pod' = [pod EXCEPT ![r] = "Running"]
       \/ pod[r] = "Running" /\ pod' = [pod EXCEPT ![r] = "Done"]
       \/ pod' = [pod EXCEPT ![r] = "Gone"]
    /\ UNCHANGED <<items, saved, carried, stopping, up>>

Next ==
    \/ \E r \in Runs :
          \/ Request(r) \/ Release(r) \/ Collect(r) \/ Complete(r) \/ Stop(r)
          \/ PodStep(r)
    \/ \E R \in SUBSET Runs : Carry(R) \/ StopLogs(R) \/ StopProject(R)
    \/ Save \/ Crash \/ Restart

Spec == Init /\ [][Next]_vars

=============================================================================
