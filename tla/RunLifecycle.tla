---------------------------- MODULE RunLifecycle ----------------------------
(***************************************************************************)
(* The life of one run of a kind whose resources are pods: the record in   *)
(* the database, the pods of its attempts, and everything in the API that  *)
(* writes the state of the record without a lock on what it has read: the  *)
(* runs monitor (services/api/runtime_handlers/base.py, main.py), the      *)
(* clean-up of pods, the abortion of the run (crud/runs.py), the retry     *)
(* loop (main.py) and the launcher (launcher.py), besides the SDK in the   *)
(* pods (mlrun/execution.py).                                              *)
(*                                                                         *)
(* Time is left out: whether a record was updated recently, so that what   *)
(* the monitor finds is debounced, is a choice.  That a record does not    *)
(* stay recent for ever is stated as fairness.                             *)
(***************************************************************************)
EXTENDS Naturals, FiniteSets

CONSTANTS
    MaxRetries,   \* spec.retry.count
    Pods,         \* places for pods of the run that exist at the same time
    Clients,      \* abort requests
    Monitor,      \* the aborter of runs past a state threshold
    RetryJobs,    \* the aborter of runs that stay pending retry
    None,         \* no value
    MaxEvents     \* abort requests, evictions, failed calls and API
                  \* restarts, together

ASSUME LifecycleAssumption ==
    /\ MaxRetries \in Nat
    /\ MaxEvents \in Nat
    /\ Monitor \notin Clients
    /\ RetryJobs \notin Clients \cup {Monitor}

VARIABLES
    record,    \* the run in the database: its state and retry_count
    pods,      \* the pod in each place: its attempt label and phase
    monitor,   \* the pass of _monitor_runs: the run as it was listed
    abort,     \* where each call of abort_run is
    retry,     \* the retry loop: rows listed, in-progress uid, timer
    launch,    \* the launch in progress: its step and its attempt
    events     \* events so far

vars == <<record, pods, monitor, abort, retry, launch, events>>

-----------------------------------------------------------------------------

TerminalStates == {"completed", "error", "aborted"}

\* No decision tells created and pending from running, which stands for them.
NonTerminalStates == {"running", "aborting", "pendingRetry"}

ErrorStates == {"error", "aborted", "pendingRetry"}

RunStates == TerminalStates \cup NonTerminalStates

Attempts == 0 .. MaxRetries

Records == [state : RunStates, retry_count : Attempts]

(***************************************************************************)
(* A pod is "running" from the start of its container; the SDK in it has   *)
(* then stored the run.  In "committed" and "raised" the SDK has written   *)
(* its final state and the container is about to exit.                     *)
(***************************************************************************)
Phases == {"pending", "running", "committed", "raised", "succeeded", "failed"}

PodRecords == [attempt : Attempts, phase : Phases]

Existing == {p \in Pods : pods[p] # None}

\* The places are interchangeable: a new pod takes a fixed free one.
FreePlace == CHOOSE p \in Pods : pods[p] = None

\* PodPhases.pod_phase_to_run_state
pod_phase_to_run_state(phase) ==
    CASE phase = "succeeded" -> "completed"
      [] phase = "failed" -> "error"
      [] OTHER -> "running"

Aborters == Clients \cup {Monitor, RetryJobs}

NotMonitoring == [pc |-> "idle", run |-> None]

NotLaunching == [pc |-> "idle", attempt |-> 0]

NoRetries == [listed |-> None, inProgress |-> FALSE, due |-> None]

TypeOK ==
    /\ record \in Records
    /\ pods \in [Pods -> PodRecords \cup {None}]
    /\ monitor \in [pc : {"idle", "listed"}, run : Records \cup {None}]
    /\ abort \in [Aborters -> {"idle", "mark", "delete", "finish"}]
    /\ retry \in [listed : Attempts \cup {None}, inProgress : BOOLEAN,
                  due : Attempts \cup {None}]
    /\ launch \in [pc : {"idle", "create", "finish", "failed"},
                   attempt : Attempts]
    /\ events \in 0 .. MaxEvents

(***************************************************************************)
(* The run is submitted: the launcher has stored it as running.            *)
(***************************************************************************)
Init ==
    /\ record = [state |-> "running", retry_count |-> 0]
    /\ pods = [p \in Pods |-> None]
    /\ monitor = NotMonitoring
    /\ abort = [a \in Aborters |-> "idle"]
    /\ retry = NoRetries
    /\ launch = [NotLaunching EXCEPT !.pc = "create"]
    /\ events = 0

-----------------------------------------------------------------------------
(***************************************************************************)
(* The writes to the record.                                               *)
(***************************************************************************)

\* db.update_run with a new state.
update_run(state) == record' = [record EXCEPT !.state = state]

\* db.store_run: the whole record is replaced.
store_run(attempt) ==
    record' = [state |-> "running", retry_count |-> attempt]

\* The state of a failed attempt: another retry, or error.
_evaluate_run_retry_state(count) ==
    IF count < MaxRetries THEN "pendingRetry" ELSE "error"

\* _ensure_run_state leaves the run alone.
KeepsState(run, state) == run.state \in {state, "aborting"}

(***************************************************************************)
(* A run whose record and resource disagree about being terminal is left   *)
(* alone while the record is recent.                                       *)
(***************************************************************************)
_should_debounce_run_update(run, state) ==
    (run.state \in TerminalStates) # (state \in TerminalStates)

UpdatesState(run, state) ==
    /\ ~KeepsState(run, state)
    /\ update_run(IF state = "error"
                  THEN _evaluate_run_retry_state(run.retry_count)
                  ELSE state)

_ensure_run_state(run, state) ==
    \/ UpdatesState(run, state)
    \/ /\ KeepsState(run, state) \/ _should_debounce_run_update(run, state)
       /\ UNCHANGED record

Event ==
    /\ events < MaxEvents
    /\ events' = events + 1

-----------------------------------------------------------------------------
(***************************************************************************)
(* The pods, and the SDK in them.                                          *)
(***************************************************************************)

\* The container starts and the execution context stores the run.
PodStarts(p) ==
    /\ p \in Existing
    /\ pods[p].phase = "pending"
    /\ pods' = [pods EXCEPT ![p].phase = "running"]
    /\ store_run(pods[p].attempt)
    /\ UNCHANGED <<monitor, abort, retry, launch, events>>

\* The handler has returned: _update_run_state of the runtime in the pod (local.py).
CommitRun(p) ==
    /\ p \in Existing
    /\ pods[p].phase = "running"
    /\ pods' = [pods EXCEPT ![p].phase = "committed"]
    /\ update_run("completed")
    /\ UNCHANGED <<monitor, abort, retry, launch, events>>

\* MLClientCtx.set_state(error=...), by the attempt's own retry count.
RaiseError(p) ==
    /\ p \in Existing
    /\ pods[p].phase = "running"
    /\ pods' = [pods EXCEPT ![p].phase = "raised"]
    /\ update_run(_evaluate_run_retry_state(pods[p].attempt))
    /\ UNCHANGED <<monitor, abort, retry, launch, events>>

\* The container ends; it may be killed before the SDK has written a state.
PodEnds(p) ==
    /\ p \in Existing
    /\ pods[p].phase \in {"running", "committed", "raised"}
    /\ pods' = [pods EXCEPT ![p].phase =
                   IF @ = "committed" THEN "succeeded" ELSE "failed"]
    /\ UNCHANGED <<record, monitor, abort, retry, launch, events>>

\* The pod's node is preempted.
PodEvicted(p) ==
    /\ p \in Existing
    /\ Event
    /\ pods' = [pods EXCEPT ![p] = None]
    /\ UNCHANGED <<record, monitor, abort, retry, launch>>

\* _cleanup_runtimes: a pod that ended a grace period ago is deleted.
Cleanup(p) ==
    /\ p \in Existing
    /\ pods[p].phase \in {"succeeded", "failed"}
    /\ _ensure_run_state(record, pod_phase_to_run_state(pods[p].phase))
    /\ pods' = [pods EXCEPT ![p] = None]
    /\ UNCHANGED <<monitor, abort, retry, launch, events>>

-----------------------------------------------------------------------------
(***************************************************************************)
(* The launcher.                                                           *)
(***************************************************************************)

(***************************************************************************)
(* _should_skip_run, which looks for a state that _handle_retry has        *)
(* replaced when the run was enriched.                                     *)
(***************************************************************************)
_handle_retry(state) == IF state = "pendingRetry" THEN "running" ELSE state

_should_skip_run(state) == state = "pendingRetry" /\ record.state = "aborted"

\* The pod is created, with the attempt as its retry label.
LaunchPod ==
    /\ launch.pc = "create"
    /\ Pods # Existing
    /\ pods' = [pods EXCEPT ![FreePlace] =
                   IF _should_skip_run(_handle_retry("pendingRetry"))
                   THEN None
                   ELSE [attempt |-> launch.attempt, phase |-> "pending"]]
    /\ launch' = [launch EXCEPT !.pc = "finish"]
    /\ UNCHANGED <<record, monitor, abort, retry, events>>

LaunchFails ==
    /\ launch.pc = "create"
    /\ Event
    /\ launch' = [launch EXCEPT !.pc = "failed"]
    /\ UNCHANGED <<record, pods, monitor, abort, retry>>

(***************************************************************************)
(* _update_run_state, and the end of _submit_retry_wrapper, which releases *)
(* the uid.  A state in which the run already failed is evaluated again,   *)
(* aborted included.                                                       *)
(***************************************************************************)
LaunchEnds ==
    /\ launch.pc \in {"finish", "failed"}
    /\ IF launch.pc = "failed" \/ record.state \in ErrorStates
       THEN update_run(_evaluate_run_retry_state(record.retry_count))
       ELSE UNCHANGED record
    /\ retry' = [retry EXCEPT !.inProgress = @ /\ launch.attempt = 0]
    /\ launch' = NotLaunching
    /\ UNCHANGED <<pods, monitor, abort, events>>

-----------------------------------------------------------------------------
(***************************************************************************)
(* The retry loop of the API.                                              *)
(***************************************************************************)

\* A thread of the pool lists the runs that are pending retry.
RetryList ==
    /\ retry.listed = None
    /\ abort[RetryJobs] = "idle"
    /\ record.state = "pendingRetry"
    /\ retry' = [retry EXCEPT !.listed = record.retry_count]
    /\ UNCHANGED <<record, pods, monitor, abort, launch, events>>

(***************************************************************************)
(* The event loop handles the row.  It does so when no retry is being      *)
(* launched, as that blocks the loop; the row may be stale by then.        *)
(***************************************************************************)
Handling ==
    /\ retry.listed # None
    /\ launch.pc = "idle"

RetrySkip ==
    /\ Handling
    /\ retry.inProgress
    /\ retry.due # None
    /\ retry' = [retry EXCEPT !.listed = None]
    /\ UNCHANGED <<record, pods, monitor, abort, launch, events>>

(***************************************************************************)
(* The uid was in progress for longer than the staleness threshold, which  *)
(* _validate_retry keeps above every delay of a timer.                     *)
(***************************************************************************)
RetryStale ==
    /\ Handling
    /\ retry.inProgress
    /\ retry.due = None
    /\ retry' = [retry EXCEPT !.listed = None]
    /\ abort' = [abort EXCEPT ![RetryJobs] = "mark"]
    /\ UNCHANGED <<record, pods, monitor, launch, events>>

RetryExhausted ==
    /\ Handling
    /\ ~retry.inProgress
    /\ retry.listed >= MaxRetries
    /\ update_run("error")
    /\ retry' = [retry EXCEPT !.listed = None]
    /\ UNCHANGED <<pods, monitor, abort, launch, events>>

\* Mutant: one retry too many.
RetrySubmitTooMany ==
    /\ Handling
    /\ ~retry.inProgress
    /\ retry' = [listed |-> None, inProgress |-> TRUE, due |-> retry.listed]
    /\ UNCHANGED <<record, pods, monitor, abort, launch, events>>

\* Mutant: the uid is not entered.
RetrySubmitNotEntered ==
    /\ Handling
    /\ ~retry.inProgress
    /\ retry.listed < MaxRetries
    /\ retry' = [retry EXCEPT !.listed = None, !.due = retry.listed]
    /\ UNCHANGED <<record, pods, monitor, abort, launch, events>>

\* _submit_run_for_retry enters the uid and sets the timer.
RetrySubmit ==
    /\ Handling
    /\ ~retry.inProgress
    /\ retry.listed < MaxRetries
    /\ retry' = [listed |-> None, inProgress |-> TRUE, due |-> retry.listed]
    /\ UNCHANGED <<record, pods, monitor, abort, launch, events>>

\* It fails after it has entered the uid.
RetrySubmitFails ==
    /\ Handling
    /\ ~retry.inProgress
    /\ retry.listed < MaxRetries
    /\ Event
    /\ retry' = [listed |-> None, inProgress |-> TRUE, due |-> None]
    /\ UNCHANGED <<record, pods, monitor, abort, launch>>

(***************************************************************************)
(* The timer: the launcher counts the attempt and stores the run as it was *)
(* when it was listed, over whatever the record has become.                *)
(***************************************************************************)
RetryFires ==
    /\ retry.due # None
    /\ launch.pc = "idle"
    /\ store_run(retry.due + 1)
    /\ launch' = [pc |-> "create", attempt |-> retry.due + 1]
    /\ retry' = [retry EXCEPT !.due = None]
    /\ UNCHANGED <<pods, monitor, abort, events>>

\* The submission is refused before the run is stored.
RetryRefused ==
    /\ retry.due # None
    /\ launch.pc = "idle"
    /\ Event
    /\ retry' = [retry EXCEPT !.due = None, !.inProgress = FALSE]
    /\ UNCHANGED <<record, pods, monitor, abort, launch>>

-----------------------------------------------------------------------------
(***************************************************************************)
(* The abortion of the run.                                                *)
(***************************************************************************)

(***************************************************************************)
(* abort_run decides on the run that its caller has read, which is refused *)
(* in a terminal state; the run is marked later.                           *)
(***************************************************************************)
MayAbort(run) == run.state \notin TerminalStates

(***************************************************************************)
(* The endpoint reads the run and starts a background task.  A run that is *)
(* aborting may be answered with its earlier task instead, which changes   *)
(* nothing.                                                                *)
(***************************************************************************)
AbortRequest(c) ==
    /\ abort[c] = "idle"
    /\ MayAbort(record)
    /\ Event
    /\ abort' = [abort EXCEPT ![c] = "mark"]
    /\ UNCHANGED <<record, pods, monitor, retry, launch>>

\* The run is marked as aborting.
AbortMark(a) ==
    /\ abort[a] = "mark"
    /\ update_run("aborting")
    /\ abort' = [abort EXCEPT ![a] = "delete"]
    /\ UNCHANGED <<pods, monitor, retry, launch, events>>

(***************************************************************************)
(* The pods are deleted.  Before a pod goes, the state of the run is       *)
(* ensured; that has no effect while the run is aborting.                  *)
(***************************************************************************)
AbortDelete(a) ==
    /\ abort[a] = "delete"
    /\ IF Existing = {} THEN UNCHANGED record
       ELSE \E p \in Existing :
               _ensure_run_state(record, pod_phase_to_run_state(pods[p].phase))
    /\ pods' = [p \in Pods |-> None]
    /\ abort' = [abort EXCEPT ![a] = "finish"]
    /\ UNCHANGED <<monitor, retry, launch, events>>

AbortFinish(a) ==
    /\ abort[a] = "finish"
    /\ update_run("aborted")
    /\ abort' = [abort EXCEPT ![a] = "idle"]
    /\ UNCHANGED <<pods, monitor, retry, launch, events>>

\* The deletion of the resources raises.
AbortFails(a) ==
    /\ abort[a] = "delete"
    /\ update_run("error")
    /\ abort' = [abort EXCEPT ![a] = "idle"]
    /\ UNCHANGED <<pods, monitor, retry, launch, events>>

-----------------------------------------------------------------------------
(***************************************************************************)
(* The runs monitor: one pass at a time.  A pass decides on the run as it  *)
(* listed it, while its pods are listed later.  The updates a pass makes   *)
(* follow one another at once, and the last one stays.                     *)
(***************************************************************************)

\* monitor_runs lists the runs that are not in a terminal state.
MonitorRuns ==
    /\ monitor.pc = "idle"
    /\ abort[Monitor] = "idle"
    /\ monitor' = [pc |-> "listed",
                   run |-> IF record.state \in NonTerminalStates
                           THEN record ELSE None]
    /\ UNCHANGED <<record, pods, abort, retry, launch, events>>

\* The run the pass knows; one that it did not list is read now.
MonitoredRun == IF monitor.run = None THEN record ELSE monitor.run

_is_pod_from_outdated_retry(pod, run) == pod.attempt < run.retry_count

\* A pod that says nothing of the state of the run.
Ignored(p) ==
    \/ _is_pod_from_outdated_retry(pods[p], MonitoredRun)
    \/ monitor.run = None /\ pods[p].phase \in {"succeeded", "failed"}

Monitored == {p \in Existing : ~Ignored(p)}

EndOfPass ==
    /\ monitor.pc = "listed"
    /\ monitor' = NotMonitoring
    /\ UNCHANGED <<pods, retry, launch>>

\* _monitor_runtime_resource finds another state in a pod.
MonitorUpdates(p) ==
    /\ EndOfPass
    /\ p \in Monitored
    /\ UpdatesState(MonitoredRun, pod_phase_to_run_state(pods[p].phase))
    /\ UNCHANGED <<abort, events>>

\* The states agree, or the difference is debounced.
MonitorKeeps ==
    /\ EndOfPass
    /\ \A p \in Monitored :
          LET state == pod_phase_to_run_state(pods[p].phase) IN
          \/ KeepsState(MonitoredRun, state)
          \/ _should_debounce_run_update(MonitoredRun, state)
    /\ UNCHANGED <<record, abort, events>>

(***************************************************************************)
(* A pod is past the threshold of its state: the run is aborted when the   *)
(* pass is over.                                                           *)
(***************************************************************************)
MonitorStale(p) ==
    /\ EndOfPass
    /\ p \in Monitored
    /\ pods[p].phase \notin {"succeeded", "failed"}
    /\ MayAbort(MonitoredRun)
    /\ MonitoredRun.state # "aborting"
    /\ abort' = [abort EXCEPT ![Monitor] = "mark"]
    /\ UNCHANGED <<record, events>>

\* Mutant: a run that is aborting is left to its abortion.
MonitorMissingSkipsAborting ==
    /\ EndOfPass
    /\ monitor.run # None
    /\ monitor.run.state # "aborting"
    /\ Existing = {}
    /\ update_run(_evaluate_run_retry_state(monitor.run.retry_count))
    /\ UNCHANGED <<abort, events>>

(***************************************************************************)
(* _ensure_run_not_stuck_on_non_terminal_state: a run without a resource   *)
(* is moved out of its state once the record is no longer recent.          *)
(***************************************************************************)
MonitorMissing ==
    /\ EndOfPass
    /\ monitor.run # None
    /\ Existing = {}
    /\ update_run(_evaluate_run_retry_state(monitor.run.retry_count))
    /\ UNCHANGED <<abort, events>>

(***************************************************************************)
(* The API restarts: its loops, timers and background tasks are gone.      *)
(***************************************************************************)
Restart ==
    /\ Event
    /\ monitor' = NotMonitoring
    /\ abort' = [a \in Aborters |-> "idle"]
    /\ retry' = NoRetries
    /\ launch' = NotLaunching
    /\ UNCHANGED <<record, pods>>

-----------------------------------------------------------------------------

PodStep(p) ==
    PodStarts(p) \/ CommitRun(p) \/ RaiseError(p) \/ PodEnds(p) \/ Cleanup(p)

LaunchStep == RetryFires \/ LaunchPod \/ LaunchEnds

RetryStep ==
    RetryList \/ RetrySkip \/ RetryStale \/ RetryExhausted \/ RetrySubmit

AbortStep(a) == AbortMark(a) \/ AbortDelete(a) \/ AbortFinish(a)

Next ==
    \/ \E p \in Pods : PodStep(p) \/ PodEvicted(p)
    \/ LaunchStep
    \/ LaunchFails
    \/ RetryStep
    \/ RetrySubmitFails
    \/ RetryRefused
    \/ \E c \in Clients : AbortRequest(c)
    \/ \E a \in Aborters : AbortStep(a) \/ AbortFails(a)
    \/ MonitorRuns \/ MonitorKeeps \/ MonitorMissing
    \/ \E p \in Pods : MonitorUpdates(p) \/ MonitorStale(p)
    \/ Restart

(***************************************************************************)
(* Jobs end, the periodic functions run again and again, a task that was   *)
(* started is carried on, and a record does not stay recent in every pass  *)
(* of the monitor.  Nothing is assumed of clients and events.              *)
(***************************************************************************)
Fairness ==
    /\ \A p \in Pods : WF_vars(PodStep(p)) /\ SF_vars(MonitorUpdates(p))
    /\ WF_vars(LaunchStep)
    /\ WF_vars(RetryStep)
    /\ \A a \in Aborters : WF_vars(AbortStep(a))
    /\ WF_vars(MonitorRuns \/ MonitorKeeps)
    /\ SF_vars(MonitorMissing)

Spec == Init /\ [][Next]_vars /\ Fairness

-----------------------------------------------------------------------------

(***************************************************************************)
(* The uid of a run whose retry waits for its timer or is being launched   *)
(* is in _retry_in_progress_run_uids, so that no pass of the retry loop    *)
(* submits a second one at that time, whatever row it has listed.          *)
(***************************************************************************)
OneRetryAtATime ==
    retry.due # None \/ (launch.pc # "idle" /\ launch.attempt > 0)
        => retry.inProgress

(***************************************************************************)
(* A run does not become trapped in a non-terminal state (base.py,         *)
(* _ensure_run_not_stuck_on_non_terminal_state): whatever is evicted, lost *)
(* in a restart, failed or written over, it is in a terminal state again.  *)
(***************************************************************************)
NotTrapped == []<>(record.state \in TerminalStates)

(***************************************************************************)
(* A run that was aborted while its retry was waiting is not started again *)
(* (launcher.py, "Skip retried run if it was aborted or deleted").         *)
(***************************************************************************)
AbortedRetryIsSkipped == [][RetryFires => record.state # "aborted"]_vars

=============================================================================
