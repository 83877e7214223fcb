------------------------ MODULE RunLifecycleProofs ------------------------
(***************************************************************************)
(* Proofs that the invariants of RunLifecycle hold for every number of     *)
(* retries, places for pods, clients and events.                           *)
(***************************************************************************)
EXTENDS RunLifecycle, TLAPS

(***************************************************************************)
(* The strengthening: a timer is only set within the retry budget, so that *)
(* the launch it starts stores a retry_count within it, and never while a  *)
(* launch is in progress, whose end releases the uid.                      *)
(***************************************************************************)
RetryBudget ==
    retry.due # None => retry.due < MaxRetries /\ launch.pc = "idle"

Inv == TypeOK /\ RetryBudget /\ OneRetryAtATime

\* The state _evaluate_run_retry_state chooses is a state of a run.
LEMMA RetryStateType ==
    ASSUME NEW count PROVE _evaluate_run_retry_state(count) \in RunStates
BY DEF _evaluate_run_retry_state, RunStates, TerminalStates, NonTerminalStates

\* The state a pod's phase stands for is a state of a run.
LEMMA PodStateType ==
    ASSUME NEW phase PROVE pod_phase_to_run_state(phase) \in RunStates
BY DEF pod_phase_to_run_state, RunStates, TerminalStates, NonTerminalStates

\* Both ways to ensure the state of a run leave a record.
LEMMA EnsureType ==
    ASSUME TypeOK, NEW run, NEW phase,
           \/ _ensure_run_state(run, pod_phase_to_run_state(phase))
           \/ UpdatesState(run, pod_phase_to_run_state(phase))
    PROVE  record' \in Records
<1> DEFINE state == pod_phase_to_run_state(phase)
<1>1. state \in RunStates BY PodStateType
<1>2. _evaluate_run_retry_state(run.retry_count) \in RunStates
  BY RetryStateType
<1>3. CASE UpdatesState(run, state)
  BY <1>1, <1>2, <1>3 DEF UpdatesState, update_run, TypeOK, Records
<1>4. CASE UNCHANGED record
  BY <1>4 DEF TypeOK
<1>5. QED BY <1>3, <1>4 DEF _ensure_run_state

LEMMA InitInv == Init => Inv
BY LifecycleAssumption
   DEF Init, Inv, TypeOK, RetryBudget, OneRetryAtATime, Records, RunStates,
       TerminalStates, NonTerminalStates, Attempts, NotMonitoring,
       NoRetries, NotLaunching, Aborters

\* A step that only writes a state of a run into the record.
LEMMA UpdateType ==
    ASSUME TypeOK, NEW state \in RunStates, update_run(state)
    PROVE  record' \in Records
BY DEF TypeOK, update_run, Records

\* The pods, the SDK in them and their clean-up.
LEMMA PodStepInv ==
    ASSUME Inv, NEW p \in Pods, PodStep(p) \/ PodEvicted(p)
    PROVE  Inv'
<1> USE DEF Inv
<1>1. record' \in Records
  <2>1. CASE PodStarts(p)
    BY <2>1 DEF PodStarts, store_run, TypeOK, Records, RunStates,
                NonTerminalStates, Existing, PodRecords
  <2>2. CASE CommitRun(p)
    BY <2>2, UpdateType DEF CommitRun, RunStates, TerminalStates
  <2>3. CASE RaiseError(p)
    BY <2>3, UpdateType, RetryStateType DEF RaiseError
  <2>4. CASE PodEnds(p) \/ PodEvicted(p)
    BY <2>4 DEF PodEnds, PodEvicted, TypeOK
  <2>5. CASE Cleanup(p)
    BY <2>5, EnsureType DEF Cleanup
  <2>6. QED BY <2>1, <2>2, <2>3, <2>4, <2>5 DEF PodStep
<1>2. pods' \in [Pods -> PodRecords \cup {None}]
  BY DEF PodStep, PodStarts, CommitRun, RaiseError, PodEnds, PodEvicted,
         Cleanup, TypeOK, Existing, PodRecords, Phases
<1>3. events' \in 0 .. MaxEvents
  BY LifecycleAssumption
  DEF PodStep, PodStarts, CommitRun, RaiseError, PodEnds, PodEvicted,
      Cleanup, Event, TypeOK
<1>4. UNCHANGED <<monitor, abort, retry, launch>>
  BY DEF PodStep, PodStarts, CommitRun, RaiseError, PodEnds, PodEvicted,
         Cleanup
<1>5. QED BY <1>1, <1>2, <1>3, <1>4 DEF TypeOK, RetryBudget, OneRetryAtATime

\* The launcher.
LEMMA LaunchStepInv ==
    ASSUME Inv, LaunchStep \/ LaunchFails
    PROVE  Inv'
<1> USE DEF Inv
<1>1. CASE LaunchPod
  <2>1. pods' \in [Pods -> PodRecords \cup {None}]
    <3> DEFINE place == FreePlace
    <3>1. pods' \in [Pods -> PodRecords \cup {None}]
      <4>1. [attempt |-> launch.attempt, phase |-> "pending"] \in PodRecords
        BY DEF TypeOK, PodRecords, Phases
      <4> HIDE DEF place
      <4>2. QED BY <1>1, <4>1 DEF LaunchPod, TypeOK, place
    <3>2. QED BY <3>1
  <2>2. QED BY <1>1, <2>1
    DEF LaunchPod, TypeOK, RetryBudget, OneRetryAtATime
<1>2. CASE LaunchFails
  BY <1>2, LifecycleAssumption
  DEF LaunchFails, Event, TypeOK, RetryBudget, OneRetryAtATime
<1>3. CASE LaunchEnds
  <2>1. record' \in Records
    <3>1. CASE UNCHANGED record BY <3>1 DEF TypeOK
    <3>2. CASE update_run(_evaluate_run_retry_state(record.retry_count))
      BY <3>2, UpdateType, RetryStateType
    <3>3. QED BY <1>3, <3>1, <3>2 DEF LaunchEnds
  <2>2. retry' = [retry EXCEPT !.inProgress = @ /\ launch.attempt = 0]
        /\ launch' = NotLaunching
        /\ UNCHANGED <<pods, monitor, abort, events>>
    BY <1>3 DEF LaunchEnds
  <2>3. /\ retry' \in [listed : Attempts \cup {None}, inProgress : BOOLEAN,
                        due : Attempts \cup {None}]
        /\ retry'.due = retry.due
    BY <2>2 DEF TypeOK
  <2>4. launch' \in [pc : {"idle", "create", "finish", "failed"},
                     attempt : Attempts]
    BY <2>2, LifecycleAssumption DEF NotLaunching, Attempts
  <2>5. TypeOK' /\ RetryBudget'
    BY <2>1, <2>2, <2>3, <2>4 DEF TypeOK, RetryBudget, NotLaunching
  <2>6. OneRetryAtATime'
    <3>1. launch.pc # "idle" BY <1>3 DEF LaunchEnds
    <3>2. retry.due = None BY <3>1 DEF RetryBudget
    <3>3. QED BY <2>2, <2>3, <3>2 DEF OneRetryAtATime, NotLaunching
  <2>7. QED BY <2>5, <2>6
<1>4. CASE RetryFires
  <2>1. /\ retry.due \in Attempts
        /\ retry.due < MaxRetries
        /\ retry.inProgress
    BY <1>4 DEF RetryFires, TypeOK, RetryBudget, OneRetryAtATime
  <2>2. retry.due + 1 \in Attempts
    BY <2>1, LifecycleAssumption DEF Attempts
  <2>3. record' \in Records
    BY <1>4, <2>2 DEF RetryFires, store_run, Records, RunStates,
                      NonTerminalStates
  <2>4. launch' \in [pc : {"idle", "create", "finish", "failed"},
                     attempt : Attempts]
    BY <1>4, <2>2 DEF RetryFires
  <2>5. /\ retry' \in [listed : Attempts \cup {None}, inProgress : BOOLEAN,
                        due : Attempts \cup {None}]
        /\ retry'.due = None
        /\ retry'.inProgress = retry.inProgress
    BY <1>4 DEF RetryFires, TypeOK
  <2>6. UNCHANGED <<pods, monitor, abort, events>>
    BY <1>4 DEF RetryFires
  <2>7. QED BY <2>1, <2>3, <2>4, <2>5, <2>6
    DEF TypeOK, RetryBudget, OneRetryAtATime
<1>5. QED BY <1>1, <1>2, <1>3, <1>4 DEF LaunchStep

\* The retry loop.
LEMMA RetryStepInv ==
    ASSUME Inv, RetryStep \/ RetrySubmitFails \/ RetryRefused
    PROVE  Inv'
<1> USE DEF Inv
<1> DEFINE RetryRecords == [listed : Attempts \cup {None},
                            inProgress : BOOLEAN,
                            due : Attempts \cup {None}]
<1>1. CASE RetryList
  BY <1>1 DEF RetryList, TypeOK, Records, RetryBudget, OneRetryAtATime
<1>2. CASE RetrySkip
  BY <1>2 DEF RetrySkip, TypeOK, RetryBudget, OneRetryAtATime
<1>3. CASE RetryStale
  <2>1. /\ retry' \in RetryRecords
        /\ retry'.due = retry.due
        /\ retry'.inProgress = retry.inProgress
    BY <1>3 DEF RetryStale, TypeOK
  <2>2. abort' \in [Aborters -> {"idle", "mark", "delete", "finish"}]
    BY <1>3 DEF RetryStale, TypeOK
  <2>3. UNCHANGED <<record, pods, monitor, launch, events>>
    BY <1>3 DEF RetryStale
  <2>4. QED BY <2>1, <2>2, <2>3 DEF TypeOK, RetryBudget, OneRetryAtATime
<1>4. CASE RetryExhausted
  <2>1. record' \in Records
    BY <1>4, UpdateType DEF RetryExhausted, RunStates, TerminalStates
  <2>2. /\ retry' \in RetryRecords
        /\ retry'.due = retry.due
        /\ retry'.inProgress = retry.inProgress
    BY <1>4 DEF RetryExhausted, TypeOK
  <2>3. UNCHANGED <<pods, monitor, abort, launch, events>>
    BY <1>4 DEF RetryExhausted
  <2>4. QED BY <2>1, <2>2, <2>3 DEF TypeOK, RetryBudget, OneRetryAtATime
<1>5. CASE RetrySubmit
  <2>1. /\ retry' \in RetryRecords
        /\ retry'.inProgress
        /\ retry'.due < MaxRetries
    BY <1>5 DEF RetrySubmit, Handling, TypeOK
  <2>2. /\ launch.pc = "idle"
        /\ UNCHANGED <<record, pods, monitor, abort, launch, events>>
    BY <1>5 DEF RetrySubmit, Handling
  <2>3. QED BY <2>1, <2>2 DEF TypeOK, RetryBudget, OneRetryAtATime
<1>6. CASE RetrySubmitFails
  <2>1. /\ retry' \in RetryRecords
        /\ retry'.inProgress
        /\ retry'.due = None
    BY <1>6 DEF RetrySubmitFails
  <2>2. UNCHANGED <<record, pods, monitor, abort, launch>>
    BY <1>6 DEF RetrySubmitFails
  <2>3. events' \in 0 .. MaxEvents
    BY <1>6, LifecycleAssumption DEF RetrySubmitFails, Event, TypeOK
  <2>4. QED BY <2>1, <2>2, <2>3 DEF TypeOK, RetryBudget, OneRetryAtATime
<1>7. CASE RetryRefused
  <2>1. retry' \in RetryRecords /\ retry'.due = None
    BY <1>7 DEF RetryRefused, TypeOK
  <2>2. /\ launch.pc = "idle"
        /\ UNCHANGED <<record, pods, monitor, abort, launch>>
    BY <1>7 DEF RetryRefused
  <2>3. events' \in 0 .. MaxEvents
    BY <1>7, LifecycleAssumption DEF RetryRefused, Event, TypeOK
  <2>4. QED BY <2>1, <2>2, <2>3 DEF TypeOK, RetryBudget, OneRetryAtATime
<1>8. QED BY <1>1, <1>2, <1>3, <1>4, <1>5, <1>6, <1>7 DEF RetryStep

\* The abortion of the run.
LEMMA AbortStepInv ==
    ASSUME Inv, NEW a \in Aborters,
           (a \in Clients /\ AbortRequest(a)) \/ AbortStep(a) \/ AbortFails(a)
    PROVE  Inv'
<1> USE DEF Inv
<1>1. record' \in Records
  <2>1. CASE AbortRequest(a)
    BY <2>1 DEF AbortRequest, TypeOK
  <2>2. CASE AbortMark(a)
    BY <2>2, UpdateType DEF AbortMark, RunStates, NonTerminalStates
  <2>3. CASE AbortDelete(a)
    <3>1. CASE UNCHANGED record BY <3>1 DEF TypeOK
    <3>2. CASE \E p \in Existing :
               _ensure_run_state(record, pod_phase_to_run_state(pods[p].phase))
      BY <3>2, EnsureType
    <3>3. QED BY <2>3, <3>1, <3>2 DEF AbortDelete
  <2>4. CASE AbortFinish(a) \/ AbortFails(a)
    BY <2>4, UpdateType DEF AbortFinish, AbortFails, RunStates, TerminalStates
  <2>5. QED BY <2>1, <2>2, <2>3, <2>4 DEF AbortStep
<1>2. pods' \in [Pods -> PodRecords \cup {None}]
  BY DEF AbortRequest, AbortStep, AbortMark, AbortDelete, AbortFinish,
         AbortFails, TypeOK
<1>3. abort' \in [Aborters -> {"idle", "mark", "delete", "finish"}]
  BY DEF AbortRequest, AbortStep, AbortMark, AbortDelete, AbortFinish,
         AbortFails, TypeOK
<1>4. events' \in 0 .. MaxEvents
  BY LifecycleAssumption
  DEF AbortRequest, AbortStep, AbortMark, AbortDelete, AbortFinish,
      AbortFails, Event, TypeOK
<1>5. UNCHANGED <<monitor, retry, launch>>
  BY DEF AbortRequest, AbortStep, AbortMark, AbortDelete, AbortFinish,
         AbortFails
<1>6. QED BY <1>1, <1>2, <1>3, <1>4, <1>5
  DEF TypeOK, RetryBudget, OneRetryAtATime

\* The runs monitor, and a restart of the API.
LEMMA MonitorStepInv ==
    ASSUME Inv,
           \/ MonitorRuns \/ MonitorKeeps \/ MonitorMissing
           \/ \E p \in Pods : MonitorUpdates(p) \/ MonitorStale(p)
    PROVE  Inv'
<1> USE DEF Inv
<1>1. record' \in Records
  <2>1. CASE UNCHANGED record BY <2>1 DEF TypeOK
  <2>2. CASE MonitorMissing
    BY <2>2, UpdateType, RetryStateType DEF MonitorMissing
  <2>3. CASE \E p \in Pods : MonitorUpdates(p)
    BY <2>3, EnsureType DEF MonitorUpdates
  <2>4. QED BY <2>1, <2>2, <2>3 DEF MonitorRuns, MonitorKeeps, MonitorStale
<1>2. monitor' \in [pc : {"idle", "listed"}, run : Records \cup {None}]
  BY DEF MonitorRuns, MonitorKeeps, MonitorMissing, MonitorUpdates,
         MonitorStale, EndOfPass, NotMonitoring, TypeOK
<1>3. abort' \in [Aborters -> {"idle", "mark", "delete", "finish"}]
  BY DEF MonitorRuns, MonitorKeeps, MonitorMissing, MonitorUpdates,
         MonitorStale, TypeOK
<1>4. UNCHANGED <<pods, retry, launch, events>>
  BY DEF MonitorRuns, MonitorKeeps, MonitorMissing, MonitorUpdates,
         MonitorStale, EndOfPass
<1>5. QED BY <1>1, <1>2, <1>3, <1>4 DEF TypeOK, RetryBudget, OneRetryAtATime

LEMMA RestartInv == ASSUME Inv, Restart PROVE Inv'
<1> USE DEF Inv
<1>1. events' \in 0 .. MaxEvents
  BY LifecycleAssumption DEF Restart, Event, TypeOK
<1>2. QED BY <1>1, LifecycleAssumption
  DEF Restart, NotMonitoring, NoRetries, NotLaunching, Attempts, TypeOK,
      RetryBudget, OneRetryAtATime

LEMMA NextInv == ASSUME Inv, [Next]_vars PROVE Inv'
<1>1. CASE \E p \in Pods : PodStep(p) \/ PodEvicted(p)
  BY <1>1, PodStepInv
<1>2. CASE LaunchStep \/ LaunchFails
  BY <1>2, LaunchStepInv
<1>3. CASE RetryStep \/ RetrySubmitFails \/ RetryRefused
  BY <1>3, RetryStepInv
<1>4. CASE \/ \E c \in Clients : AbortRequest(c)
           \/ \E a \in Aborters : AbortStep(a) \/ AbortFails(a)
  BY <1>4, AbortStepInv DEF Aborters
<1>5. CASE \/ MonitorRuns \/ MonitorKeeps \/ MonitorMissing
           \/ \E p \in Pods : MonitorUpdates(p) \/ MonitorStale(p)
  BY <1>5, MonitorStepInv
<1>6. CASE Restart
  BY <1>6, RestartInv
<1>7. CASE UNCHANGED vars
  BY <1>7 DEF vars, Inv, TypeOK, RetryBudget, OneRetryAtATime
<1>8. QED BY <1>1, <1>2, <1>3, <1>4, <1>5, <1>6, <1>7 DEF Next

LEMMA Invariance == Spec => []Inv
<1>1. Inv /\ [Next]_vars => Inv' BY NextInv
<1>2. QED BY InitInv, <1>1, PTL DEF Spec

(***************************************************************************)
(* Whatever order the monitor, the clean-up, the abortions, the retry loop *)
(* and the SDK write in, the record keeps a state of a run and its         *)
(* retry_count stays within spec.retry.count.                              *)
(***************************************************************************)
THEOREM TypeCorrect == Spec => []TypeOK
BY Invariance, PTL DEF Inv

(***************************************************************************)
(* The uid of a run is in _retry_in_progress_run_uids as long as its timer *)
(* waits or its retry is being launched, for every number of retries.      *)
(***************************************************************************)
THEOREM RetriesDoNotOverlap == Spec => []OneRetryAtATime
BY Invariance, PTL DEF Inv

=============================================================================
