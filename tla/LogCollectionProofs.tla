------------------------ MODULE LogCollectionProofs ------------------------
(***************************************************************************)
(* Proofs about LogCollection, for any number of attempts, requests and    *)
(* crashes and any faults, and any collector that keeps its contract: the  *)
(* type invariant, which bounds the requests for a run's logs, and that a  *)
(* run that is over is never out of the reach of the passes that stop its  *)
(* collection.                                                             *)
(***************************************************************************)
EXTENDS LogCollection, TLAPS

USE CollectionAssumption

-----------------------------------------------------------------------------
(***************************************************************************)
(* The types, by part of the state.                                        *)
(***************************************************************************)

CollectorTyped ==
    /\ items \subseteq Attempts /\ saved \subseteq Attempts
    /\ carried \subseteq Attempts
    /\ stopping \subseteq {1} /\ up \in BOOLEAN
    /\ pod \in [Attempts -> Collector!Phases]

RunTyped == run \in Records /\ launching \in BOOLEAN

StarterStates ==
    [pc : {"idle", "listed", "ask", "asked", "mark"}, attempt : Attempts, bestEffort : BOOLEAN]

PassesTyped ==
    /\ api \in {"down", "startup", "verify", "up"}
    /\ counter \in 0 .. MaxRequests
    /\ starter \in StarterStates
    /\ stopper \in {"idle", "listed", "call"}
    /\ crashes \in 0 .. MaxCrashes

LEMMA TypeParts ==
    TypeOK <=> CollectorTyped /\ RunTyped /\ PassesTyped /\ lost \in BOOLEAN
BY DEF TypeOK, CollectorTyped, RunTyped, PassesTyped, StarterStates

LEMMA FirstAttempt == 1 \in Attempts /\ Attempts \subseteq Nat
BY DEF Attempts

LEMMA NoPassType ==
    /\ NoPass \in StarterStates /\ NoPass.pc = "idle"
    /\ [NoPass EXCEPT !.pc = "listed"] \in StarterStates
    /\ [NoPass EXCEPT !.pc = "listed", !.bestEffort = TRUE] \in StarterStates
BY FirstAttempt DEF NoPass, StarterStates

\* What a step may do to the record of the run.
LEMMA RecordTypes ==
    ASSUME run \in Records
    PROVE  /\ run.state \in {"running"} \cup TerminalStates /\ run.attempt \in Attempts
           /\ run.requested \in BOOLEAN /\ run.age \in {"new", "seen", "old", "expired"}
           /\ \A a \in {"new", "seen", "old", "expired"} : [run EXCEPT !.age = a] \in Records
           /\ \A s \in TerminalStates : [run EXCEPT !.state = s, !.age = "new"] \in Records
           /\ \A b \in BOOLEAN : [run EXCEPT !.requested = b, !.age = "new"] \in Records
           /\ run.attempt < MaxAttempts =>
                 [run EXCEPT !.attempt = run.attempt + 1, !.age = "new"] \in Records
<1>1. /\ run.state \in {"running"} \cup TerminalStates /\ run.attempt \in Attempts
      /\ run.requested \in BOOLEAN /\ run.age \in {"new", "seen", "old", "expired"}
  BY DEF Records
<1>2. \A a \in {"new", "seen", "old", "expired"} : [run EXCEPT !.age = a] \in Records
  BY DEF Records
<1>3. \A s \in TerminalStates : [run EXCEPT !.state = s, !.age = "new"] \in Records
  BY DEF Records
<1>4. \A b \in BOOLEAN : [run EXCEPT !.requested = b, !.age = "new"] \in Records
  BY DEF Records
<1>5. run.attempt < MaxAttempts =>
        [run EXCEPT !.attempt = run.attempt + 1, !.age = "new"] \in Records
  <2>1. run.attempt < MaxAttempts => run.attempt + 1 \in Attempts BY <1>1 DEF Attempts
  <2> QED BY <2>1 DEF Records
<1> QED BY <1>1, <1>2, <1>3, <1>4, <1>5

-----------------------------------------------------------------------------
(***************************************************************************)
(* The collector's part: a step of it is a step of the contract.           *)
(***************************************************************************)

\* The steps of the contract that the composition takes.
ContractMove ==
    \/ \E a \in Attempts :
          \/ Collector!Request(a) \/ Collector!Carry({a}) \/ Collector!Release(a)
          \/ Collector!Collect(a) \/ Collector!Complete(a) \/ Collector!PodStep(a)
    \/ Collector!StopLogs({1}) \/ Collector!Stop(1)
    \/ Collector!Save \/ Collector!Crash \/ Collector!Restart

LEMMA ContractMoves ==
    ASSUME TypeOK, [Next]_vars
    PROVE  UNCHANGED collector \/ ContractMove
<1>0. run.attempt \in Attempts /\ starter.attempt \in Attempts
  BY TypeParts, RecordTypes DEF RunTyped, PassesTyped, StarterStates
<1>1. CASE RunAborted
  <2>1. Collector!PodStep(run.attempt) BY <1>1 DEF RunAborted, Collector!PodStep
  <2> QED BY <1>0, <2>1 DEF ContractMove
<1>2. CASE \E a \in Attempts : PodMoves(a) \/ CollectorStep(a)
  BY <1>2 DEF PodMoves, CollectorStep, CollectorCollects, CollectorCompletes,
              CollectorCarries, CollectorReleases, ContractMove
<1>3. CASE SendStartLog BY <1>0, <1>3 DEF SendStartLog, ContractMove
<1>4. CASE StopStep
  BY <1>4 DEF StopStep, StopCall, StopItem, StopReturns, ContractMove
<1>5. CASE CollectorCrashes \/ CollectorRestarts \/ CollectorSaves
  BY <1>5 DEF CollectorCrashes, CollectorRestarts, CollectorSaves, ContractMove
<1>6. CASE \/ RunEnds \/ RetryStored \/ RetryConfigured \/ FallbackStores \/ RecordAges
           \/ StartPass \/ StartupPass \/ SkipOnStartup \/ GiveUp \/ CountRequest
           \/ StartLog \/ StartLogWithoutPod \/ StartLogFails \/ MarkRequested \/ StopPass
           \/ APIStops \/ APIStarts \/ StartupStop
  BY <1>6 DEF RunEnds, RetryStored, RetryConfigured, FallbackStores, RecordAges, StartPass,
    StartupPass, SkipOnStartup, GiveUp, CountRequest, StartLog, StartLogWithoutPod,
    StartLogFails, MarkRequested, StopPass, APIStops, APIStarts, StartupStop
<1>7. CASE UNCHANGED vars BY <1>7 DEF vars
<1> QED BY <1>1, <1>2, <1>3, <1>4, <1>5, <1>6, <1>7 DEF Next, AskStep

LEMMA CollectorTypes ==
    ASSUME TypeOK, [Next]_vars
    PROVE  CollectorTyped'
<1>1. CollectorTyped BY TypeParts
<1>2. CASE UNCHANGED collector BY <1>1, <1>2 DEF collector, CollectorTyped
<1>3. ASSUME NEW a \in Attempts, Collector!Collect(a) \/ Collector!Complete(a)
      PROVE  CollectorTyped'
  BY <1>1, <1>3 DEF CollectorTyped, Collector!Collect, Collector!Complete
<1>4. ASSUME NEW a \in Attempts, Collector!PodStep(a)
      PROVE  CollectorTyped'
  BY <1>1, <1>4 DEF CollectorTyped, Collector!PodStep, Collector!Phases
<1>7. ASSUME NEW a \in Attempts,
             Collector!Request(a) \/ Collector!Carry({a}) \/ Collector!Release(a)
      PROVE  CollectorTyped'
  BY <1>1, <1>7 DEF CollectorTyped, Collector!Request, Collector!Carry, Collector!Release
<1>5. CASE Collector!StopLogs({1}) BY <1>1, <1>5 DEF CollectorTyped, Collector!StopLogs
<1>6. CASE Collector!Stop(1) BY <1>1, <1>6 DEF CollectorTyped, Collector!Stop
<1>8. CASE Collector!Save BY <1>1, <1>8 DEF CollectorTyped, Collector!Save
<1>9. CASE Collector!Crash BY <1>1, <1>9 DEF CollectorTyped, Collector!Crash
<1>10. CASE Collector!Restart BY <1>1, <1>10 DEF CollectorTyped, Collector!Restart
<1> QED BY <1>2, <1>3, <1>4, <1>5, <1>6, <1>7, <1>8, <1>9, <1>10, ContractMoves
        DEF ContractMove

-----------------------------------------------------------------------------
(***************************************************************************)
(* The API's part.                                                         *)
(***************************************************************************)

LEMMA RunTypes ==
    ASSUME TypeOK, [Next]_vars
    PROVE  RunTyped'
<1>1. run \in Records /\ launching \in BOOLEAN BY TypeParts DEF RunTyped
<1>2. CASE RunEnds \/ RunAborted
  BY <1>1, <1>2, RecordTypes DEF RunEnds, RunAborted, TerminalStates, RunTyped
<1>3. CASE RetryStored BY <1>1, <1>3, RecordTypes DEF RetryStored, RunTyped
<1>4. CASE RetryConfigured BY <1>1, <1>4, RecordTypes DEF RetryConfigured, RunTyped
<1>5. CASE FallbackStores \/ MarkRequested
  BY <1>1, <1>5, RecordTypes DEF FallbackStores, MarkRequested, RunTyped
<1>6. CASE RecordAges \/ StopPass
  BY <1>1, <1>6, RecordTypes DEF RecordAges, StopPass, RunTyped
<1>7. CASE UNCHANGED <<run, launching>> BY <1>1, <1>7 DEF RunTyped
<1> QED BY <1>2, <1>3, <1>4, <1>5, <1>6, <1>7
        DEF Next, AskStep, StopStep, vars, PodMoves, CollectorStep, CollectorCollects,
            CollectorCompletes, CollectorCarries, CollectorReleases, SendStartLog,
            StartPass, StartupPass, SkipOnStartup, GiveUp, CountRequest, StartLog,
            StartLogWithoutPod, StartLogFails, StopCall, StopItem, StopReturns, APIStops,
            APIStarts, StartupStop, CollectorCrashes, CollectorRestarts, CollectorSaves

LEMMA StarterTypes ==
    ASSUME TypeOK, [Next]_vars
    PROVE  starter' \in StarterStates
<1>1. starter \in StarterStates /\ run.attempt \in Attempts
  BY TypeParts, RecordTypes DEF PassesTyped, RunTyped
<1>2. \A l \in {"idle", "listed", "ask", "asked", "mark"} :
        /\ [starter EXCEPT !.pc = l] \in StarterStates
        /\ [starter EXCEPT !.pc = l, !.attempt = run.attempt] \in StarterStates
  BY <1>1 DEF StarterStates
<1>3. CASE StartPass \/ StartupPass BY <1>3, NoPassType DEF StartPass, StartupPass
<1>4. CASE SkipOnStartup \/ GiveUp \/ CountRequest
  BY <1>2, <1>4 DEF SkipOnStartup, GiveUp, CountRequest
<1>5. CASE \/ SendStartLog \/ StartLog \/ StartLogWithoutPod \/ StartLogFails
           \/ MarkRequested \/ APIStops \/ CollectorCrashes
  BY <1>1, <1>2, <1>5, NoPassType
     DEF SendStartLog, StartLog, StartLogWithoutPod, StartLogFails, MarkRequested, APIStops,
         CollectorCrashes
<1>6. CASE starter' = starter BY <1>1, <1>6
<1> QED BY <1>3, <1>4, <1>5, <1>6
        DEF Next, AskStep, StopStep, vars, passes, RunEnds, RunAborted, RetryStored,
            RetryConfigured, FallbackStores, RecordAges, PodMoves, CollectorStep,
            CollectorCollects, CollectorCompletes, CollectorCarries, CollectorReleases,
            StopPass, StopCall, StopItem, StopReturns, APIStarts, StartupStop,
            CollectorCrashes, CollectorRestarts, CollectorSaves

LEMMA PassesTypes ==
    ASSUME TypeOK, [Next]_vars
    PROVE  PassesTyped'
<1>1. PassesTyped /\ starter' \in StarterStates BY TypeParts, StarterTypes
<1>2. CASE \/ StartPass \/ StartupPass \/ SkipOnStartup \/ GiveUp \/ CountRequest
           \/ SendStartLog \/ StartLog \/ StartLogWithoutPod \/ StartLogFails
           \/ MarkRequested
  BY <1>1, <1>2 DEF StartPass, StartupPass, SkipOnStartup, GiveUp, CountRequest,
                    SendStartLog, StartLog, StartLogWithoutPod, StartLogFails, MarkRequested, PassesTyped
<1>3. CASE \/ StopPass \/ StopCall \/ StopReturns \/ StartupStop \/ APIStops \/ APIStarts
           \/ CollectorCrashes
  BY <1>1, <1>3 DEF StopPass, StopCall, StopReturns, StartupStop, APIStops, APIStarts,
                    CollectorCrashes, Crashes, PassesTyped
<1>4. CASE UNCHANGED passes BY <1>1, <1>4 DEF passes, PassesTyped
<1> QED BY <1>2, <1>3, <1>4
        DEF Next, AskStep, StopStep, vars, passes, RunEnds, RunAborted, RetryStored,
            RetryConfigured, FallbackStores, RecordAges, PodMoves, CollectorStep,
            CollectorCollects, CollectorCompletes, CollectorCarries, CollectorReleases,
            StopItem, CollectorRestarts, CollectorSaves

LEMMA LostTypes ==
    ASSUME TypeOK, [Next]_vars
    PROVE  lost' \in BOOLEAN
<1>1. lost \in BOOLEAN BY TypeParts
<1>2. CASE \/ RunEnds \/ RunAborted \/ RetryStored \/ RetryConfigured \/ FallbackStores
           \/ MarkRequested
  BY <1>2 DEF RunEnds, RunAborted, RetryStored, RetryConfigured, FallbackStores,
              MarkRequested
<1>3. CASE StopCall \/ CollectorCrashes BY <1>1, <1>3 DEF StopCall, CollectorCrashes
<1>4. ASSUME NEW a \in Attempts, CollectorStep(a) PROVE lost' \in BOOLEAN
  BY <1>1, <1>4 DEF CollectorStep, CollectorCollects, CollectorCompletes, CollectorCarries,
                    CollectorReleases
<1>5. CASE lost' = lost BY <1>1, <1>5
<1> QED BY <1>2, <1>3, <1>4, <1>5
        DEF Next, AskStep, StopStep, vars, RecordAges, PodMoves, StartPass, StartupPass,
            SkipOnStartup, GiveUp, CountRequest, SendStartLog, StartLog,
            StartLogWithoutPod, StartLogFails, StopPass, StopItem, StopReturns, APIStops,
            APIStarts, StartupStop, CollectorRestarts, CollectorSaves

LEMMA InitTypes == Init => TypeOK
<1> SUFFICES ASSUME Init PROVE TypeOK
  OBVIOUS
<1>1. CollectorTyped BY DEF Init, Collector!Init, CollectorTyped, Collector!Phases
<1>2. RunTyped BY FirstAttempt DEF Init, RunTyped, Records, TerminalStates
<1>3. PassesTyped BY NoPassType DEF Init, PassesTyped
<1> QED BY <1>1, <1>2, <1>3, TypeParts DEF Init

LEMMA NextTypes == TypeOK /\ [Next]_vars => TypeOK'
<1> SUFFICES ASSUME TypeOK, [Next]_vars PROVE TypeOK'
  OBVIOUS
<1>1. CollectorTyped' /\ RunTyped' /\ PassesTyped' /\ lost' \in BOOLEAN
  BY CollectorTypes, RunTypes, PassesTypes, LostTypes
<1> QED BY <1>1
        DEF TypeOK, CollectorTyped, RunTyped, PassesTyped, StarterStates

\* _start_log_and_update_runs: whatever fails, crashes or is retried, the requests for the
\* logs of a run stay within max_consecutive_start_log_requests; and every variable keeps
\* its type.
THEOREM TypeCorrect == Spec => []TypeOK
BY InitTypes, NextTypes, PTL DEF Spec

-----------------------------------------------------------------------------
(***************************************************************************)
(* No run is left behind.  InReach needs one more fact: a StopLogs call    *)
(* does not outlive the collector that serves it, so that the removal of   *)
(* the item leaves nothing behind in a collector that is up.               *)
(***************************************************************************)

StopAlive == stopping # {} => up

LEMMA StopAliveStep ==
    ASSUME TypeOK, StopAlive, [Next]_vars
    PROVE  StopAlive'
<1>1. CASE UNCHANGED collector BY <1>1 DEF collector, StopAlive
<1>2. CASE ContractMove
  BY <1>2 DEF ContractMove, StopAlive, Collector!Request, Collector!Carry,
              Collector!Release, Collector!Collect, Collector!Complete, Collector!PodStep,
              Collector!StopLogs, Collector!Stop, Collector!Save, Collector!Crash,
              Collector!Restart
<1> QED BY <1>1, <1>2, ContractMoves

\* A step that leaves what the collector holds alone, or only takes from it.
LEMMA HeldBefore ==
    ASSUME TypeOK, Held',
           \/ UNCHANGED collector
           \/ \E a \in Attempts :
                 \/ Collector!Request(a) \/ Collector!Carry({a}) \/ Collector!Release(a)
                 \/ Collector!Complete(a) \/ Collector!PodStep(a)
           \/ Collector!StopLogs({1}) \/ Collector!Stop(1)
           \/ Collector!Save \/ Collector!Restart
    PROVE  Held
BY DEF Held, collector, Collector!Request, Collector!Carry, Collector!Release,
       Collector!Complete, Collector!PodStep, Collector!StopLogs, Collector!Stop,
       Collector!Save, Collector!Restart

\* What InReach speaks of, apart from the collector's items.
reach == <<run, stopper, stopping, api, lost>>

LEMMA ReachFrame ==
    ASSUME TypeOK, InReach, UNCHANGED reach, Held' => Held PROVE InReach'
BY DEF InReach, reach

\* A record that was just updated is new.
LEMMA ReachNew ==
    ASSUME run'.age = "new" PROVE InReach'
BY DEF InReach

\* The run, its pods and the monitor.
LEMMA ReachRun ==
    ASSUME TypeOK, InReach,
           \/ RunEnds \/ RunAborted \/ RetryStored \/ RetryConfigured \/ FallbackStores
           \/ RecordAges \/ \E a \in Attempts : PodMoves(a)
    PROVE  InReach'
<1>0. run \in Records BY TypeParts DEF RunTyped
<1>1. CASE \/ RunEnds \/ RunAborted \/ RetryStored \/ RetryConfigured \/ FallbackStores
  <2>1. run'.age = "new"
    BY <1>0, <1>1 DEF RunEnds, RunAborted, RetryStored, RetryConfigured, FallbackStores,
                      Records
  <2> QED BY <2>1, ReachNew
<1>2. CASE RecordAges
  <2>1. /\ run'.state = run.state /\ run'.requested = run.requested
        /\ run.age # "new" \/ api = "down"
    BY <1>0, <1>2 DEF RecordAges, Records
  <2>2. /\ UNCHANGED <<stopper, stopping, api, lost>> /\ UNCHANGED collector
    BY <1>2 DEF RecordAges, passes, collector
  <2>3. Held' => Held BY <2>2, HeldBefore
  <2> QED BY <2>1, <2>2, <2>3 DEF InReach
<1>3. ASSUME NEW a \in Attempts, PodMoves(a)
      PROVE  InReach'
  <2>1. UNCHANGED reach
    BY <1>3 DEF PodMoves, Collector!PodStep, passes, reach
  <2>2. Held' => Held BY <1>3, HeldBefore DEF PodMoves
  <2> QED BY <2>1, <2>2, ReachFrame
<1> QED BY <1>1, <1>2, <1>3

\* The collector: an item it takes on or restores is one the API has lost.
LEMMA ReachCollector ==
    ASSUME TypeOK, InReach,
           \/ \E a \in Attempts : CollectorStep(a)
           \/ CollectorCrashes \/ CollectorRestarts \/ CollectorSaves
    PROVE  InReach'
<1>1. ASSUME NEW a \in Attempts, CollectorCollects(a) PROVE InReach'
  <2>1. CASE a = 1 BY <1>1, <2>1 DEF CollectorCollects, InReach
  <2>2. CASE a # 1
    <3>1. UNCHANGED reach
      BY <1>1, <2>2, TypeParts DEF CollectorCollects, Collector!Collect, passes, reach
    <3>2. Held' => Held BY <1>1, <2>2 DEF CollectorCollects, Collector!Collect, Held
    <3> QED BY <3>1, <3>2, ReachFrame
  <2> QED BY <2>1, <2>2
<1>2. ASSUME NEW a \in Attempts,
             CollectorCompletes(a) \/ CollectorCarries(a) \/ CollectorReleases(a)
      PROVE  InReach'
  <2>1. UNCHANGED reach
    BY <1>2 DEF CollectorCompletes, CollectorCarries, CollectorReleases,
         Collector!Complete, Collector!Carry, Collector!Release, passes, reach
  <2>2. Held' => Held
    BY <1>2, HeldBefore DEF CollectorCompletes, CollectorCarries, CollectorReleases
  <2> QED BY <2>1, <2>2, ReachFrame
<1>3. CASE CollectorCrashes
  <2>1. /\ UNCHANGED <<run, api>>
        /\ stopper = "listed" => stopper' = "listed"
    BY <1>3 DEF CollectorCrashes
  <2>2. /\ Held' => 1 \in saved'
        /\ lost' = (lost \/ stopping # {} \/ 1 \in saved' \ items)
    BY <1>3 DEF CollectorCrashes, Collector!Crash, Held
  <2>3. CASE 1 \in items BY <2>1, <2>2, <2>3 DEF InReach, Held
  <2>4. CASE 1 \notin items BY <2>1, <2>2, <2>4 DEF InReach
  <2> QED BY <2>3, <2>4
<1>4. CASE CollectorRestarts \/ CollectorSaves
  <2>1. UNCHANGED reach
    BY <1>4 DEF CollectorRestarts, CollectorSaves, Collector!Restart, Collector!Save,
                passes, reach
  <2>2. Held' => Held BY <1>4, HeldBefore DEF CollectorRestarts, CollectorSaves
  <2> QED BY <2>1, <2>2, ReachFrame
<1> QED BY <1>1, <1>2, <1>3, <1>4 DEF CollectorStep

\* The pass that requests logs: it renews the record of a run it marks.
LEMMA ReachStart ==
    ASSUME TypeOK, InReach,
           \/ StartPass \/ StartupPass \/ SkipOnStartup \/ AskStep \/ StartLogFails
    PROVE  InReach'
<1>0. run \in Records /\ starter.attempt \in Attempts
  BY TypeParts DEF RunTyped, PassesTyped, StarterStates
<1>1. CASE \/ StartPass \/ SkipOnStartup \/ GiveUp \/ CountRequest \/ StartLog
           \/ StartLogWithoutPod \/ StartLogFails
  <2>1. UNCHANGED reach /\ UNCHANGED collector
    BY <1>1 DEF StartPass, SkipOnStartup, GiveUp, CountRequest, StartLog,
                StartLogWithoutPod, StartLogFails, reach, collector
  <2>2. Held' => Held BY <2>1, HeldBefore
  <2> QED BY <2>1, <2>2, ReachFrame
<1>2. CASE StartupPass BY <1>2 DEF StartupPass, InReach
<1>3. CASE SendStartLog
  <2>1. UNCHANGED reach BY <1>3 DEF SendStartLog, Collector!Request, reach
  <2>2. Held' => Held BY <1>0, <1>3, HeldBefore DEF SendStartLog
  <2> QED BY <2>1, <2>2, ReachFrame
<1>4. CASE MarkRequested
  <2>1. run'.age = "new" BY <1>0, <1>4 DEF MarkRequested, Records
  <2> QED BY <2>1, ReachNew
<1> QED BY <1>1, <1>2, <1>3, <1>4 DEF AskStep

\* The pass that stops logs: it has the item removed, or has lost it.
LEMMA ReachStop ==
    ASSUME TypeOK, StopAlive, InReach, StopPass \/ StopStep
    PROVE  InReach'
<1>1. CASE StopPass BY <1>1 DEF StopPass, InReach
<1>2. CASE StopCall
  <2>1. CASE Collector!StopLogs({1}) BY <2>1 DEF Collector!StopLogs, InReach
  <2>2. CASE lost' = TRUE BY <2>2 DEF InReach
  <2> QED BY <1>2, <2>1, <2>2 DEF StopCall
<1>3. CASE StopItem
  <2>1. ~Held' BY <1>3 DEF StopItem, Collector!Stop, StopAlive, Held
  <2> QED BY <2>1 DEF InReach
<1>4. CASE StopReturns
  <2>1. UNCHANGED <<run, api, stopping, lost>> /\ UNCHANGED collector
    BY <1>4 DEF StopReturns, collector
  <2>2. Held' => Held BY <2>1, HeldBefore
  <2> QED BY <1>4, <2>1, <2>2 DEF StopReturns, InReach
<1> QED BY <1>1, <1>2, <1>3, <1>4 DEF StopStep

\* The API's process: once restarted it looks for every run that is over.
LEMMA ReachProcesses ==
    ASSUME TypeOK, InReach, APIStops \/ APIStarts \/ StartupStop
    PROVE  InReach'
<1>1. CASE APIStops \/ APIStarts BY <1>1 DEF APIStops, APIStarts, InReach
<1>2. CASE StartupStop
  <2>1. UNCHANGED run /\ UNCHANGED collector BY <1>2 DEF StartupStop
  <2>2. Held' => Held BY <2>1, HeldBefore
  <2>3. run.state \in TerminalStates /\ run.requested /\ Held => stopper' = "listed"
    BY <1>2 DEF StartupStop, Held
  <2> QED BY <2>1, <2>2, <2>3 DEF InReach
<1> QED BY <1>1, <1>2

LEMMA ReachStep == TypeOK /\ StopAlive /\ InReach /\ [Next]_vars => InReach'
<1> SUFFICES ASSUME TypeOK, StopAlive, InReach, [Next]_vars PROVE InReach'
  OBVIOUS
<1>1. CASE UNCHANGED vars
  <2>1. UNCHANGED reach /\ UNCHANGED collector BY <1>1 DEF vars, reach, collector
  <2>2. Held' => Held BY <2>1, HeldBefore
  <2> QED BY <2>1, <2>2, ReachFrame
<1> QED BY <1>1, ReachRun, ReachCollector, ReachStart, ReachStop, ReachProcesses DEF Next

\* The passes of the API: the item of a run that is over stays in the reach of a pass or
\* of the next startup, whatever is retried, given up, restarted or answered late, for any
\* number of attempts, requests and crashes, and for any collector that keeps its contract.
THEOREM NothingLeftBehind == Spec => []InReach
<1>1. Init => StopAlive /\ InReach
  BY DEF Init, Collector!Init, StopAlive, InReach, Held
<1>2. TypeOK /\ StopAlive /\ [Next]_vars => StopAlive' BY StopAliveStep
<1> QED BY <1>1, <1>2, ReachStep, TypeCorrect, PTL DEF Spec

=============================================================================
