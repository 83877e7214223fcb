--------------------------- MODULE LogCollection ---------------------------
(***************************************************************************)
(* How the API has the logs of a run collected (services/api/main.py): the *)
(* loop that requests the collection of runs, the loop that stops it, what *)
(* both do on startup, and the requested_logs flag of the run's record     *)
(* (framework/db/sqldb/db.py), which the launcher clears for a retry       *)
(* (launcher.py).  The log collector is the one CollectorContract          *)
(* specifies, with everything it may do on its own: its handlers outlive   *)
(* the requests of an API that died, and its monitoring loop and streaming *)
(* goroutines may take a run on again, also after it was stopped.          *)
(*                                                                         *)
(* One run is modelled, of a kind whose logs are collected.  Its attempts  *)
(* are collected under uids of their own: uid for attempt 1, and           *)
(* uid-attempt-N for a retry.                                              *)
(***************************************************************************)
EXTENDS Naturals, FiniteSets

CONSTANTS
    MaxAttempts,    \* 1 + spec.retry.count
    MaxRequests,    \* max_consecutive_start_log_requests
    MaxCrashes,     \* bound: crashes of the API and of the collector
    Faults          \* "start", "stop": calls whose answer is lost

ASSUME CollectionAssumption ==
    /\ MaxAttempts \in Nat \ {0}
    /\ MaxRequests \in Nat
    /\ MaxCrashes \in Nat

VARIABLES
    items, saved, carried, stopping, up, pod,   \* the collector
    run,        \* the record in the database
    launching,  \* a retry is stored, but its flag is not cleared yet
    api,        \* the API: "down", "startup" or "up"
    counter,    \* _run_uid_start_log_request_counters
    starter,    \* the pass that requests logs
    stopper,    \* the pass that stops logs
    crashes,    \* crashes so far
    lost        \* history: since the last update of the record, the collector has
                \* taken the first attempt on or restored it, or a stop has failed

collector == <<items, saved, carried, stopping, up, pod>>
vars == <<collector, run, launching, api, counter, starter, stopper, crashes,
          lost>>

-----------------------------------------------------------------------------

Attempts == 1 .. MaxAttempts

Collector == INSTANCE CollectorContract WITH Runs <- Attempts

TerminalStates == {"ended", "aborted"}

(***************************************************************************)
(* "running" is every non-terminal state, "ended" completed or error.  A   *)
(* record is "new" until a stop pass has listed it since its last update,  *)
(* "seen" while it may still be in the window of that pass, "old" when it  *)
(* is out of it, and "expired" when it is out of the longer window of the  *)
(* start pass too, which takes an API that is down.                        *)
(***************************************************************************)
Records ==
    [state : {"running"} \cup TerminalStates, attempt : Attempts,
     requested : BOOLEAN, age : {"new", "seen", "old", "expired"}]

NoPass == [pc |-> "idle", attempt |-> 1, bestEffort |-> FALSE]

TypeOK ==
    /\ items \subseteq Attempts /\ saved \subseteq Attempts
    /\ carried \subseteq Attempts
    /\ stopping \subseteq {1} /\ up \in BOOLEAN
    /\ pod \in [Attempts -> Collector!Phases]
    /\ run \in Records
    /\ launching \in BOOLEAN
    /\ api \in {"down", "startup", "verify", "up"}
    /\ counter \in 0 .. MaxRequests
    /\ starter \in [pc : {"idle", "listed", "ask", "asked", "mark"},
                    attempt : Attempts, bestEffort : BOOLEAN]
    /\ stopper \in {"idle", "listed", "call"}
    /\ crashes \in 0 .. MaxCrashes
    /\ lost \in BOOLEAN

Init ==
    /\ Collector!Init
    /\ run = [state |-> "running", attempt |-> 1, requested |-> FALSE,
              age |-> "new"]
    /\ launching = FALSE
    /\ api = "up"
    /\ counter = 0
    /\ starter = NoPass
    /\ stopper = "idle"
    /\ crashes = 0
    /\ lost = FALSE

passes == <<api, counter, starter, stopper, crashes>>

-----------------------------------------------------------------------------
(***************************************************************************)
(* The run (external to the loops).                                        *)
(***************************************************************************)

RunEnds ==
    /\ run.state = "running"
    /\ ~launching
    /\ pod[run.attempt] # "Running"
    /\ run' = [run EXCEPT !.state = "ended", !.age = "new"]
    /\ lost' = FALSE
    /\ UNCHANGED <<collector, launching, passes>>

\* abort_run: the pods are deleted, and the run is marked.
RunAborted ==
    /\ run.state = "running"
    /\ ~launching
    /\ run' = [run EXCEPT !.state = "aborted", !.age = "new"]
    /\ pod' = [pod EXCEPT ![run.attempt] = "Gone"]
    /\ lost' = FALSE
    /\ UNCHANGED <<items, saved, carried, stopping, up, launching, passes>>

\* The launcher stores the run with its next retry_count,
RetryStored ==
    /\ run.state = "running"
    /\ ~launching
    /\ run.attempt < MaxAttempts
    /\ pod[run.attempt] \in {"Done", "Gone"}
    /\ run' = [run EXCEPT !.attempt = @ + 1, !.age = "new"]
    /\ launching' = TRUE
    /\ lost' = FALSE
    /\ UNCHANGED <<collector, passes>>

\* and clears the flag (_configure_attempt_for_logging).
RetryConfigured ==
    /\ launching
    /\ run' = [run EXCEPT !.requested = FALSE, !.age = "new"]
    /\ launching' = FALSE
    /\ lost' = FALSE
    /\ UNCHANGED <<collector, passes>>

\* A pod of an attempt that has been launched.
PodMoves(a) ==
    /\ a < run.attempt \/ (a = run.attempt /\ ~launching)
    /\ pod[a] # "Gone"
    /\ Collector!PodStep(a)
    /\ UNCHANGED <<run, launching, passes, lost>>

(***************************************************************************)
(* _ensure_run_logs_collected: the monitor stores the logs of a run that   *)
(* has ended itself when there is no file for it, which may be so although *)
(* the collector has taken the run on, if it wrote nothing yet.            *)
(***************************************************************************)
FallbackStores ==
    /\ api = "up"
    /\ run.state = "ended"
    /\ pod[run.attempt] = "Done"
    /\ run' = [run EXCEPT !.requested = TRUE, !.age = "new"]
    /\ lost' = FALSE
    /\ UNCHANGED <<collector, launching, passes>>

(***************************************************************************)
(* A record ages.  While the API is up a stop pass lists it first, as its  *)
(* window is half an interval longer than the time between two passes.     *)
(***************************************************************************)
RecordAges ==
    /\ \/ run.age = "seen" /\ run' = [run EXCEPT !.age = "old"]
       \/ api = "down" /\ run.age # "expired"
          /\ run' = [run EXCEPT !.age = "expired"]
    /\ UNCHANGED <<collector, launching, passes, lost>>

-----------------------------------------------------------------------------
(***************************************************************************)
(* The pass that requests logs.                                            *)
(***************************************************************************)

\* _list_runs_uids_to_collect_logs
RequiresLogs ==
    /\ ~run.requested
    /\ \/ run.state = "running"
       \/ run.state = "ended" /\ run.age # "expired"

\* _initiate_logs_collection
StartPass ==
    /\ api = "up"
    /\ starter.pc = "idle"
    /\ RequiresLogs
    /\ starter' = [NoPass EXCEPT !.pc = "listed"]
    /\ UNCHANGED <<collector, run, launching, api, counter, stopper, crashes,
                   lost>>

\* _verify_log_collection_started_on_startup, once and as best effort.
StartupPass ==
    /\ api = "startup" /\ api' = "verify"
    /\ starter' = IF RequiresLogs
                  THEN [NoPass EXCEPT !.pc = "listed", !.bestEffort = TRUE]
                  ELSE NoPass
    /\ UNCHANGED <<collector, run, launching, counter, stopper, crashes, lost>>

\* On startup the runs beyond start_logs_startup_run_limit are only marked.
SkipOnStartup ==
    /\ starter.pc = "listed"
    /\ starter.bestEffort
    /\ starter' = [starter EXCEPT !.pc = "mark", !.attempt = run.attempt]
    /\ UNCHANGED <<collector, run, launching, api, counter, stopper, crashes, lost>>

(***************************************************************************)
(* _start_log_and_update_runs reads the run.  One that was asked for too   *)
(* often is given up; otherwise the request is counted and sent.           *)
(***************************************************************************)
GiveUp ==
    /\ starter.pc = "listed"
    /\ counter >= MaxRequests
    /\ starter' = [starter EXCEPT !.pc = "mark", !.attempt = run.attempt]
    /\ UNCHANGED <<collector, run, launching, api, counter, stopper, crashes, lost>>

\* Mutant of CountRequest: the threshold is not looked at.
CountRequestUnbounded ==
    /\ starter.pc = "listed"
    /\ counter' = counter + 1
    /\ starter' = [starter EXCEPT !.pc = "ask", !.attempt = run.attempt]
    /\ UNCHANGED <<collector, run, launching, api, stopper, crashes, lost>>

\* Mutant of CountRequest: the request is not counted.
CountRequestUncounted ==
    /\ starter.pc = "listed"
    /\ counter < MaxRequests
    /\ starter' = [starter EXCEPT !.pc = "ask", !.attempt = run.attempt]
    /\ UNCHANGED <<collector, run, launching, api, counter, stopper, crashes,
                   lost>>

CountRequest ==
    /\ starter.pc = "listed"
    /\ counter < MaxRequests
    /\ counter' = counter + 1
    /\ starter' = [starter EXCEPT !.pc = "ask", !.attempt = run.attempt]
    /\ UNCHANGED <<collector, run, launching, api, stopper, crashes, lost>>

\* The request reaches the collector,
SendStartLog ==
    /\ starter.pc = "ask"
    /\ Collector!Request(starter.attempt)
    /\ starter' = [starter EXCEPT !.pc = "asked"]
    /\ UNCHANGED <<run, launching, api, counter, stopper, crashes, lost>>

(***************************************************************************)
(* which answers with a success when it has found a pod, or when it takes  *)
(* the run for one that it collects already.  Whether it has the item is   *)
(* another question: it may have completed or lost it since.               *)
(***************************************************************************)
StartLog ==
    /\ starter.pc = "asked"
    /\ pod[starter.attempt] # "Pending"
    /\ starter' = [starter EXCEPT !.pc = "mark"]
    /\ UNCHANGED <<collector, run, launching, api, counter, stopper, crashes, lost>>

\* There is no pod that has left Pending, which a best effort accepts.
StartLogWithoutPod ==
    /\ starter.pc = "asked"
    /\ pod[starter.attempt] \in {"Pending", "Gone"}
    /\ starter' = IF starter.bestEffort THEN [starter EXCEPT !.pc = "mark"]
                  ELSE NoPass
    /\ UNCHANGED <<collector, run, launching, api, counter, stopper, crashes, lost>>

\* The call fails, although the collector may go on with it.
StartLogFails ==
    /\ \/ starter.pc = "ask" /\ ~up
       \/ starter.pc \in {"ask", "asked"} /\ "start" \in Faults
    /\ starter' = NoPass
    /\ UNCHANGED <<collector, run, launching, api, counter, stopper, crashes, lost>>

\* Mutant of MarkRequested: the time of the record's update stays.
MarkRequestedKeepsAge ==
    /\ starter.pc = "mark"
    /\ run' = [run EXCEPT !.requested = TRUE]
    /\ counter' = 0
    /\ starter' = NoPass
    /\ lost' = FALSE
    /\ UNCHANGED <<collector, launching, api, stopper, crashes>>

\* update_runs_requested_logs, whatever the attempt of the run is by now.
MarkRequested ==
    /\ starter.pc = "mark"
    /\ run' = [run EXCEPT !.requested = TRUE, !.age = "new"]
    /\ counter' = 0
    /\ starter' = NoPass
    /\ lost' = FALSE
    /\ UNCHANGED <<collector, launching, api, stopper, crashes>>

-----------------------------------------------------------------------------
(***************************************************************************)
(* The pass that stops logs: the runs are stopped under their plain uid.   *)
(***************************************************************************)

\* _stop_logs
StopPass ==
    /\ api = "up"
    /\ stopper = "idle"
    /\ run.state \in TerminalStates
    /\ run.requested
    /\ run.age \in {"new", "seen"}
    /\ run' = [run EXCEPT !.age = "seen"]
    /\ stopper' = "listed"
    /\ UNCHANGED <<collector, launching, api, counter, starter, crashes, lost>>

\* _stop_logs_for_runs; an error is ignored.
StopCall ==
    /\ stopper = "listed"
    /\ \/ /\ Collector!StopLogs({1})
          /\ stopper' = "call"
          /\ UNCHANGED lost
       \/ /\ "stop" \in Faults \/ ~up
          /\ stopper' = "idle"
          /\ lost' = TRUE
          /\ UNCHANGED collector
    /\ UNCHANGED <<run, launching, api, counter, starter, crashes>>

\* The collector removes the item, and then answers.
StopItem ==
    /\ Collector!Stop(1)
    /\ UNCHANGED <<run, launching, passes, lost>>

StopReturns ==
    /\ stopper = "call"
    /\ stopping = {}
    /\ stopper' = "idle"
    /\ UNCHANGED <<collector, run, launching, api, counter, starter, crashes, lost>>

-----------------------------------------------------------------------------
(***************************************************************************)
(* The processes.                                                          *)
(***************************************************************************)

Crashes ==
    /\ crashes < MaxCrashes
    /\ crashes' = crashes + 1

\* The passes and the counters are in memory only.
APIStops ==
    /\ api # "down" /\ api' = "down"
    /\ Crashes
    /\ counter' = 0 /\ starter' = NoPass /\ stopper' = "idle"
    /\ UNCHANGED <<collector, run, launching, lost>>

APIStarts ==
    /\ api = "down" /\ api' = "startup"
    /\ UNCHANGED <<collector, run, launching, counter, starter, stopper,
                   crashes, lost>>

\* Mutant of StartupStop: only runs in the window of the stop pass.
StartupStopRecent ==
    /\ api = "verify" /\ api' = "up"
    /\ starter.pc = "idle"
    /\ stopper' = IF (1 \in items \/ ~up) /\ run.requested
                     /\ run.state \in TerminalStates
                     /\ run.age \in {"new", "seen"}
                  THEN "listed" ELSE "idle"
    /\ UNCHANGED <<collector, run, launching, counter, starter, crashes, lost>>

(***************************************************************************)
(* _verify_log_collection_stopped_on_startup: a run that is in progress in *)
(* the collector, or any when they cannot be listed, is stopped if it is   *)
(* over and requested, whatever its age.                                   *)
(***************************************************************************)
StartupStop ==
    /\ api = "verify" /\ api' = "up"
    /\ starter.pc = "idle"
    /\ stopper' = IF (1 \in items \/ ~up) /\ run.requested
                     /\ run.state \in TerminalStates
                  THEN "listed" ELSE "idle"
    /\ UNCHANGED <<collector, run, launching, counter, starter, crashes, lost>>

(***************************************************************************)
(* The collector on its own.  A crash fails the calls it does not live to  *)
(* answer, and brings back what it has persisted.                          *)
(***************************************************************************)
CollectorCrashes ==
    /\ Collector!Crash
    /\ Crashes
    /\ starter' = IF starter.pc = "asked" THEN NoPass ELSE starter
    /\ stopper' = IF stopper = "call" THEN "idle" ELSE stopper
    /\ lost' = (lost \/ stopping # {} \/ 1 \in saved' \ items)
    /\ UNCHANGED <<run, launching, api, counter>>

CollectorRestarts ==
    /\ Collector!Restart
    /\ UNCHANGED <<run, launching, passes, lost>>

CollectorSaves ==
    /\ saved # items
    /\ Collector!Save
    /\ UNCHANGED <<run, launching, passes, lost>>

CollectorCompletes(a) ==
    /\ Collector!Complete(a)
    /\ UNCHANGED <<run, launching, passes, lost>>

\* A handler takes a run on, or the loop or a goroutine does so again.
CollectorCollects(a) ==
    /\ a \notin items
    /\ Collector!Collect(a)
    /\ lost' = (lost \/ a = 1)
    /\ UNCHANGED <<run, launching, passes>>

CollectorCarries(a) ==
    /\ a \notin carried
    /\ Collector!Carry({a})
    /\ UNCHANGED <<run, launching, passes, lost>>

CollectorReleases(a) ==
    /\ a \in carried
    /\ Collector!Release(a)
    /\ UNCHANGED <<run, launching, passes, lost>>

CollectorStep(a) ==
    \/ CollectorCollects(a) \/ CollectorCompletes(a)
    \/ CollectorCarries(a) \/ CollectorReleases(a)

-----------------------------------------------------------------------------

AskStep ==
    \/ GiveUp \/ CountRequest
    \/ SendStartLog \/ StartLog \/ StartLogWithoutPod
    \/ MarkRequested

StopStep == StopCall \/ StopItem \/ StopReturns

Next ==
    \/ RunEnds \/ RunAborted \/ RetryStored \/ RetryConfigured
    \/ \E a \in Attempts : PodMoves(a) \/ CollectorStep(a)
    \/ FallbackStores
    \/ RecordAges
    \/ StartPass \/ StartupPass \/ SkipOnStartup \/ AskStep \/ StartLogFails
    \/ StopPass \/ StopStep
    \/ APIStops \/ APIStarts \/ StartupStop
    \/ CollectorCrashes \/ CollectorRestarts \/ CollectorSaves

(***************************************************************************)
(* The periodic functions run again and again and finish what they began;  *)
(* a process that has died is restarted.  Nothing is assumed of the run,   *)
(* its pods, or of the collector taking on or completing a run.            *)
(***************************************************************************)
Fairness ==
    /\ WF_vars(StartPass) /\ WF_vars(AskStep \/ StartLogFails)
    /\ WF_vars(StopPass) /\ WF_vars(StopStep)
    /\ WF_vars(APIStarts) /\ WF_vars(StartupPass) /\ WF_vars(StartupStop)
    /\ WF_vars(CollectorRestarts)

Spec == Init /\ [][Next]_vars /\ Fairness

-----------------------------------------------------------------------------

\* The collector has the first attempt, or will have it when it is back.
Held == 1 \in items \/ (~up /\ 1 \in saved)

(***************************************************************************)
(* A run that is over, marked as requested, and that the collector still   *)
(* has, is never out of sight: the next stop pass lists its record, a stop *)
(* of it is under way, or the API is yet to look for it on startup.  A     *)
(* window that closes before a pass has listed the record, a late mark     *)
(* that leaves the record as it is, or a startup that looks at recent runs *)
(* only would leave the run behind.  Excepted is what the code ignores or  *)
(* cannot see since the record's last update (lost): a failed stop, and a  *)
(* collector that takes the run on again, because a late handler, its loop *)
(* or a goroutine overtook the stop, or a crash undid it.                  *)
(***************************************************************************)
InReach ==
    run.state \in TerminalStates /\ run.requested /\ Held =>
        \/ run.age = "new"
        \/ stopper = "listed"
        \/ stopping # {}
        \/ api # "up"
        \/ lost

(***************************************************************************)
(* The API does not "get stuck in an endless loop of trying to collect     *)
(* logs": whatever fails, a run is marked as requested in the end, unless  *)
(* it is aborted or ages while the API is down.                            *)
(***************************************************************************)
AskingEnds ==
    run.state # "aborted" ~>
        run.requested \/ run.state = "aborted" \/ run.age = "expired"

(***************************************************************************)
(* "so that the log collector won't keep trying to collect logs for runs   *)
(* that are already in terminal state": the item of a first attempt leaves *)
(* the collector once the run is over and marked as requested, even when   *)
(* its pod was deleted and the collector cannot tell, wherever in its      *)
(* passes the API crashes.  Excepted is what InReach excepts.              *)
(***************************************************************************)
CollectionEnds ==
    run.state \in TerminalStates /\ run.requested ~> 1 \notin items \/ lost

=============================================================================
