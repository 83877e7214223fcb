---------------------------- MODULE LogCollector ----------------------------
(***************************************************************************)
(* The chief log collector                                                 *)
(* (server/go/services/logcollector/server.go and its state stores).  It   *)
(* copies the logs of run pods to files.  Three kinds of goroutines share  *)
(* two stores without a lock around them:                                  *)
(*                                                                         *)
(*   - a StartLog handler per request of the API, and one per item that    *)
(*     the monitoring loop finds in the manifest but not in currentState;  *)
(*   - the streaming goroutines StartLog spawns (startLogStreaming);       *)
(*   - StopLogs handlers, and the loop that writes the state file.         *)
(*                                                                         *)
(* A pod writes numbered chunks.  Time is counted in the chunks the run's  *)
(* pod has written: "now" for run r is emitted[r], and chunk i is written  *)
(* at time i.  What is kept of a log file is which chunks it holds.  One   *)
(* project is modelled.  Adding and removing an item is atomic here, and   *)
(* so is what the map of the project's items undergoes (StateStore looks   *)
(* inside); the update of a log time loads an item and stores it later.    *)
(***************************************************************************)
EXTENDS Naturals, FiniteSets

CONSTANTS
    Runs,          \* run UIDs, all of one project
    Streamers,     \* streaming goroutines: a bound on those alive together
    NoRun,         \* the run of a streamer that does not exist
    NoWrite,       \* no state file write under way
    MaxChunks,     \* bound: chunks a pod writes
    LogTimeUpdateInterval, \* logTimeUpdateBytesInterval, in chunks
    Faults         \* which faults of the environment can happen

ASSUME NoRunAssumption == NoRun \notin Runs
ASSUME BoundsAssumption ==
    MaxChunks \in Nat /\ LogTimeUpdateInterval \in Nat \ {0}

VARIABLES
    server,        \* the process: "down", "init" (Initialize) or "up"
    manifest,      \* stateManifest: runs whose logs should be collected
    lastLogTime,   \* LastLogTime of the manifest items
    currentState,  \* currentState: runs being collected, in memory
    stateFile,     \* what state.json holds: runs, and their times
    writing,       \* the encoded state while the file is being rewritten
    call,          \* StartLog handlers, by caller and run
    streamer,      \* streaming goroutines
    stop,          \* the StopLogs handler
    pod,           \* phase of each run's pod
    emitted,       \* chunks each pod has written so far
    collected,     \* chunks in each run's log file
    stopped        \* history: runs stopped while nobody had their items

stores == <<manifest, lastLogTime, currentState>>
disk == <<stateFile, writing>>
pods == <<pod, emitted>>
vars == <<server, stores, disk, call, streamer, stop, pods, collected, stopped>>

-----------------------------------------------------------------------------

Callers == {"api", "monitor"}

Times == 0..MaxChunks

NoCall == [pc |-> "idle", since |-> 0]

\* The monitoring loop has listed the item, or is about to call StartLog for it.
Calls ==
    [pc : {"idle", "listed", "begin", "find", "found", "track"}, since : Times]

(***************************************************************************)
(* first is the first chunk of the stream and next the one it delivers     *)
(* next, since the goroutine's copy of lastLogTime, unsaved the chunks     *)
(* since the last UpdateLastLogTime.  In "save" and "resave" it has loaded *)
(* the item and not stored it yet, while it streams or as it ends.         *)
(***************************************************************************)
StreamerPCs ==
    {"none", "open", "read", "save", "check", "finish", "exit", "resave", "untrack"}

StreamerState(r, location, first, next, since, unsaved) ==
    [run |-> r, pc |-> location, first |-> first, next |-> next, since |-> since,
     unsaved |-> unsaved]

NewStreamer(r, location, time) == StreamerState(r, location, 1, 1, time, 0)

NoStreamer == NewStreamer(NoRun, "none", 0)

StreamerStates ==
    [run : Runs \cup {NoRun}, pc : StreamerPCs, first : 1..MaxChunks + 1,
     next : 1..MaxChunks + 1, since : Times, unsaved : 0..LogTimeUpdateInterval - 1]

NoStop == [todo |-> {}, half |-> {}]

FileStates == [items : SUBSET Runs, times : [Runs -> Times]]

ASSUME NoWriteAssumption == NoWrite \notin FileStates

EmptyStateFile == [items |-> {}, times |-> [r \in Runs |-> 0]]

Phases == {"Pending", "Running", "Done", "Gone"}

Updating(s) == streamer[s].pc \in {"save", "resave"}

(***************************************************************************)
(* Somebody has been asked for a run or has its item at hand, and may put  *)
(* it (back) into the manifest: a StartLog handler, an iteration of the    *)
(* monitoring loop, or a goroutine between the two halves of an update.    *)
(***************************************************************************)
Carried(r) ==
    \/ \E c \in Callers : call[c][r].pc # "idle"
    \/ \E s \in Streamers : Updating(s) /\ streamer[s].run = r

(***************************************************************************)
(* A stop is undisturbed when, besides, nobody is about to store the map   *)
(* of the project's items, as additions and updates of other runs do.      *)
(***************************************************************************)
Undisturbed(r) ==
    /\ ~Carried(r)
    /\ \A s \in Streamers : ~Updating(s)
    /\ \A c \in Callers, q \in Runs : call[c][q].pc # "found"

Init ==
    /\ server = "up"
    /\ manifest = {} /\ lastLogTime = [r \in Runs |-> 0]
    /\ currentState = {}
    /\ stateFile = EmptyStateFile /\ writing = NoWrite
    /\ call = [c \in Callers |-> [r \in Runs |-> NoCall]]
    /\ streamer = [s \in Streamers |-> NoStreamer]
    /\ stop = NoStop
    /\ pod = [r \in Runs |-> "Pending"] /\ emitted = [r \in Runs |-> 0]
    /\ collected = [r \in Runs |-> {}]
    /\ stopped = {}

\* RemoveLogItem and RemoveProject of the manifest: the items R and their times.
RemoveItems(R) ==
    /\ manifest' = manifest \ R
    /\ lastLogTime' = [r \in Runs |-> IF r \in R THEN 0 ELSE lastLogTime[r]]

\* The second half of UpdateLastLogTime: the item is stored, with its new time.
UpdateLastLogTime(r, time) ==
    /\ manifest' = manifest \cup {r}
    /\ lastLogTime' = [lastLogTime EXCEPT ![r] = time]

-----------------------------------------------------------------------------
(***************************************************************************)
(* StartLog.  The API sends a request for a run that has started, with     *)
(* LastLogTime 0; the monitoring loop calls it with the item's time.       *)
(***************************************************************************)

\* Mutant of StartLog: the idempotence check looks into the manifest.
StartLogAsksManifest(c, r) ==
    /\ call' = [call EXCEPT ![c][r] =
                  IF r \in manifest THEN NoCall
                  ELSE [pc |-> "find", since |-> call[c][r].since]]
    /\ UNCHANGED <<server, stores, disk, streamer, stop, pods, collected>>

\* The request is a success at once when currentState has the run.
StartLog(c, r) ==
    /\ call' = [call EXCEPT ![c][r] =
                  IF r \in currentState THEN NoCall
                  ELSE [pc |-> "find", since |-> call[c][r].since]]
    /\ UNCHANGED <<server, stores, disk, streamer, stop, pods, collected>>

APIStartLog(r) ==
    /\ server = "up"
    /\ call["api"][r].pc = "idle"
    /\ StartLog("api", r)
    /\ stopped' = stopped \ {r}

(***************************************************************************)
(* One iteration of the loop: it waits for the calls of the last one, goes *)
(* over the items of the manifest, and calls StartLog for those that       *)
(* isLogCollectionRunning does not find in currentState.                   *)
(***************************************************************************)
MonitorTick ==
    /\ server = "up"
    /\ \A r \in Runs : call["monitor"][r].pc = "idle"
    /\ manifest # {}
    /\ call' = [call EXCEPT !["monitor"] =
                  [r \in Runs |-> IF r \in manifest
                                  THEN [pc |-> "listed", since |-> lastLogTime[r]]
                                  ELSE NoCall]]
    /\ UNCHANGED <<server, stores, disk, streamer, stop, pods, collected, stopped>>

MonitorCheck(r) ==
    /\ call["monitor"][r].pc = "listed"
    /\ call' = [call EXCEPT !["monitor"][r] =
                  IF r \in currentState THEN NoCall
                  ELSE [pc |-> "begin", since |-> call["monitor"][r].since]]
    /\ UNCHANGED <<server, stores, disk, streamer, stop, pods, collected, stopped>>

MonitorStartLog(r) ==
    /\ call["monitor"][r].pc = "begin"
    /\ StartLog("monitor", r)
    /\ UNCHANGED stopped

(***************************************************************************)
(* The pod search is over without a pod that has left Pending: an error,   *)
(* or a success that changes nothing when the request is best-effort.  The *)
(* list call itself can fail throughout the search, and so can the         *)
(* creation of the log file before it.                                     *)
(***************************************************************************)
FindPodFails(c, r) ==
    /\ call[c][r].pc = "find"
    /\ pod[r] \in {"Pending", "Gone"} \/ "list" \in Faults
    /\ call' = [call EXCEPT ![c][r] = NoCall]
    /\ UNCHANGED <<server, stores, disk, streamer, stop, pods, collected, stopped>>

\* Mutant of FindPod: a pod that is pending is good enough.
FindPodPending(c, r) ==
    /\ call[c][r].pc = "find"
    /\ pod[r] # "Gone"
    /\ call' = [call EXCEPT ![c][r] = [pc |-> "found", since |-> call[c][r].since]]
    /\ UNCHANGED <<server, stores, disk, streamer, stop, pods, collected, stopped>>

FindPod(c, r) ==
    /\ call[c][r].pc = "find"
    /\ pod[r] \notin {"Pending", "Gone"}
    /\ call' = [call EXCEPT ![c][r] = [pc |-> "found", since |-> call[c][r].since]]
    /\ UNCHANGED <<server, stores, disk, streamer, stop, pods, collected, stopped>>

(***************************************************************************)
(* With a pod at hand the run is added to the manifest, which sets its     *)
(* LastLogTime to 0, and a streaming goroutine is spawned; the handler     *)
(* goes on when the goroutine signals that it has started.  Nothing can    *)
(* tell the item's addition from the goroutine's first step.               *)
(***************************************************************************)
StartStreaming(c, r, s) ==
    /\ call[c][r].pc = "found"
    /\ streamer[s].pc = "none"
    /\ manifest' = manifest \cup {r}
    /\ lastLogTime' = [lastLogTime EXCEPT ![r] = 0]
    /\ streamer' = [streamer EXCEPT ![s] =
                      NewStreamer(r, "open", call[c][r].since)]
    /\ call' = [call EXCEPT ![c][r] = [pc |-> "track", since |-> 0]]
    /\ UNCHANGED <<server, currentState, disk, stop, pods, collected, stopped>>

\* The handler adds the run to currentState and returns success.
Track(c, r) ==
    /\ call[c][r].pc = "track"
    /\ currentState' = currentState \cup {r}
    /\ call' = [call EXCEPT ![c][r] = NoCall]
    /\ UNCHANGED <<server, manifest, lastLogTime, disk, streamer, stop, pods, collected,
                   stopped>>

-----------------------------------------------------------------------------
(***************************************************************************)
(* startLogStreaming and streamPodLogs.  Whenever the goroutine returns,   *)
(* its deferred function updates the item's LastLogTime and removes the    *)
(* run from currentState.                                                  *)
(***************************************************************************)

Now(s) == emitted[streamer[s].run]

\* The goroutine returns; only its run and its log time are used from here on.
BailOut(s, time) ==
    streamer' = [streamer EXCEPT ![s] = NewStreamer(streamer[s].run, "exit", time)]

(***************************************************************************)
(* The pod's log, from the start or since the last log time: a chunk       *)
(* written at that very time may be delivered again, as the clock of the   *)
(* request is coarser than the log's.                                      *)
(***************************************************************************)
FirstChunks(since) == IF since = 0 THEN {1} ELSE {since, since + 1}

OpenStream(s) ==
    /\ streamer[s].pc = "open"
    /\ pod[streamer[s].run] \in {"Running", "Done"}
    /\ \E first \in FirstChunks(streamer[s].since) :
          streamer' = [streamer EXCEPT ![s] =
                         StreamerState(@.run, "read", first, first, @.since, 0)]
    /\ UNCHANGED <<server, stores, disk, call, stop, pods, collected, stopped>>

\* The log file or the stream cannot be opened, or the pod is gone.
OpenStreamFails(s) ==
    /\ streamer[s].pc = "open"
    /\ pod[streamer[s].run] = "Gone" \/ "stream" \in Faults
    /\ BailOut(s, streamer[s].since)
    /\ UNCHANGED <<server, stores, disk, call, stop, pods, collected, stopped>>

\* Mutant of UnsavedChunks: the counter is not reset.
UnsavedChunksNoReset(n) == n

\* bytesSinceLogTimeUpdate, reset when it reaches the interval.
UnsavedChunks(n) == IF n >= LogTimeUpdateInterval THEN 0 ELSE n

(***************************************************************************)
(* A chunk is read and appended to the file.  Every so many bytes the time *)
(* of the read is to be saved in the manifest, for which the item is       *)
(* looked up: the goroutine bails out when it is not there any more, which *)
(* is how StopLogs ends it.  A read that returns nothing only moves the    *)
(* local time, which is then up to date.                                   *)
(***************************************************************************)
ReadChunk(s) ==
    LET r == streamer[s].run
        save == streamer[s].unsaved + 1 >= LogTimeUpdateInterval
    IN  /\ streamer[s].pc = "read"
        /\ streamer[s].next <= emitted[r]
        /\ collected' = [collected EXCEPT ![r] = @ \cup {streamer[s].next}]
        /\ IF save /\ r \notin manifest
           THEN BailOut(s, Now(s))
           ELSE streamer' = [streamer EXCEPT ![s] =
                   StreamerState(r, IF save THEN "save" ELSE "read", @.first,
                                 @.next + 1, Now(s), UnsavedChunks(@.unsaved + 1))]
        /\ UNCHANGED <<server, stores, disk, call, stop, pods, stopped>>

\* Mutant of ReadFails: a failed write to the file is ignored.
ReadFailsIgnored(s) ==
    /\ streamer[s].pc = "read"
    /\ "write" \in Faults /\ streamer[s].next <= Now(s)
    /\ streamer' = [streamer EXCEPT ![s].next = @ + 1, ![s].since = Now(s)]
    /\ UNCHANGED <<server, stores, disk, call, stop, pods, collected, stopped>>

\* The read fails, or the write to the file does: the goroutine bails out.
ReadFails(s) ==
    /\ streamer[s].pc = "read"
    /\ \/ "stream" \in Faults
       \/ "write" \in Faults /\ streamer[s].next <= Now(s)
    /\ BailOut(s, Now(s))
    /\ UNCHANGED <<server, stores, disk, call, stop, pods, collected, stopped>>

(***************************************************************************)
(* EOF: the pod is done and its log read to the end, the pod was deleted,  *)
(* or the logs of a running pod were rotated.                              *)
(***************************************************************************)
ReadEOF(s) ==
    LET r == streamer[s].run
    IN  /\ streamer[s].pc = "read"
        /\ \/ pod[r] = "Done" /\ streamer[s].next > emitted[r]
           \/ pod[r] = "Gone"
           \/ pod[r] = "Running" /\ "rotation" \in Faults
        /\ streamer' = [streamer EXCEPT ![s] =
                          StreamerState(r, "check", @.first, @.next, Now(s), 0)]
        /\ UNCHANGED <<server, stores, disk, call, stop, pods, collected, stopped>>

\* Mutant of CheckPod: every EOF means that the log is complete.
CheckPodSkipped(s) ==
    /\ streamer[s].pc = "check"
    /\ streamer' = [streamer EXCEPT ![s].pc = "finish"]
    /\ UNCHANGED <<server, stores, disk, call, stop, pods, collected, stopped>>

(***************************************************************************)
(* The pod is looked up: gone or not running means the log is complete;    *)
(* still running, or an error, means bailing out for the monitoring loop   *)
(* to start again.                                                         *)
(***************************************************************************)
CheckPod(s) ==
    /\ streamer[s].pc = "check"
    /\ \/ /\ pod[streamer[s].run] # "Running"
          /\ streamer' = [streamer EXCEPT ![s].pc = "finish"]
       \/ /\ pod[streamer[s].run] = "Running" \/ "stream" \in Faults
          /\ BailOut(s, streamer[s].since)
    /\ UNCHANGED <<server, stores, disk, call, stop, pods, collected, stopped>>

\* The run is removed from the manifest.
FinishStreaming(s) ==
    /\ streamer[s].pc = "finish"
    /\ RemoveItems({streamer[s].run})
    /\ BailOut(s, streamer[s].since)
    /\ UNCHANGED <<server, currentState, disk, call, stop, pods,
                   collected, stopped>>

\* Mutant of SaveLastLogTime: the item is stored without being looked up.
SaveLastLogTimeStores(s) ==
    /\ streamer[s].pc = "exit"
    /\ streamer' = [streamer EXCEPT ![s] = NewStreamer(@.run, "resave", @.since)]
    /\ UNCHANGED <<server, stores, disk, call, stop, pods, collected, stopped>>

(***************************************************************************)
(* The deferred UpdateLastLogTime looks the item up: without one it fails, *)
(* which changes nothing.                                                  *)
(***************************************************************************)
SaveLastLogTime(s) ==
    LET r == streamer[s].run
    IN  /\ streamer[s].pc = "exit"
        /\ streamer' = [streamer EXCEPT ![s] =
                          IF r \in manifest THEN NewStreamer(r, "resave", @.since)
                          ELSE NewStreamer(r, "untrack", 0)]
        /\ UNCHANGED <<server, stores, disk, call, stop, pods, collected, stopped>>

\* Both updates store what they loaded, even if the item was removed meanwhile.
StoreLastLogTime(s) ==
    /\ Updating(s)
    /\ UpdateLastLogTime(streamer[s].run, streamer[s].since)
    /\ streamer' = [streamer EXCEPT ![s] =
                      IF @.pc = "save" THEN [@ EXCEPT !.pc = "read"]
                      ELSE NewStreamer(@.run, "untrack", 0)]
    /\ UNCHANGED <<server, currentState, disk, call, stop, pods, collected, stopped>>

\* The deferred removal from currentState; the goroutine ends.
Untrack(s) ==
    /\ streamer[s].pc = "untrack"
    /\ currentState' = currentState \ {streamer[s].run}
    /\ streamer' = [streamer EXCEPT ![s] = NoStreamer]
    /\ UNCHANGED <<server, manifest, lastLogTime, disk, call, stop, pods, collected,
                   stopped>>

-----------------------------------------------------------------------------
(***************************************************************************)
(* StopLogs: for each run of the request the item is removed from the      *)
(* manifest, then from currentState; without runs, the whole project is.   *)
(***************************************************************************)
StopLogs(R) ==
    /\ server = "up" /\ stop = NoStop
    /\ stop' = [todo |-> R, half |-> {}]
    /\ UNCHANGED <<server, stores, disk, call, streamer, pods, collected, stopped>>

StopManifest(r) ==
    /\ r \in stop.todo /\ stop.half = {}
    /\ RemoveItems({r})
    /\ stop' = [todo |-> stop.todo \ {r}, half |-> {r}]
    /\ stopped' = IF Undisturbed(r) THEN stopped \cup {r} ELSE stopped
    /\ UNCHANGED <<server, currentState, disk, call, streamer, pods, collected>>

StopProject ==
    /\ server = "up" /\ stop = NoStop
    /\ RemoveItems(Runs)
    /\ stop' = [todo |-> {}, half |-> Runs]
    /\ stopped' = stopped \cup {r \in Runs : Undisturbed(r)}
    /\ UNCHANGED <<server, currentState, disk, call, streamer, pods, collected>>

StopCurrentState ==
    /\ stop.half # {}
    /\ currentState' = currentState \ stop.half
    /\ stop' = [todo |-> stop.todo, half |-> {}]
    /\ UNCHANGED <<server, manifest, lastLogTime, disk, call, streamer, pods,
                   collected, stopped>>

-----------------------------------------------------------------------------
(***************************************************************************)
(* The state file.  A write encodes the state, truncates the file and then *)
(* writes it.  A restarted process reads the file (an empty file is an     *)
(* empty state), and writes it back before it serves.                      *)
(***************************************************************************)
\* Mutant of EncodedState: the loop keeps writing the state it started with.
EncodedStateStale == stateFile

\* MarshalJSON: the items of the manifest.
EncodedState ==
    [items |-> manifest,
     times |-> [r \in Runs |-> IF r \in manifest THEN lastLogTime[r] ELSE 0]]

BeginStateWrite ==
    /\ server = "up" /\ writing = NoWrite
    /\ writing' = EncodedState
    /\ stateFile' = EmptyStateFile
    /\ UNCHANGED <<server, stores, call, streamer, stop, pods, collected, stopped>>

EndStateWrite ==
    /\ writing # NoWrite
    /\ stateFile' = writing
    /\ writing' = NoWrite
    /\ server' = "up"
    /\ UNCHANGED <<stores, call, streamer, stop, pods, collected, stopped>>

\* The process dies: the disk is what is left.
Crash ==
    /\ "crash" \in Faults
    /\ server # "down" /\ server' = "down"
    /\ manifest' = {} /\ lastLogTime' = [r \in Runs |-> 0]
    /\ currentState' = {}
    /\ writing' = NoWrite
    /\ call' = [c \in Callers |-> [r \in Runs |-> NoCall]]
    /\ streamer' = [s \in Streamers |-> NoStreamer]
    /\ stop' = NoStop
    /\ UNCHANGED <<stateFile, pods, collected, stopped>>

Initialize ==
    /\ server = "down" /\ server' = "init"
    /\ manifest' = stateFile.items /\ lastLogTime' = stateFile.times
    /\ writing' = stateFile
    /\ stateFile' = EmptyStateFile
    /\ stopped' = stopped \ stateFile.items
    /\ UNCHANGED <<currentState, call, streamer, stop, pods, collected>>

-----------------------------------------------------------------------------
(***************************************************************************)
(* The pods (external).                                                    *)
(***************************************************************************)
PodStarts(r) ==
    /\ pod[r] = "Pending"
    /\ pod' = [pod EXCEPT ![r] = "Running"]
    /\ UNCHANGED <<server, stores, disk, call, streamer, stop, emitted, collected,
                   stopped>>

PodWrites(r) ==
    /\ pod[r] = "Running" /\ emitted[r] < MaxChunks
    /\ emitted' = [emitted EXCEPT ![r] = @ + 1]
    /\ UNCHANGED <<server, stores, disk, call, streamer, stop, pod, collected, stopped>>

PodCompletes(r) ==
    /\ pod[r] = "Running"
    /\ pod' = [pod EXCEPT ![r] = "Done"]
    /\ UNCHANGED <<server, stores, disk, call, streamer, stop, emitted, collected,
                   stopped>>

PodDeleted(r) ==
    /\ "deletion" \in Faults /\ pod[r] # "Gone"
    /\ pod' = [pod EXCEPT ![r] = "Gone"]
    /\ UNCHANGED <<server, stores, disk, call, streamer, stop, emitted, collected,
                   stopped>>

-----------------------------------------------------------------------------

StartLogStep(c, r) ==
    \/ FindPodFails(c, r)
    \/ FindPod(c, r)
    \/ \E s \in Streamers : StartStreaming(c, r, s)
    \/ Track(c, r)

StreamerStep(s) ==
    \/ OpenStream(s)
    \/ OpenStreamFails(s)
    \/ ReadChunk(s)
    \/ ReadFails(s)
    \/ ReadEOF(s)
    \/ CheckPod(s)
    \/ FinishStreaming(s)
    \/ SaveLastLogTime(s)
    \/ StoreLastLogTime(s)
    \/ Untrack(s)

StopStep ==
    \/ \E r \in Runs : StopManifest(r)
    \/ StopCurrentState

StateFileStep == BeginStateWrite \/ EndStateWrite

PodStep(r) == PodStarts(r) \/ PodWrites(r) \/ PodCompletes(r) \/ PodDeleted(r)

Next ==
    \/ \E r \in Runs : APIStartLog(r) \/ PodStep(r)
    \/ MonitorTick
    \/ \E r \in Runs : MonitorCheck(r) \/ MonitorStartLog(r)
    \/ \E c \in Callers, r \in Runs : StartLogStep(c, r)
    \/ \E s \in Streamers : StreamerStep(s)
    \/ \E R \in SUBSET Runs \ {{}} : StopLogs(R)
    \/ StopProject
    \/ StopStep
    \/ StateFileStep
    \/ Crash
    \/ Initialize

Spec == Init /\ [][Next]_vars

(***************************************************************************)
(* Goroutines, tickers and handlers go on when they can.  Nothing obliges  *)
(* the API to send a request, a pod to start, write or end, or a process   *)
(* to die; a process that died is restarted.                               *)
(***************************************************************************)
Fairness ==
    /\ WF_vars(MonitorTick)
    /\ \A r \in Runs : WF_vars(MonitorCheck(r)) /\ WF_vars(MonitorStartLog(r))
    /\ \A c \in Callers, r \in Runs : WF_vars(StartLogStep(c, r))
    /\ \A s \in Streamers : WF_vars(StreamerStep(s))
    /\ WF_vars(StopStep)
    /\ WF_vars(StateFileStep)
    /\ WF_vars(Initialize)

FairSpec == Spec /\ Fairness

-----------------------------------------------------------------------------

TypeOK ==
    /\ server \in {"down", "init", "up"}
    /\ manifest \subseteq Runs /\ lastLogTime \in [Runs -> Times]
    /\ currentState \subseteq Runs
    /\ stateFile \in FileStates /\ writing \in FileStates \cup {NoWrite}
    /\ call \in [Callers -> [Runs -> Calls]]
    /\ streamer \in [Streamers -> StreamerStates]
    /\ \A s \in Streamers : streamer[s].pc = "none" <=> streamer[s].run = NoRun
    /\ stop \in [todo : SUBSET Runs, half : SUBSET Runs]
    /\ pod \in [Runs -> Phases] /\ emitted \in [Runs -> Times]
    /\ collected \in [Runs -> SUBSET (1..MaxChunks)]
    /\ stopped \subseteq Runs

(***************************************************************************)
(* A run stopped while nobody had its item at hand stays out of the        *)
(* manifest until the API asks for it again or the process restarts from a *)
(* state file that still had it: neither a handler, nor an iteration of    *)
(* the monitoring loop, nor a goroutine that goes on streaming the run and *)
(* saving its log time, brings the item back.  A stop that overtakes one   *)
(* of these is undone, in spite of StopLogs' "This will prevent the        *)
(* monitoring loop from starting logging again".                           *)
(***************************************************************************)
StopSticks == stopped \cap manifest = {}

(***************************************************************************)
(* While a run's pod is running, its item leaves the manifest only through *)
(* StopLogs or a crash; no failure of a stream makes the collector forget  *)
(* a run that is still writing logs.                                       *)
(***************************************************************************)
DroppedOnlyWhenDone ==
    [][\A r \in manifest \ manifest' :
         pod[r] # "Running" \/ r \in stop'.half \/ server' = "down"]_vars

(***************************************************************************)
(* A streaming goroutine that decides the log is complete has copied every *)
(* chunk from the first one of its stream to the last one of the pod.      *)
(* True unless logs are rotated or pods deleted: the comment of            *)
(* streamPodLogs, "if the pod is not running, it is done streaming logs",  *)
(* overlooks an EOF by rotation just before the pod completes.             *)
(***************************************************************************)
SessionComplete ==
    \A s \in Streamers :
        streamer[s].pc = "finish" =>
            streamer[s].first..Now(s) \subseteq collected[streamer[s].run]

(***************************************************************************)
(* The monitoring loop picks up an item that is in the manifest but not    *)
(* being collected, whatever streams and handlers do meanwhile.            *)
(***************************************************************************)
MonitorPicksUp ==
    \A r \in Runs :
        (r \in manifest \ currentState /\ pod[r] = "Running")
            ~> (r \in currentState \/ r \notin manifest \/ pod[r] # "Running")

(***************************************************************************)
(* An item reaches the state file unless it is removed first: the loop     *)
(* that writes it and the changes of the manifest do not starve each       *)
(* other.                                                                  *)
(***************************************************************************)
EventuallyPersisted ==
    \A r \in Runs :
        (r \in manifest) ~> (r \in stateFile.items \/ r \notin manifest)

(***************************************************************************)
(* The collector implements its contract: a run is taken on only once it   *)
(* has a pod and by somebody who was asked for it or found its item,       *)
(* dropped only when the pod no longer runs or a stop request asks for it, *)
(* and a restarted process goes on with what was persisted, whatever       *)
(* handlers, goroutines and the writer of the state file do in between.    *)
(***************************************************************************)
CarriedRuns == {r \in Runs : Carried(r)}

SavedItems ==
    stateFile.items \cup (IF writing = NoWrite THEN {} ELSE writing.items)

Contract == INSTANCE CollectorContract
              WITH items <- manifest, saved <- SavedItems,
                   carried <- CarriedRuns,
                   stopping <- stop.todo, up <- server # "down"

ImplementsContract == Contract!Spec

=============================================================================
