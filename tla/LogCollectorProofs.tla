------------------------- MODULE LogCollectorProofs -------------------------
(***************************************************************************)
(* Proofs about LogCollector, for any runs, streaming goroutines, bounds   *)
(* and faults: the type invariant, that a stop sticks, that the manifest   *)
(* forgets no run whose pod is running, and the contract.  Unless logs are *)
(* rotated or pods deleted: that a session that ends is complete.          *)
(***************************************************************************)
EXTENDS LogCollector, TLAPS

USE BoundsAssumption, NoRunAssumption

-----------------------------------------------------------------------------
(***************************************************************************)
(* Types.  One lemma per group of variables that an action changes.        *)
(***************************************************************************)

\* The pieces new streamer states are made of.
LEMMA StreamerTypes ==
    ASSUME NEW r \in Runs \cup {NoRun}, NEW location \in StreamerPCs, NEW t \in Times
    PROVE  NewStreamer(r, location, t) \in StreamerStates
<1>1. 1 \in 1..MaxChunks + 1 /\ 0 \in 0..LogTimeUpdateInterval - 1 OBVIOUS
<1> QED BY <1>1 DEF NewStreamer, StreamerState, StreamerStates

\* A goroutine that moves on keeps its run, and the types.
LEMMA StreamerUpdate ==
    ASSUME TypeOK, NEW s \in Streamers, streamer[s].run \in Runs,
           NEW location \in StreamerPCs \ {"none"}, NEW first \in 1..MaxChunks + 1,
           NEW next \in 1..MaxChunks + 1, NEW since \in Times,
           NEW unsaved \in 0..LogTimeUpdateInterval - 1,
           streamer' = [streamer EXCEPT ![s] =
             StreamerState(streamer[s].run, location, first, next, since, unsaved)]
    PROVE  /\ streamer' \in [Streamers -> StreamerStates]
           /\ \A q \in Streamers : streamer'[q].pc = "none" <=> streamer'[q].run = NoRun
<1> DEFINE new == StreamerState(streamer[s].run, location, first, next, since, unsaved)
<1>1. new \in StreamerStates BY DEF StreamerState, StreamerStates
<1>2. new.pc = location /\ new.run = streamer[s].run BY DEF StreamerState
<1>3. streamer' = [streamer EXCEPT ![s] = new] OBVIOUS
<1> HIDE DEF new
<1>4. streamer' \in [Streamers -> StreamerStates] BY <1>1, <1>3 DEF TypeOK
<1>5. \A q \in Streamers : streamer'[q] = IF q = s THEN new ELSE streamer[q]
  BY <1>3 DEF TypeOK
<1> QED BY <1>2, <1>4, <1>5 DEF TypeOK

\* A goroutine that bails out keeps its run and a valid time.
LEMMA BailOutTypes ==
    ASSUME TypeOK, NEW s \in Streamers, NEW t \in Times,
           streamer[s].run \in Runs, BailOut(s, t)
    PROVE  /\ streamer' \in [Streamers -> StreamerStates]
           /\ \A q \in Streamers : streamer'[q].pc = "none" <=> streamer'[q].run = NoRun
<1>1. 1 \in 1..MaxChunks + 1 /\ 0 \in 0..LogTimeUpdateInterval - 1 OBVIOUS
<1> QED BY <1>1, StreamerUpdate DEF BailOut, NewStreamer, StreamerPCs

LEMMA LiveStreamer ==
    ASSUME TypeOK, NEW s \in Streamers, streamer[s].pc # "none"
    PROVE  streamer[s].run \in Runs /\ Now(s) \in Times
<1>1. streamer[s] \in StreamerStates BY DEF TypeOK
<1>2. streamer[s].run \in Runs BY <1>1 DEF TypeOK, StreamerStates
<1> QED BY <1>2 DEF TypeOK, Now

\* What ReadChunk makes of the goroutine.
LEMMA ChunkRead ==
    ASSUME NEW s \in Streamers, ReadChunk(s)
    PROVE  \/ BailOut(s, Now(s))
           \/ \E location \in {"read", "save"} :
                 streamer' = [streamer EXCEPT ![s] =
                   StreamerState(streamer[s].run, location, streamer[s].first,
                                 streamer[s].next + 1, Now(s),
                                 UnsavedChunks(streamer[s].unsaved + 1))]
<1>1. CASE streamer[s].unsaved + 1 >= LogTimeUpdateInterval BY <1>1 DEF ReadChunk
<1>2. CASE ~(streamer[s].unsaved + 1 >= LogTimeUpdateInterval) BY <1>2 DEF ReadChunk
<1> QED BY <1>1, <1>2

LEMMA InitTypes == Init => TypeOK
<1> SUFFICES ASSUME Init PROVE TypeOK OBVIOUS
<1>1. 0 \in Times BY DEF Times
<1>2. NoStreamer \in StreamerStates
  BY <1>1, StreamerTypes DEF NoStreamer, StreamerPCs
<1>3. streamer \in [Streamers -> StreamerStates] BY <1>2 DEF Init
<1>4. \A s \in Streamers : streamer[s].pc = "none" <=> streamer[s].run = NoRun
  BY DEF Init, NoStreamer, NewStreamer, StreamerState
<1>5. NoCall \in Calls BY <1>1 DEF NoCall, Calls
<1>6. call \in [Callers -> [Runs -> Calls]] BY <1>5 DEF Init
<1>7. stateFile \in FileStates BY <1>1 DEF Init, FileStates, EmptyStateFile
<1> QED BY <1>1, <1>3, <1>4, <1>6, <1>7 DEF Init, TypeOK, NoStop, Phases

\* StartLog and the monitoring loop.
LEMMA CallTypes ==
    ASSUME TypeOK,
           \/ \E r \in Runs : APIStartLog(r) \/ MonitorCheck(r) \/ MonitorStartLog(r)
           \/ MonitorTick
           \/ \E c \in Callers, r \in Runs :
                 FindPodFails(c, r) \/ FindPod(c, r) \/ Track(c, r)
    PROVE  TypeOK'
<1> USE DEF TypeOK, stores, disk, pods
<1>0. NoCall \in Calls /\ 0 \in Times BY DEF NoCall, Calls, Times
<1>1. ASSUME NEW r \in Runs, NEW c \in Callers, StartLog(c, r), stopped' \subseteq Runs
      PROVE  TypeOK'
  <2>1. [pc |-> "find", since |-> call[c][r].since] \in Calls BY DEF Calls
  <2>2. call' \in [Callers -> [Runs -> Calls]] BY <1>0, <1>1, <2>1 DEF StartLog
  <2> QED BY <1>1, <2>2 DEF StartLog
<1>2. ASSUME NEW r \in Runs, APIStartLog(r) PROVE TypeOK'
  BY <1>1, <1>2 DEF APIStartLog, Callers
<1>3. ASSUME NEW r \in Runs, MonitorStartLog(r) PROVE TypeOK'
  BY <1>1, <1>3 DEF MonitorStartLog, Callers
<1>4. ASSUME MonitorTick PROVE TypeOK'
  <2>1. \A t \in Times : [pc |-> "listed", since |-> t] \in Calls BY DEF Calls
  <2>2. call' \in [Callers -> [Runs -> Calls]] BY <1>0, <1>4, <2>1 DEF MonitorTick
  <2> QED BY <1>4, <2>2 DEF MonitorTick
<1>5. ASSUME NEW c \in Callers, NEW r \in Runs,
             FindPodFails(c, r) \/ FindPod(c, r) \/ Track(c, r)
      PROVE  TypeOK'
  <2>1. [pc |-> "found", since |-> call[c][r].since] \in Calls BY DEF Calls
  <2>2. PICK new \in Calls : call' = [call EXCEPT ![c][r] = new]
    BY <1>0, <1>5, <2>1 DEF FindPodFails, FindPod, Track
  <2>3. call' \in [Callers -> [Runs -> Calls]] BY <2>2
  <2> QED BY <1>5, <2>3 DEF FindPodFails, FindPod, Track
<1>6. ASSUME NEW r \in Runs, MonitorCheck(r) PROVE TypeOK'
  <2>1. [pc |-> "begin", since |-> call["monitor"][r].since] \in Calls
    BY DEF Calls, Callers
  <2>2. call' \in [Callers -> [Runs -> Calls]] BY <1>0, <1>6, <2>1 DEF MonitorCheck
  <2> QED BY <1>6, <2>2 DEF MonitorCheck
<1> QED BY <1>2, <1>3, <1>4, <1>5, <1>6

LEMMA StartStreamingTypes ==
    ASSUME TypeOK, NEW c \in Callers, NEW r \in Runs, NEW s \in Streamers,
           StartStreaming(c, r, s)
    PROVE  TypeOK'
<1> USE DEF TypeOK, stores, disk, pods
<1> DEFINE new == NewStreamer(r, "open", call[c][r].since)
<1>1. call[c][r].since \in Times BY DEF Calls
<1>2. new \in StreamerStates BY <1>1, StreamerTypes DEF StreamerPCs
<1>3. new.pc = "open" /\ new.run = r BY DEF NewStreamer, StreamerState
<1>4. streamer' = [streamer EXCEPT ![s] = new] BY DEF StartStreaming
<1>5. [pc |-> "track", since |-> 0] \in Calls BY DEF Calls, Times
<1>6. call' \in [Callers -> [Runs -> Calls]] BY <1>5 DEF StartStreaming
<1> HIDE DEF new
<1>7. streamer' \in [Streamers -> StreamerStates] BY <1>2, <1>4
<1>8. \A q \in Streamers : streamer'[q] = IF q = s THEN new ELSE streamer[q]
  BY <1>4
<1>9. \A q \in Streamers : streamer'[q].pc = "none" <=> streamer'[q].run = NoRun
  BY <1>3, <1>8
<1>10. manifest' \subseteq Runs /\ lastLogTime' \in [Runs -> Times]
  BY DEF StartStreaming, Times
<1> QED BY <1>6, <1>7, <1>9, <1>10 DEF StartStreaming

\* The streaming goroutine.
LEMMA StreamTypes ==
    ASSUME TypeOK, NEW s \in Streamers, StreamerStep(s)
    PROVE  TypeOK'
<1> USE DEF stores, disk, pods
<1> DEFINE r == streamer[s].run
           Typed == /\ streamer' \in [Streamers -> StreamerStates]
                    /\ \A q \in Streamers :
                          streamer'[q].pc = "none" <=> streamer'[q].run = NoRun
<1>0. /\ streamer[s].since \in Times
      /\ streamer[s].first \in 1..MaxChunks + 1 /\ streamer[s].next \in 1..MaxChunks + 1
      /\ streamer[s].unsaved \in 0..LogTimeUpdateInterval - 1
      /\ 0 \in Times /\ 0 \in 0..LogTimeUpdateInterval - 1 /\ 1 \in 1..MaxChunks + 1
  BY DEF TypeOK, StreamerStates, Times
<1>1. ASSUME OpenStream(s) PROVE TypeOK'
  <2>0. r \in Runs BY <1>1, LiveStreamer DEF OpenStream
  <2>1. PICK first \in FirstChunks(streamer[s].since) :
           streamer' = [streamer EXCEPT ![s] =
             StreamerState(r, "read", first, first, streamer[s].since, 0)]
    BY <1>1 DEF OpenStream
  <2>2. first \in 1..MaxChunks + 1 BY <1>0, <2>1 DEF FirstChunks, Times
  <2>3. Typed BY <1>0, <2>0, <2>1, <2>2, StreamerUpdate DEF StreamerPCs
  <2> QED BY <1>1, <2>3 DEF OpenStream, TypeOK
<1>2. ASSUME OpenStreamFails(s) PROVE TypeOK'
  <2>1. r \in Runs BY <1>2, LiveStreamer DEF OpenStreamFails
  <2>2. Typed BY <1>0, <1>2, <2>1, BailOutTypes DEF OpenStreamFails
  <2> QED BY <1>2, <2>2 DEF OpenStreamFails, TypeOK
<1>3. ASSUME ReadChunk(s) PROVE TypeOK'
  <2>1. r \in Runs /\ Now(s) \in Times BY <1>3, LiveStreamer DEF ReadChunk
  <2>2. streamer[s].next \in 1..MaxChunks
    BY <1>0, <1>3, <2>1 DEF ReadChunk, Times, Now
  <2>3. Typed
    <3>1. CASE BailOut(s, Now(s)) BY <2>1, <3>1, BailOutTypes
    <3>2. ASSUME NEW location \in {"read", "save"},
                 streamer' = [streamer EXCEPT ![s] =
                   StreamerState(r, location, streamer[s].first, streamer[s].next + 1,
                                 Now(s), UnsavedChunks(streamer[s].unsaved + 1))]
          PROVE  Typed
      <4>1. UnsavedChunks(streamer[s].unsaved + 1) \in 0..LogTimeUpdateInterval - 1
        BY <1>0 DEF UnsavedChunks
      <4>2. streamer[s].next + 1 \in 1..MaxChunks + 1 BY <2>2
      <4> QED BY <1>0, <2>1, <3>2, <4>1, <4>2, StreamerUpdate DEF StreamerPCs
    <3> QED BY <1>3, <3>1, <3>2, ChunkRead
  <2>4. collected' \in [Runs -> SUBSET (1..MaxChunks)]
    BY <1>3, <2>2 DEF ReadChunk, TypeOK
  <2> QED BY <1>3, <2>3, <2>4 DEF ReadChunk, TypeOK
<1>4. ASSUME ReadFails(s) PROVE TypeOK'
  <2>1. r \in Runs /\ Now(s) \in Times BY <1>4, LiveStreamer DEF ReadFails
  <2>2. Typed BY <1>4, <2>1, BailOutTypes DEF ReadFails
  <2> QED BY <1>4, <2>2 DEF ReadFails, TypeOK
<1>5. ASSUME ReadEOF(s) PROVE TypeOK'
  <2>1. r \in Runs /\ Now(s) \in Times BY <1>5, LiveStreamer DEF ReadEOF
  <2>2. Typed BY <1>0, <1>5, <2>1, StreamerUpdate DEF ReadEOF, StreamerPCs
  <2> QED BY <1>5, <2>2 DEF ReadEOF, TypeOK
<1>6. ASSUME CheckPod(s) PROVE TypeOK'
  <2>1. r \in Runs BY <1>6, LiveStreamer DEF CheckPod
  <2>2. CASE BailOut(s, streamer[s].since)
    <3>1. Typed BY <1>0, <2>1, <2>2, BailOutTypes
    <3> QED BY <1>6, <3>1 DEF CheckPod, TypeOK
  <2>3. CASE streamer' = [streamer EXCEPT ![s].pc = "finish"]
    <3>1. Typed BY <1>6, <2>3 DEF CheckPod, TypeOK, StreamerStates, StreamerPCs
    <3> QED BY <1>6, <3>1 DEF CheckPod, TypeOK
  <2> QED BY <1>6, <2>2, <2>3 DEF CheckPod
<1>7. ASSUME FinishStreaming(s) PROVE TypeOK'
  <2>1. r \in Runs BY <1>7, LiveStreamer DEF FinishStreaming
  <2>2. Typed BY <1>0, <1>7, <2>1, BailOutTypes DEF FinishStreaming
  <2>3. manifest' \subseteq Runs /\ lastLogTime' \in [Runs -> Times]
    BY <1>0, <1>7 DEF FinishStreaming, RemoveItems, TypeOK
  <2> QED BY <1>7, <2>2, <2>3 DEF FinishStreaming, TypeOK
<1>8. ASSUME SaveLastLogTime(s) PROVE TypeOK'
  <2>1. r \in Runs BY <1>8, LiveStreamer DEF SaveLastLogTime
  <2>2. Typed
    BY <1>0, <1>8, <2>1, StreamerUpdate DEF SaveLastLogTime, NewStreamer, StreamerPCs
  <2> QED BY <1>8, <2>2 DEF SaveLastLogTime, TypeOK
<1>9. ASSUME Untrack(s) PROVE TypeOK'
  <2>1. NoStreamer \in StreamerStates BY <1>0, StreamerTypes DEF NoStreamer, StreamerPCs
  <2>2. streamer' = [streamer EXCEPT ![s] = NoStreamer] BY <1>9 DEF Untrack
  <2>3. Typed BY <2>1, <2>2 DEF TypeOK, NoStreamer, NewStreamer, StreamerState
  <2> QED BY <1>9, <2>3 DEF Untrack, TypeOK
<1>10. ASSUME StoreLastLogTime(s) PROVE TypeOK'
  <2>1. r \in Runs BY <1>10, LiveStreamer DEF StoreLastLogTime, Updating
  <2>2. Typed
    <3>1. CASE streamer[s].pc = "save"
      <4>1. streamer' = [streamer EXCEPT ![s].pc = "read"]
        BY <1>10, <3>1 DEF StoreLastLogTime, TypeOK
      <4> QED BY <3>1, <4>1 DEF TypeOK, StreamerStates, StreamerPCs
    <3>2. CASE streamer[s].pc # "save"
      <4>1. streamer' = [streamer EXCEPT ![s] = StreamerState(r, "untrack", 1, 1, 0, 0)]
        BY <1>10, <3>2 DEF StoreLastLogTime, NewStreamer
      <4> QED BY <1>0, <2>1, <4>1, StreamerUpdate DEF StreamerPCs
    <3> QED BY <3>1, <3>2
  <2>3. manifest' \subseteq Runs /\ lastLogTime' \in [Runs -> Times]
    BY <1>0, <1>10, <2>1 DEF StoreLastLogTime, UpdateLastLogTime, TypeOK
  <2> QED BY <1>10, <2>2, <2>3 DEF StoreLastLogTime, TypeOK
<1> QED BY <1>1, <1>2, <1>3, <1>4, <1>5, <1>6, <1>7, <1>8, <1>9, <1>10 DEF StreamerStep

\* StopLogs.
LEMMA StopTypes ==
    ASSUME TypeOK, (\E R \in SUBSET Runs : StopLogs(R)) \/ StopProject \/ StopStep
    PROVE  TypeOK'
<1> USE DEF TypeOK, stores, disk, pods
<1>1. 0 \in Times BY DEF Times
<1>2. ASSUME NEW R \in SUBSET Runs, StopLogs(R) PROVE TypeOK' BY <1>2 DEF StopLogs
<1>3. ASSUME StopProject PROVE TypeOK' BY <1>1, <1>3 DEF StopProject, RemoveItems
<1>4. ASSUME NEW r \in Runs, StopManifest(r) PROVE TypeOK'
  BY <1>1, <1>4 DEF StopManifest, RemoveItems
<1>5. ASSUME StopCurrentState PROVE TypeOK' BY <1>5 DEF StopCurrentState
<1> QED BY <1>2, <1>3, <1>4, <1>5 DEF StopStep

\* The state file, crashes and restarts.
LEMMA StateFileTypes ==
    ASSUME TypeOK, StateFileStep \/ Crash \/ Initialize
    PROVE  TypeOK'
<1> USE DEF stores, disk, pods
<1>1. 0 \in Times BY DEF Times
<1>2. EmptyStateFile \in FileStates BY <1>1 DEF EmptyStateFile, FileStates
<1>3. ASSUME BeginStateWrite PROVE TypeOK'
  <2>1. EncodedState \in FileStates BY <1>1 DEF EncodedState, FileStates, TypeOK
  <2> QED BY <1>2, <1>3, <2>1 DEF BeginStateWrite, TypeOK
<1>4. ASSUME EndStateWrite PROVE TypeOK' BY <1>4 DEF EndStateWrite, TypeOK
<1>5. ASSUME Crash PROVE TypeOK'
  <2>1. NoStreamer \in StreamerStates BY <1>1, StreamerTypes DEF NoStreamer, StreamerPCs
  <2>2. /\ streamer' \in [Streamers -> StreamerStates]
        /\ \A q \in Streamers : streamer'[q].pc = "none" <=> streamer'[q].run = NoRun
    BY <1>5, <2>1 DEF Crash, NoStreamer, NewStreamer, StreamerState
  <2>3. NoCall \in Calls BY <1>1 DEF NoCall, Calls
  <2>4. call' \in [Callers -> [Runs -> Calls]] BY <1>5, <2>3 DEF Crash
  <2> QED BY <1>1, <1>5, <2>2, <2>4 DEF Crash, TypeOK, NoStop
<1>6. ASSUME Initialize PROVE TypeOK'
  <2>1. stateFile.items \subseteq Runs /\ stateFile.times \in [Runs -> Times]
    BY DEF TypeOK, FileStates
  <2> QED BY <1>2, <1>6, <2>1 DEF Initialize, TypeOK
<1> QED BY <1>3, <1>4, <1>5, <1>6 DEF StateFileStep

\* The pods.
LEMMA PodTypes ==
    ASSUME TypeOK, NEW r \in Runs, PodStep(r)
    PROVE  TypeOK'
<1> USE DEF stores, disk, pods
<1>1. CASE PodStarts(r) BY <1>1 DEF PodStarts, TypeOK, Phases
<1>2. CASE PodWrites(r) BY <1>2 DEF PodWrites, TypeOK, Times
<1>3. CASE PodCompletes(r) BY <1>3 DEF PodCompletes, TypeOK, Phases
<1>4. CASE PodDeleted(r) BY <1>4 DEF PodDeleted, TypeOK, Phases
<1> QED BY <1>1, <1>2, <1>3, <1>4 DEF PodStep

LEMMA NextTypes == TypeOK /\ [Next]_vars => TypeOK'
<1> SUFFICES ASSUME TypeOK, [Next]_vars PROVE TypeOK' OBVIOUS
<1>1. CASE UNCHANGED vars BY <1>1 DEF vars, stores, disk, pods, TypeOK
<1>2. CASE Next
  BY <1>2, CallTypes, StartStreamingTypes, StreamTypes, StopTypes, StateFileTypes,
     PodTypes DEF Next, StartLogStep
<1> QED BY <1>1, <1>2

(***************************************************************************)
(* Every variable keeps its type, however many runs and streamers there    *)
(* are: the goroutine's unsaved bytes stay below the interval at which     *)
(* streamPodLogs saves the log time, a stream never runs past the pod's    *)
(* log, and a goroutine has a run exactly as long as it exists.            *)
(***************************************************************************)
THEOREM TypeCorrect == Spec => []TypeOK
<1> QED BY InitTypes, NextTypes, PTL DEF Spec

-----------------------------------------------------------------------------
(***************************************************************************)
(* A stop sticks.  The inductive invariant adds that nobody carries a      *)
(* stopped run: only those who carry it add its item, the monitoring loop  *)
(* and the goroutines take it up only when they find the item, and a stop  *)
(* is recorded only for a run that nobody carries.                         *)
(***************************************************************************)

StopInv == \A r \in stopped : r \notin manifest /\ ~Carried(r)

\* Steps that add no item and leave the calls and the stopped runs alone.
LEMMA StopInvFrame ==
    ASSUME StopInv, manifest' \subseteq manifest, UNCHANGED <<call, streamer, stopped>>
    PROVE  StopInv'
BY DEF StopInv, Carried, Updating

LEMMA StopInvCalls ==
    ASSUME TypeOK, StopInv,
           \/ \E r \in Runs : APIStartLog(r) \/ MonitorCheck(r) \/ MonitorStartLog(r)
           \/ MonitorTick
           \/ \E c \in Callers, r \in Runs :
                 FindPodFails(c, r) \/ FindPod(c, r) \/ Track(c, r)
    PROVE  StopInv'
<1> USE DEF stores, StopInv, Carried, Updating, TypeOK
<1>1. ASSUME NEW r \in Runs, APIStartLog(r) PROVE StopInv'
  BY <1>1 DEF APIStartLog, StartLog, Callers
<1>2. ASSUME NEW r \in Runs, MonitorStartLog(r) PROVE StopInv'
  BY <1>2 DEF MonitorStartLog, StartLog, Callers
<1>3. ASSUME MonitorTick PROVE StopInv'
  <2>1. \A r \in stopped : call'["monitor"][r] = NoCall
    BY <1>3 DEF MonitorTick, Callers
  <2>2. \A r \in stopped : call'["api"][r].pc = "idle"
    BY <1>3 DEF MonitorTick, Callers
  <2> QED BY <1>3, <2>1, <2>2 DEF MonitorTick, Callers, NoCall
<1>4. ASSUME NEW r \in Runs, MonitorCheck(r) PROVE StopInv'
  BY <1>4 DEF MonitorCheck, Callers, NoCall
<1>5. ASSUME NEW c \in Callers, NEW r \in Runs,
             FindPodFails(c, r) \/ FindPod(c, r) \/ Track(c, r)
      PROVE  StopInv'
  BY <1>5 DEF FindPodFails, FindPod, Track, Callers, NoCall
<1> QED BY <1>1, <1>2, <1>3, <1>4, <1>5

LEMMA StopInvStartStreaming ==
    ASSUME TypeOK, StopInv, NEW c \in Callers, NEW r \in Runs, NEW s \in Streamers,
           StartStreaming(c, r, s)
    PROVE  StopInv'
<1>1. r \notin stopped BY DEF StartStreaming, StopInv, Carried
<1>2. \A d \in Callers, q \in stopped : call'[d][q] = call[d][q]
  BY <1>1 DEF StartStreaming, TypeOK
<1>3. ~Updating(s)'
  BY DEF StartStreaming, NewStreamer, StreamerState, Updating, TypeOK
<1>4. \A t \in Streamers \ {s} : streamer'[t] = streamer[t]
  BY DEF StartStreaming, TypeOK
<1>5. \A q \in stopped : ~Carried(q)' BY <1>2, <1>3, <1>4 DEF StopInv, Carried, Updating
<1> QED BY <1>1, <1>5 DEF StartStreaming, StopInv

\* A goroutine begins an update only of an item it finds.
LEMMA StopInvStreams ==
    ASSUME TypeOK, StopInv, NEW s \in Streamers, StreamerStep(s)
    PROVE  StopInv'
<1> USE DEF stores
<1> DEFINE r == streamer[s].run
<1>1. ASSUME Updating(s)' => streamer'[s].run \in manifest,
             \A t \in Streamers \ {s} : streamer'[t] = streamer[t],
             UNCHANGED <<call, stopped>>, manifest' \subseteq manifest
      PROVE  StopInv'
  BY <1>1 DEF StopInv, Carried, Updating
<1>2. CASE StoreLastLogTime(s)
  <2>1. r \in Runs BY <1>2, LiveStreamer DEF StoreLastLogTime, Updating
  <2>2. r \notin stopped BY <1>2 DEF StoreLastLogTime, StopInv, Carried
  <2>3. ~Updating(s)'
    BY <1>2 DEF StoreLastLogTime, Updating, NewStreamer, StreamerState, TypeOK,
                StreamerStates
  <2>4. \A t \in Streamers \ {s} : streamer'[t] = streamer[t]
    BY <1>2 DEF StoreLastLogTime, TypeOK
  <2>5. manifest' = manifest \cup {r} /\ UNCHANGED <<call, stopped>>
    BY <1>2 DEF StoreLastLogTime, UpdateLastLogTime
  <2> QED BY <2>2, <2>3, <2>4, <2>5 DEF StopInv, Carried, Updating
<1>3. CASE ~StoreLastLogTime(s)
  <2>1. UNCHANGED <<call, stopped>> /\ manifest' \subseteq manifest
    BY <1>3 DEF StreamerStep, OpenStream, OpenStreamFails, ReadChunk, ReadFails, ReadEOF,
                CheckPod, FinishStreaming, RemoveItems, SaveLastLogTime, Untrack
  <2>2. \A t \in Streamers \ {s} : streamer'[t] = streamer[t]
    BY <1>3 DEF StreamerStep, OpenStream, OpenStreamFails, ReadChunk, ReadFails, ReadEOF,
                CheckPod, FinishStreaming, BailOut, SaveLastLogTime, Untrack, TypeOK
  <2>3. Updating(s)' => streamer'[s].run \in manifest
    <3>1. CASE ReadChunk(s)
      BY <3>1 DEF ReadChunk, BailOut, Updating, NewStreamer, StreamerState, TypeOK
    <3>2. CASE SaveLastLogTime(s)
      BY <3>2 DEF SaveLastLogTime, Updating, NewStreamer, StreamerState, TypeOK
    <3>3. CASE ~ReadChunk(s) /\ ~SaveLastLogTime(s)
      BY <1>3, <3>3 DEF StreamerStep, OpenStream, OpenStreamFails, ReadFails, ReadEOF,
           CheckPod, FinishStreaming, Untrack, BailOut, NoStreamer, NewStreamer,
           StreamerState, Updating, TypeOK, StreamerStates
    <3> QED BY <3>1, <3>2, <3>3
  <2> QED BY <1>1, <2>1, <2>2, <2>3
<1> QED BY <1>2, <1>3

LEMMA StopInvStep == TypeOK /\ StopInv /\ [Next]_vars => StopInv'
<1> SUFFICES ASSUME TypeOK, StopInv, [Next]_vars PROVE StopInv' OBVIOUS
<1> USE DEF stores
<1>1. CASE UNCHANGED vars BY <1>1, StopInvFrame DEF vars
<1>2. ASSUME NEW r \in Runs, PodStep(r) PROVE StopInv'
  BY <1>2, StopInvFrame DEF PodStep, PodStarts, PodWrites, PodCompletes, PodDeleted
<1>3. ASSUME NEW R \in SUBSET Runs, StopLogs(R) PROVE StopInv'
  BY <1>3, StopInvFrame DEF StopLogs
<1>4. CASE StopProject
  BY <1>4 DEF StopProject, RemoveItems, StopInv, Undisturbed, Carried, Updating, TypeOK
<1>5. ASSUME NEW r \in Runs, StopManifest(r) PROVE StopInv'
  BY <1>5 DEF StopManifest, RemoveItems, StopInv, Undisturbed, Carried, Updating, TypeOK
<1>6. CASE StopCurrentState BY <1>6, StopInvFrame DEF StopCurrentState
<1>7. CASE StateFileStep
  BY <1>7, StopInvFrame DEF StateFileStep, BeginStateWrite, EndStateWrite
<1>8. CASE Crash
  BY <1>8 DEF Crash, StopInv, Carried, Updating, NoCall, NoStreamer, NewStreamer,
              StreamerState, TypeOK
<1>9. CASE Initialize
  BY <1>9 DEF Initialize, StopInv, Carried, Updating
<1> QED BY <1>1, <1>2, <1>3, <1>4, <1>5, <1>6, <1>7, <1>8, <1>9, StopInvCalls,
           StopInvStartStreaming, StopInvStreams DEF Next, StartLogStep, StopStep

(***************************************************************************)
(* For any runs, handlers and goroutines: once StopLogs has removed a run  *)
(* whose item nobody had at hand (no StartLog, no iteration of the         *)
(* monitoring loop, no update of a log time), only a new request of the    *)
(* API or a restart from a state file that still has it brings it back.    *)
(***************************************************************************)
THEOREM StopsStick == Spec => []StopSticks
<1>1. Init => StopInv BY DEF Init, StopInv
<1>2. StopInv => StopSticks BY DEF StopInv, StopSticks
<1> QED BY <1>1, <1>2, TypeCorrect, StopInvStep, PTL DEF Spec

-----------------------------------------------------------------------------
(***************************************************************************)
(* The manifest forgets no run whose pod is running.  What a handler or a  *)
(* goroutine learned about the pod's phase stays true, because phases only *)
(* advance: a handler found a pod that had left Pending, the goroutine it  *)
(* spawned decides to finish on one that does not run any more.  A process *)
(* that is down has nothing left to forget.                                *)
(***************************************************************************)

FoundInv ==
    \A c \in Callers, r \in Runs : call[c][r].pc = "found" => pod[r] # "Pending"

PodInv ==
    \A s \in Streamers :
        /\ streamer[s].pc # "none" => pod[streamer[s].run] # "Pending"
        /\ streamer[s].pc = "finish" => pod[streamer[s].run] # "Running"

DownInv ==
    server = "down" =>
        /\ manifest = {} /\ writing = NoWrite
        /\ \A c \in Callers, r \in Runs : call[c][r].pc = "idle"
        /\ \A s \in Streamers : streamer[s].pc = "none"

LEMMA DownInvStep == TypeOK /\ DownInv /\ [Next]_vars => DownInv'
<1> SUFFICES ASSUME TypeOK, DownInv, [Next]_vars, server' = "down"
             PROVE  /\ manifest' = {} /\ writing' = NoWrite
                    /\ \A c \in Callers, r \in Runs : call'[c][r].pc = "idle"
                    /\ \A s \in Streamers : streamer'[s].pc = "none"
  BY DEF DownInv
<1> USE DEF stores, disk
<1>1. CASE Crash BY <1>1 DEF Crash, NoCall, NoStreamer, NewStreamer, StreamerState
<1>2. CASE ~Crash
  <2>1. server = "down"
    BY <1>2 DEF Next, vars, APIStartLog, StartLog, MonitorCheck, MonitorStartLog,
      MonitorTick, PodStep,
      PodStarts, PodWrites, PodCompletes, PodDeleted, StartLogStep, FindPodFails, FindPod,
      StartStreaming, Track, StreamerStep, OpenStream, OpenStreamFails, ReadChunk,
      ReadFails, ReadEOF, CheckPod, FinishStreaming, SaveLastLogTime, StoreLastLogTime,
      Updating, Untrack, StopLogs,
      StopProject, StopStep, StopManifest, StopCurrentState, StateFileStep,
      BeginStateWrite, EndStateWrite, Initialize
  <2>2. ~\E s \in Streamers : StreamerStep(s)
    BY <2>1 DEF DownInv, StreamerStep, OpenStream, OpenStreamFails, ReadChunk, ReadFails,
                ReadEOF, CheckPod, FinishStreaming, SaveLastLogTime, StoreLastLogTime,
                Updating, Untrack
  <2>3. ~\E c \in Callers, r \in Runs : StartLogStep(c, r)
    BY <2>1 DEF DownInv, StartLogStep, FindPodFails, FindPod, StartStreaming, Track
  <2>4. ~\E r \in Runs : APIStartLog(r) \/ MonitorCheck(r) \/ MonitorStartLog(r)
    BY <2>1 DEF DownInv, APIStartLog, MonitorCheck, MonitorStartLog, Callers
  <2>5. CASE UNCHANGED vars BY <2>1, <2>5 DEF DownInv, vars
  <2>6. CASE \E r \in Runs : PodStep(r)
    BY <2>1, <2>6 DEF DownInv, PodStep, PodStarts, PodWrites, PodCompletes, PodDeleted
  <2>7. CASE StopStep
    BY <2>1, <2>7 DEF DownInv, StopStep, StopManifest, StopCurrentState, RemoveItems
  <2> QED BY <1>2, <2>1, <2>2, <2>3, <2>4, <2>5, <2>6, <2>7
          DEF Next, DownInv, MonitorTick, StopLogs, StopProject, StateFileStep,
              BeginStateWrite, EndStateWrite, Initialize
<1> QED BY <1>1, <1>2

\* Phases only advance.
LEMMA PhasesAdvance ==
    ASSUME TypeOK, NEW r \in Runs, PodStep(r)
    PROVE  \A q \in Runs : /\ pod[q] # "Pending" => pod'[q] # "Pending"
                           /\ pod[q] \notin {"Pending", "Running"} => pod'[q] # "Running"
BY DEF PodStep, PodStarts, PodWrites, PodCompletes, PodDeleted, TypeOK

LEMMA FoundInvStep == TypeOK /\ FoundInv /\ [Next]_vars => FoundInv'
<1> SUFFICES ASSUME TypeOK, FoundInv, [Next]_vars PROVE FoundInv' OBVIOUS
<1> USE DEF pods
<1>1. CASE \/ UNCHANGED vars \/ (\E s \in Streamers : StreamerStep(s))
           \/ (\E R \in SUBSET Runs : StopLogs(R)) \/ StopProject \/ StopStep
           \/ StateFileStep \/ Initialize
  <2>1. UNCHANGED <<call, pod>>
    BY <1>1 DEF vars, StreamerStep, OpenStream, OpenStreamFails, ReadChunk, ReadFails,
      ReadEOF, CheckPod, FinishStreaming, SaveLastLogTime, StoreLastLogTime, Updating,
      Untrack, StopLogs, StopProject,
      StopStep, StopManifest, StopCurrentState, StateFileStep, BeginStateWrite,
      EndStateWrite, Initialize
  <2> QED BY <2>1 DEF FoundInv
<1>2. ASSUME NEW r \in Runs, PodStep(r) PROVE FoundInv'
  <2>1. UNCHANGED call
    BY <1>2 DEF PodStep, PodStarts, PodWrites, PodCompletes, PodDeleted
  <2> QED BY <1>2, <2>1, PhasesAdvance DEF FoundInv
<1>3. ASSUME NEW r \in Runs,
             APIStartLog(r) \/ MonitorCheck(r) \/ MonitorStartLog(r)
      PROVE  FoundInv'
  BY <1>3 DEF APIStartLog, MonitorCheck, MonitorStartLog, StartLog, NoCall, FoundInv,
    Callers, TypeOK
<1>4. CASE MonitorTick
  <2>1. \A r \in Runs : call'["monitor"][r].pc # "found"
    BY <1>4 DEF MonitorTick, NoCall, Callers, TypeOK
  <2>2. call'["api"] = call["api"] BY <1>4 DEF MonitorTick, Callers, TypeOK
  <2> QED BY <1>4, <2>1, <2>2 DEF MonitorTick, FoundInv, Callers
<1>5. ASSUME NEW c \in Callers, NEW r \in Runs, StartLogStep(c, r) PROVE FoundInv'
  BY <1>5 DEF StartLogStep, FindPodFails, FindPod, StartStreaming, Track, NoCall,
              FoundInv, TypeOK
<1>6. CASE Crash BY <1>6 DEF Crash, NoCall, FoundInv
<1> QED BY <1>1, <1>2, <1>3, <1>4, <1>5, <1>6 DEF Next

\* Steps that leave the goroutines alone.
LEMMA PodInvFrame ==
    ASSUME TypeOK, PodInv, UNCHANGED streamer,
           UNCHANGED pod \/ \E r \in Runs : PodStep(r)
    PROVE  PodInv'
<1>1. CASE UNCHANGED pod BY <1>1 DEF PodInv
<1>2. ASSUME NEW r \in Runs, PodStep(r) PROVE PodInv'
  <2>1. \A s \in Streamers : streamer[s].pc # "none" => streamer[s].run \in Runs
    BY LiveStreamer
  <2> QED BY <1>2, <2>1, PhasesAdvance DEF PodInv
<1> QED BY <1>1, <1>2

\* One goroutine moves to a state that satisfies the invariant.
LEMMA PodInvMove ==
    ASSUME TypeOK, PodInv, NEW s \in Streamers, NEW new, UNCHANGED pod,
           streamer' = [streamer EXCEPT ![s] = new],
           new.pc # "none" => pod[new.run] # "Pending",
           new.pc = "finish" => pod[new.run] # "Running"
    PROVE  PodInv'
<1>1. \A q \in Streamers : streamer'[q] = IF q = s THEN new ELSE streamer[q]
  BY DEF TypeOK
<1> QED BY <1>1 DEF PodInv

LEMMA PodInvBailOut ==
    ASSUME TypeOK, PodInv, NEW s \in Streamers, NEW time, BailOut(s, time),
           streamer[s].pc # "none", UNCHANGED pod
    PROVE  PodInv'
<1> DEFINE new == NewStreamer(streamer[s].run, "exit", time)
<1>1. new.pc = "exit" /\ new.run = streamer[s].run BY DEF NewStreamer, StreamerState
<1>2. streamer' = [streamer EXCEPT ![s] = new] BY DEF BailOut
<1> HIDE DEF new
<1> QED BY <1>1, <1>2, PodInvMove DEF PodInv

LEMMA PodInvStreams ==
    ASSUME TypeOK, PodInv, NEW s \in Streamers, StreamerStep(s)
    PROVE  PodInv'
<1> USE DEF pods
<1> DEFINE r == streamer[s].run
<1>1. ASSUME OpenStream(s) PROVE PodInv'
  <2>1. PICK first \in FirstChunks(streamer[s].since) :
           streamer' = [streamer EXCEPT ![s] =
             StreamerState(r, "read", first, first, streamer[s].since, 0)]
    BY <1>1 DEF OpenStream
  <2> DEFINE new == StreamerState(r, "read", first, first, streamer[s].since, 0)
  <2>2. new.pc = "read" /\ new.run = r BY DEF StreamerState
  <2>3. streamer' = [streamer EXCEPT ![s] = new] BY <2>1
  <2> HIDE DEF new
  <2> QED BY <1>1, <2>2, <2>3, PodInvMove DEF PodInv, OpenStream
<1>2. ASSUME OpenStreamFails(s) PROVE PodInv'
  BY <1>2, PodInvBailOut DEF OpenStreamFails
<1>3. ASSUME ReadChunk(s) PROVE PodInv'
  <2>1. streamer[s].pc = "read" /\ UNCHANGED pod BY <1>3 DEF ReadChunk
  <2>2. CASE BailOut(s, Now(s)) BY <2>1, <2>2, PodInvBailOut
  <2>3. ASSUME NEW location \in {"read", "save"},
               streamer' = [streamer EXCEPT ![s] =
                 StreamerState(r, location, streamer[s].first, streamer[s].next + 1,
                               Now(s), UnsavedChunks(streamer[s].unsaved + 1))]
        PROVE  PodInv'
    <3> DEFINE new == StreamerState(r, location, streamer[s].first, streamer[s].next + 1,
                                    Now(s), UnsavedChunks(streamer[s].unsaved + 1))
    <3>1. new.pc = location /\ new.run = r BY DEF StreamerState
    <3>2. streamer' = [streamer EXCEPT ![s] = new] BY <2>3
    <3> HIDE DEF new
    <3> QED BY <2>1, <3>1, <3>2, PodInvMove DEF PodInv
  <2> QED BY <1>3, <2>2, <2>3, ChunkRead
<1>4. ASSUME ReadFails(s) PROVE PodInv' BY <1>4, PodInvBailOut DEF ReadFails
<1>5. ASSUME ReadEOF(s) PROVE PodInv'
  <2> DEFINE new == StreamerState(r, "check", streamer[s].first, streamer[s].next,
                                  Now(s), 0)
  <2>1. new.pc = "check" /\ new.run = r BY DEF StreamerState
  <2>2. streamer' = [streamer EXCEPT ![s] = new] BY <1>5 DEF ReadEOF
  <2> HIDE DEF new
  <2> QED BY <1>5, <2>1, <2>2, PodInvMove DEF PodInv, ReadEOF
<1>6. ASSUME CheckPod(s) PROVE PodInv'
  <2>1. CASE BailOut(s, streamer[s].since) BY <1>6, <2>1, PodInvBailOut DEF CheckPod
  <2>2. CASE streamer' = [streamer EXCEPT ![s].pc = "finish"] /\ pod[r] # "Running"
    BY <1>6, <2>2 DEF CheckPod, PodInv, TypeOK, StreamerStates
  <2> QED BY <1>6, <2>1, <2>2 DEF CheckPod
<1>7. ASSUME FinishStreaming(s) PROVE PodInv' BY <1>7, PodInvBailOut DEF FinishStreaming
<1>8. ASSUME SaveLastLogTime(s) PROVE PodInv'
  <2> DEFINE new == IF r \in manifest THEN NewStreamer(r, "resave", streamer[s].since)
                    ELSE NewStreamer(r, "untrack", 0)
  <2>1. new.pc \in {"resave", "untrack"} /\ new.run = r BY DEF NewStreamer, StreamerState
  <2>2. streamer' = [streamer EXCEPT ![s] = new] BY <1>8 DEF SaveLastLogTime
  <2> HIDE DEF new
  <2> QED BY <1>8, <2>1, <2>2, PodInvMove DEF PodInv, SaveLastLogTime
<1>9. ASSUME Untrack(s) PROVE PodInv'
  BY <1>9, PodInvMove DEF Untrack, NoStreamer, NewStreamer, StreamerState
<1>10. ASSUME StoreLastLogTime(s) PROVE PodInv'
  <2> DEFINE new == streamer'[s]
  <2>1. new.pc \in {"read", "untrack"} /\ new.run = r
    BY <1>10 DEF StoreLastLogTime, NewStreamer, StreamerState, TypeOK, StreamerStates
  <2>2. streamer' = [streamer EXCEPT ![s] = new] BY <1>10 DEF StoreLastLogTime, TypeOK
  <2> HIDE DEF new
  <2> QED BY <1>10, <2>1, <2>2, PodInvMove DEF PodInv, StoreLastLogTime, Updating
<1> QED BY <1>1, <1>2, <1>3, <1>4, <1>5, <1>6, <1>7, <1>8, <1>9, <1>10 DEF StreamerStep

LEMMA PodInvStep == TypeOK /\ FoundInv /\ PodInv /\ [Next]_vars => PodInv'
<1> SUFFICES ASSUME TypeOK, FoundInv, PodInv, [Next]_vars PROVE PodInv' OBVIOUS
<1> USE DEF pods
<1>1. CASE \/ UNCHANGED vars
           \/ \E r \in Runs : APIStartLog(r) \/ MonitorCheck(r) \/ MonitorStartLog(r)
           \/ \E c \in Callers, r \in Runs :
                 FindPodFails(c, r) \/ FindPod(c, r) \/ Track(c, r)
           \/ MonitorTick \/ (\E R \in SUBSET Runs : StopLogs(R)) \/ StopProject
           \/ StopStep \/ StateFileStep \/ Initialize
  <2>1. UNCHANGED <<streamer, pod>>
    BY <1>1 DEF vars, APIStartLog, MonitorCheck, MonitorStartLog, StartLog, FindPodFails,
      FindPod, Track,
      MonitorTick, StopLogs, StopProject, StopStep, StopManifest, StopCurrentState,
      StateFileStep, BeginStateWrite, EndStateWrite, Initialize
  <2> QED BY <2>1, PodInvFrame
<1>2. ASSUME NEW r \in Runs, PodStep(r) PROVE PodInv'
  <2>1. UNCHANGED streamer
    BY <1>2 DEF PodStep, PodStarts, PodWrites, PodCompletes, PodDeleted
  <2> QED BY <1>2, <2>1, PodInvFrame
<1>3. ASSUME NEW c \in Callers, NEW r \in Runs, NEW s \in Streamers,
             StartStreaming(c, r, s)
      PROVE  PodInv'
  <2> DEFINE new == NewStreamer(r, "open", call[c][r].since)
  <2>1. new.pc = "open" /\ new.run = r BY DEF NewStreamer, StreamerState
  <2>2. streamer' = [streamer EXCEPT ![s] = new] BY <1>3 DEF StartStreaming
  <2> HIDE DEF new
  <2> QED BY <1>3, <2>1, <2>2, PodInvMove DEF StartStreaming, FoundInv
<1>4. CASE Crash
  BY <1>4 DEF Crash, PodInv, NoStreamer, NewStreamer, StreamerState
<1> QED BY <1>1, <1>2, <1>3, <1>4, PodInvStreams DEF Next, StartLogStep

\* What each step may remove from the manifest.
LEMMA Removals ==
    ASSUME TypeOK, PodInv, DownInv, Next, NEW r \in manifest \ manifest'
    PROVE  pod[r] # "Running" \/ r \in stop'.half \/ server' = "down"
<1> USE DEF stores
<1>1. CASE \/ \E q \in Runs :
                 APIStartLog(q) \/ MonitorCheck(q) \/ MonitorStartLog(q) \/ PodStep(q)
           \/ \E c \in Callers, q \in Runs : StartLogStep(c, q)
           \/ MonitorTick \/ (\E R \in SUBSET Runs : StopLogs(R)) \/ StopCurrentState
           \/ StateFileStep
  <2>1. manifest \subseteq manifest'
    BY <1>1 DEF APIStartLog, MonitorCheck, MonitorStartLog, StartLog, PodStep, PodStarts,
      PodWrites,
      PodCompletes, PodDeleted, StartLogStep, FindPodFails, FindPod, StartStreaming, Track,
      MonitorTick, StopLogs, StopCurrentState, StateFileStep, BeginStateWrite,
      EndStateWrite
  <2> QED BY <2>1
<1>2. ASSUME NEW s \in Streamers, StreamerStep(s) PROVE pod[r] # "Running"
  <2>1. FinishStreaming(s) /\ r = streamer[s].run
    BY <1>2 DEF StreamerStep, OpenStream, OpenStreamFails, ReadChunk, ReadFails, ReadEOF,
                CheckPod, FinishStreaming, RemoveItems, SaveLastLogTime, StoreLastLogTime,
                UpdateLastLogTime, Untrack
  <2> QED BY <2>1 DEF PodInv, FinishStreaming
<1>3. CASE StopProject BY <1>3 DEF StopProject, TypeOK
<1>4. ASSUME NEW q \in Runs, StopManifest(q) PROVE r \in stop'.half
  BY <1>4 DEF StopManifest, RemoveItems
<1>5. CASE Crash BY <1>5 DEF Crash
<1>6. CASE Initialize BY <1>6 DEF Initialize, DownInv
<1> QED BY <1>1, <1>2, <1>3, <1>4, <1>5, <1>6 DEF Next, StopStep

(***************************************************************************)
(* For any runs, goroutines and faults: a failure of a stream never makes  *)
(* the collector forget a run whose pod is still writing logs.             *)
(***************************************************************************)
THEOREM ForgetsOnlyWhenDone == Spec => DroppedOnlyWhenDone
<1>1. Init => FoundInv /\ PodInv /\ DownInv
  BY DEF Init, FoundInv, PodInv, DownInv, NoCall, NoStreamer, NewStreamer, StreamerState
<1>2. TypeOK /\ PodInv /\ DownInv /\ [Next]_vars
      => [\A r \in manifest \ manifest' :
            pod[r] # "Running" \/ r \in stop'.half \/ server' = "down"]_vars
  BY Removals
<1> QED BY <1>1, <1>2, TypeCorrect, FoundInvStep, PodInvStep, DownInvStep, PTL
        DEF Spec, DroppedOnlyWhenDone

-----------------------------------------------------------------------------
(***************************************************************************)
(* A goroutine that finishes has copied the whole log.  Everything from    *)
(* its first chunk to the one it delivers next is in the file, and an EOF  *)
(* means that the pod was done and nothing was left, or was deleted; a pod *)
(* that is done writes no more.                                            *)
(***************************************************************************)

Copied(x) ==
    x.pc \in {"read", "save", "check", "finish"} =>
        \A i \in x.first..x.next - 1 : i \in collected[x.run]

AtEnd(x) ==
    x.pc \in {"check", "finish"} =>
        pod[x.run] = "Gone" \/ (pod[x.run] = "Done" /\ x.next > emitted[x.run])

SessionInv == \A s \in Streamers : Copied(streamer[s]) /\ AtEnd(streamer[s])

\* The file only grows, and a goroutine's end stays the end.
Onward ==
    \A r \in Runs :
        /\ collected[r] \subseteq collected'[r]
        /\ pod[r] = "Gone" => pod'[r] = "Gone"
        /\ pod[r] = "Done" => /\ pod'[r] \in {"Done", "Gone"}
                              /\ emitted'[r] = emitted[r]

\* A goroutine that does not move.
LEMMA SessionStays ==
    ASSUME TypeOK, SessionInv, Onward, NEW q \in Streamers, streamer'[q] = streamer[q]
    PROVE  Copied(streamer[q])' /\ AtEnd(streamer[q])'
<1>1. Copied(streamer[q]) /\ AtEnd(streamer[q]) BY DEF SessionInv
<1>2. CASE streamer[q].pc \notin {"read", "save", "check", "finish"} BY <1>2 DEF Copied,
  AtEnd
<1>3. CASE streamer[q].pc \in {"read", "save", "check", "finish"}
  <2>1. streamer[q].run \in Runs BY <1>3, LiveStreamer
  <2>2. Copied(streamer[q])' BY <1>1, <2>1 DEF Copied, Onward
  <2>3. AtEnd(streamer[q])' BY <1>1, <2>1 DEF AtEnd, Onward
  <2> QED BY <2>2, <2>3
<1> QED BY <1>2, <1>3

LEMMA SessionFrame ==
    ASSUME TypeOK, SessionInv, Onward, UNCHANGED streamer
    PROVE  SessionInv'
BY SessionStays DEF SessionInv

LEMMA SessionMove ==
    ASSUME TypeOK, SessionInv, Onward, NEW s \in Streamers,
           \A q \in Streamers \ {s} : streamer'[q] = streamer[q],
           Copied(streamer[s])', AtEnd(streamer[s])'
    PROVE  SessionInv'
BY SessionStays DEF SessionInv

\* A goroutine elsewhere than between its open stream and its end.
LEMMA SessionElsewhere ==
    ASSUME TypeOK, SessionInv, Onward, NEW s \in Streamers, NEW new,
           streamer' = [streamer EXCEPT ![s] = new],
           new.pc \notin {"read", "save", "check", "finish"}
    PROVE  SessionInv'
<1>1. \A q \in Streamers : streamer'[q] = IF q = s THEN new ELSE streamer[q]
  BY DEF TypeOK
<1>2. Copied(streamer[s])' /\ AtEnd(streamer[s])' BY <1>1 DEF Copied, AtEnd
<1> QED BY <1>1, <1>2, SessionMove

LEMMA SessionBailOut ==
    ASSUME TypeOK, SessionInv, Onward, NEW s \in Streamers, NEW time, BailOut(s, time)
    PROVE  SessionInv'
<1> DEFINE new == NewStreamer(streamer[s].run, "exit", time)
<1>1. new.pc = "exit" BY DEF NewStreamer, StreamerState
<1>2. streamer' = [streamer EXCEPT ![s] = new] BY DEF BailOut
<1> HIDE DEF new
<1> QED BY <1>1, <1>2, SessionElsewhere

\* The streaming goroutine.
LEMMA SessionStreams ==
    ASSUME "rotation" \notin Faults, TypeOK, SessionInv, NEW s \in Streamers,
           StreamerStep(s)
    PROVE  SessionInv'
<1> USE DEF pods
<1> DEFINE x == streamer[s]
           r == streamer[s].run
<1>0. /\ x.first \in Nat /\ x.next \in Nat /\ x \in StreamerStates
      /\ Copied(x) /\ AtEnd(x)
  BY DEF TypeOK, StreamerStates, SessionInv
<1>1. ASSUME UNCHANGED <<pod, emitted, collected>>
      PROVE  Onward
  BY <1>1 DEF Onward
<1>2. ASSUME OpenStream(s) PROVE SessionInv'
  <2>1. PICK first \in FirstChunks(x.since) :
          streamer' = [streamer EXCEPT ![s] = StreamerState(r, "read", first, first,
          x.since, 0)]
    BY <1>2 DEF OpenStream
  <2> DEFINE new == StreamerState(r, "read", first, first, x.since, 0)
  <2>2. new.pc = "read" /\ new.first = first /\ new.next = first BY DEF StreamerState
  <2>3. first \in Nat
    <3>1. x.since \in Nat BY <1>0 DEF StreamerStates, Times
    <3> QED BY <3>1 DEF FirstChunks
  <2>4. streamer' = [streamer EXCEPT ![s] = new] BY <2>1
  <2> HIDE DEF new
  <2>5. \A q \in Streamers : streamer'[q] = IF q = s THEN new ELSE streamer[q]
    BY <2>4 DEF TypeOK
  <2>6. Copied(streamer[s])' BY <2>2, <2>3, <2>5 DEF Copied
  <2>7. AtEnd(streamer[s])' BY <2>2, <2>5 DEF AtEnd
  <2>8. Onward BY <1>1, <1>2 DEF OpenStream
  <2> QED BY <2>5, <2>6, <2>7, <2>8, SessionMove
<1>3. ASSUME OpenStreamFails(s) PROVE SessionInv'
  BY <1>1, <1>3, SessionBailOut DEF OpenStreamFails
<1>4. ASSUME ReadChunk(s) PROVE SessionInv'
  <2>1. r \in Runs /\ x.pc = "read" BY <1>4, LiveStreamer DEF ReadChunk
  <2>2. collected' = [collected EXCEPT ![r] = @ \cup {x.next}] BY <1>4 DEF ReadChunk
  <2>3. Onward
    <3>1. pod' = pod /\ emitted' = emitted BY <1>4 DEF ReadChunk
    <3>2. \A q \in Runs : collected[q] \subseteq collected'[q] BY <2>2 DEF TypeOK
    <3> QED BY <3>1, <3>2 DEF Onward
  <2>4. CASE BailOut(s, Now(s)) BY <2>3, <2>4, SessionBailOut
  <2>5. ASSUME NEW location \in {"read", "save"},
               streamer' = [streamer EXCEPT ![s] =
                 StreamerState(r, location, x.first, x.next + 1, Now(s),
                               UnsavedChunks(x.unsaved + 1))]
        PROVE  SessionInv'
    <3> DEFINE new == StreamerState(r, location, x.first, x.next + 1, Now(s),
                                    UnsavedChunks(x.unsaved + 1))
    <3>0. /\ new.pc = location /\ new.run = r
          /\ new.first = x.first /\ new.next = x.next + 1
          /\ streamer' = [streamer EXCEPT ![s] = new]
      BY <2>5 DEF StreamerState
    <3> HIDE DEF new
    <3>1. \A q \in Streamers : streamer'[q] = IF q = s THEN new ELSE streamer[q]
      BY <3>0 DEF TypeOK
    <3>2. collected'[r] = collected[r] \cup {x.next} BY <2>1, <2>2 DEF TypeOK
    <3>3. \A i \in x.first..x.next - 1 : i \in collected[r] BY <1>0, <2>1 DEF Copied
    <3>4. \A i \in x.first..(x.next + 1) - 1 : i \in collected'[r]
      <4> SUFFICES ASSUME NEW i \in x.first..(x.next + 1) - 1
          PROVE  i \in collected'[r]
        OBVIOUS
      <4>1. i = x.next \/ i \in x.first..x.next - 1 BY <1>0
      <4> QED BY <3>2, <3>3, <4>1
    <3>5. Copied(streamer[s])' BY <3>0, <3>1, <3>4 DEF Copied
    <3>6. AtEnd(streamer[s])' BY <3>0, <3>1 DEF AtEnd
    <3> QED BY <2>3, <3>1, <3>5, <3>6, SessionMove
  <2> QED BY <1>4, <2>4, <2>5, ChunkRead
<1>5. ASSUME ReadFails(s) PROVE SessionInv'
  BY <1>1, <1>5, SessionBailOut DEF ReadFails
<1>6. ASSUME ReadEOF(s) PROVE SessionInv'
  <2> DEFINE new == StreamerState(r, "check", x.first, x.next, Now(s), 0)
  <2>1. /\ new.pc = "check" /\ new.run = r /\ new.first = x.first /\ new.next = x.next
    BY DEF StreamerState
  <2>2. streamer' = [streamer EXCEPT ![s] = new] BY <1>6 DEF ReadEOF
  <2> HIDE DEF new
  <2>3. \A q \in Streamers : streamer'[q] = IF q = s THEN new ELSE streamer[q]
    BY <2>2 DEF TypeOK
  <2>4. /\ pod' = pod /\ emitted' = emitted /\ collected' = collected /\ x.pc = "read"
        /\ pod[r] = "Gone" \/ (pod[r] = "Done" /\ x.next > emitted[r])
    BY <1>6 DEF ReadEOF
  <2>5. Copied(streamer[s])' BY <1>0, <2>1, <2>3, <2>4 DEF Copied
  <2>6. AtEnd(streamer[s])' BY <2>1, <2>3, <2>4 DEF AtEnd
  <2>7. Onward BY <1>1, <2>4
  <2> QED BY <2>3, <2>5, <2>6, <2>7, SessionMove
<1>7. ASSUME CheckPod(s) PROVE SessionInv'
  <2>1. pod' = pod /\ emitted' = emitted /\ collected' = collected /\ x.pc = "check"
    BY <1>7 DEF CheckPod
  <2>2. Onward BY <1>1, <2>1
  <2>3. CASE BailOut(s, x.since) BY <2>2, <2>3, SessionBailOut
  <2>4. CASE streamer' = [streamer EXCEPT ![s].pc = "finish"]
    <3>1. /\ \A q \in Streamers \ {s} : streamer'[q] = streamer[q]
          /\ streamer'[s] = [x EXCEPT !.pc = "finish"]
      BY <2>4 DEF TypeOK
    <3>2. /\ streamer'[s].run = r /\ streamer'[s].first = x.first
          /\ streamer'[s].next = x.next /\ streamer'[s].pc = "finish"
      BY <1>0, <3>1 DEF StreamerStates
    <3>3. Copied(streamer[s])' BY <1>0, <2>1, <3>2 DEF Copied
    <3>4. AtEnd(streamer[s])' BY <1>0, <2>1, <3>2 DEF AtEnd
    <3> QED BY <2>2, <3>1, <3>3, <3>4, SessionMove
  <2> QED BY <1>7, <2>3, <2>4 DEF CheckPod
<1>8. ASSUME FinishStreaming(s) PROVE SessionInv'
  BY <1>1, <1>8, SessionBailOut DEF FinishStreaming
<1>9. ASSUME SaveLastLogTime(s) PROVE SessionInv'
  <2> DEFINE new == IF r \in manifest THEN NewStreamer(r, "resave", x.since)
                    ELSE NewStreamer(r, "untrack", 0)
  <2>1. new.pc \in {"resave", "untrack"} BY DEF NewStreamer, StreamerState
  <2>2. streamer' = [streamer EXCEPT ![s] = new] BY <1>9 DEF SaveLastLogTime
  <2> HIDE DEF new
  <2>3. Onward BY <1>1, <1>9 DEF SaveLastLogTime
  <2> QED BY <2>1, <2>2, <2>3, SessionElsewhere
<1>10. ASSUME Untrack(s) PROVE SessionInv'
  <2>1. NoStreamer.pc = "none" BY DEF NoStreamer, NewStreamer, StreamerState
  <2>2. streamer' = [streamer EXCEPT ![s] = NoStreamer] BY <1>10 DEF Untrack
  <2>3. Onward BY <1>1, <1>10 DEF Untrack
  <2> QED BY <2>1, <2>2, <2>3, SessionElsewhere
<1>11. ASSUME StoreLastLogTime(s) PROVE SessionInv'
  <2>1. Onward BY <1>1, <1>11 DEF StoreLastLogTime
  <2>2. CASE x.pc = "save"
    <3>1. /\ \A q \in Streamers \ {s} : streamer'[q] = streamer[q]
          /\ streamer'[s] = [x EXCEPT !.pc = "read"]
      BY <1>11, <2>2 DEF StoreLastLogTime, TypeOK
    <3>2. /\ streamer'[s].run = r /\ streamer'[s].first = x.first
          /\ streamer'[s].next = x.next /\ streamer'[s].pc = "read"
      BY <1>0, <3>1 DEF StreamerStates
    <3>3. collected' = collected BY <1>11 DEF StoreLastLogTime
    <3>4. Copied(streamer[s])' BY <1>0, <2>2, <3>2, <3>3 DEF Copied
    <3>5. AtEnd(streamer[s])' BY <3>2 DEF AtEnd
    <3> QED BY <2>1, <3>1, <3>4, <3>5, SessionMove
  <2>3. CASE x.pc # "save"
    <3> DEFINE new == NewStreamer(r, "untrack", 0)
    <3>1. new.pc = "untrack" BY DEF NewStreamer, StreamerState
    <3>2. streamer' = [streamer EXCEPT ![s] = new] BY <1>11, <2>3 DEF StoreLastLogTime
    <3> HIDE DEF new
    <3> QED BY <2>1, <3>1, <3>2, SessionElsewhere
  <2> QED BY <2>2, <2>3
<1> QED BY <1>2, <1>3, <1>4, <1>5, <1>6, <1>7, <1>8, <1>9, <1>10, <1>11 DEF StreamerStep

LEMMA SessionStep ==
    ASSUME "rotation" \notin Faults, TypeOK, SessionInv, [Next]_vars
    PROVE  SessionInv'
<1> USE DEF pods
<1>1. CASE \/ UNCHANGED vars
           \/ \E r \in Runs : APIStartLog(r) \/ MonitorCheck(r) \/ MonitorStartLog(r)
           \/ \E c \in Callers, r \in Runs :
                 FindPodFails(c, r) \/ FindPod(c, r) \/ Track(c, r)
           \/ MonitorTick \/ (\E R \in SUBSET Runs : StopLogs(R)) \/ StopProject
           \/ StopStep \/ StateFileStep \/ Initialize
  <2>1. UNCHANGED <<streamer, pod, emitted, collected>>
    BY <1>1 DEF vars, APIStartLog, MonitorCheck, MonitorStartLog, StartLog, FindPodFails,
      FindPod, Track,
      MonitorTick, StopLogs, StopProject, StopStep, StopManifest, StopCurrentState,
      StateFileStep, BeginStateWrite, EndStateWrite, Initialize
  <2>2. Onward BY <2>1 DEF Onward
  <2> QED BY <2>1, <2>2, SessionFrame
<1>2. ASSUME NEW r \in Runs, PodStep(r) PROVE SessionInv'
  <2>1. UNCHANGED <<streamer, collected>>
    BY <1>2 DEF PodStep, PodStarts, PodWrites, PodCompletes, PodDeleted
  <2>2. Onward
    BY <1>2, <2>1 DEF PodStep, PodStarts, PodWrites, PodCompletes, PodDeleted, TypeOK,
      Onward
  <2> QED BY <2>1, <2>2, SessionFrame
<1>3. ASSUME NEW c \in Callers, NEW r \in Runs, NEW s \in Streamers,
             StartStreaming(c, r, s)
      PROVE  SessionInv'
  <2> DEFINE new == NewStreamer(r, "open", call[c][r].since)
  <2>1. new.pc = "open" BY DEF NewStreamer, StreamerState
  <2>2. streamer' = [streamer EXCEPT ![s] = new] BY <1>3 DEF StartStreaming
  <2> HIDE DEF new
  <2>3. Onward BY <1>3 DEF StartStreaming, Onward
  <2> QED BY <2>1, <2>2, <2>3, SessionElsewhere
<1>4. CASE Crash
  BY <1>4 DEF Crash, SessionInv, Copied, AtEnd, NoStreamer, NewStreamer, StreamerState
<1> QED BY <1>1, <1>2, <1>3, <1>4, SessionStreams DEF Next, StartLogStep

LEMMA SessionInit == Init => SessionInv
BY DEF Init, SessionInv, Copied, AtEnd, NoStreamer, NewStreamer, StreamerState

(***************************************************************************)
(* Unless logs are rotated, a goroutine that decides that the log is       *)
(* complete (streamPodLogs, EOF and a pod that does not run) has copied    *)
(* every chunk of its stream, or the pod was deleted under it, whatever    *)
(* other goroutines, failed writes, stops and crashes do.                  *)
(***************************************************************************)
THEOREM SessionsKeepUp ==
    ASSUME "rotation" \notin Faults
    PROVE  Spec => []SessionInv
<1>1. TypeOK /\ SessionInv /\ [Next]_vars => SessionInv' BY SessionStep
<1> QED BY <1>1, SessionInit, TypeCorrect, PTL DEF Spec

LEMMA NoPodIsGone ==
    ASSUME "deletion" \notin Faults
    PROVE  Spec => [](\A r \in Runs : pod[r] # "Gone")
<1> DEFINE Here == \A r \in Runs : pod[r] # "Gone"
<1>1. Init => Here BY DEF Init
<1>2. TypeOK /\ Here /\ [Next]_vars => Here'
  <2> SUFFICES ASSUME TypeOK, Here, [Next]_vars PROVE Here'
    OBVIOUS
  <2>1. CASE \E r \in Runs : PodStep(r)
    BY <2>1 DEF PodStep, PodStarts, PodWrites, PodCompletes, PodDeleted, TypeOK
  <2>2. CASE ~\E r \in Runs : PodStep(r)
    <3>1. pod' = pod
      BY <2>2 DEF Next, vars, pods, APIStartLog, StartLog, MonitorCheck, MonitorStartLog,
        MonitorTick,
        StartLogStep, FindPodFails, FindPod, StartStreaming, Track, StreamerStep,
        OpenStream, OpenStreamFails, ReadChunk, ReadFails, ReadEOF, CheckPod,
        FinishStreaming, SaveLastLogTime, StoreLastLogTime, Updating, Untrack, StopLogs,
        StopProject, StopStep,
        StopManifest, StopCurrentState, StateFileStep, BeginStateWrite, EndStateWrite,
        Crash, Initialize
    <3> QED BY <3>1
  <2> QED BY <2>1, <2>2
<1> QED BY <1>1, <1>2, TypeCorrect, PTL DEF Spec

(***************************************************************************)
(* With neither rotation nor deletion, "if the pod is not running, it is   *)
(* done streaming logs" is right: the session is complete.                 *)
(***************************************************************************)
THEOREM SessionsComplete ==
    ASSUME "rotation" \notin Faults, "deletion" \notin Faults
    PROVE  Spec => []SessionComplete
<1>1. TypeOK /\ SessionInv /\ (\A r \in Runs : pod[r] # "Gone") => SessionComplete
  <2> SUFFICES ASSUME TypeOK, SessionInv, \A r \in Runs : pod[r] # "Gone",
                      NEW s \in Streamers, streamer[s].pc = "finish",
                      NEW i \in streamer[s].first..Now(s)
      PROVE  i \in collected[streamer[s].run]
    BY DEF SessionComplete
  <2>1. streamer[s].run \in Runs /\ Now(s) \in Nat BY LiveStreamer DEF Times
  <2>2. streamer[s].first \in Nat /\ streamer[s].next \in Nat
    BY DEF TypeOK, StreamerStates
  <2>3. streamer[s].next > Now(s) BY <2>1 DEF SessionInv, AtEnd, Now
  <2>4. i \in streamer[s].first..streamer[s].next - 1 BY <2>1, <2>2, <2>3
  <2> QED BY <2>4 DEF SessionInv, Copied
<1> QED BY <1>1, TypeCorrect, SessionsKeepUp, NoPodIsGone, PTL

-----------------------------------------------------------------------------
(***************************************************************************)
(* The contract.  The file is empty while it is being rewritten, so that   *)
(* the end of a write changes nothing of what is persisted; the rest of    *)
(* the refinement rests on the invariants above.                           *)
(***************************************************************************)
FileInv == writing # NoWrite => stateFile.items = {}

\* The state of the contract as the collector has it.
ContractState == <<manifest, stateFile, writing, stop.todo, server, pod, CarriedRuns>>

LEMMA EncodedStateType == ASSUME TypeOK PROVE EncodedState \in FileStates
<1>1. 0 \in Times BY DEF Times
<1> QED BY <1>1 DEF EncodedState, FileStates, TypeOK

LEMMA FileInvStep == TypeOK /\ FileInv /\ [Next]_vars => FileInv'
<1> SUFFICES ASSUME TypeOK, FileInv, [Next]_vars PROVE FileInv' OBVIOUS
<1>1. CASE BeginStateWrite \/ EndStateWrite \/ Crash \/ Initialize
  BY <1>1 DEF BeginStateWrite, EndStateWrite, Crash, Initialize, FileInv,
              EmptyStateFile
<1>2. CASE ~(BeginStateWrite \/ EndStateWrite \/ Crash \/ Initialize)
  <2>1. UNCHANGED disk
    BY <1>2 DEF Next, vars, disk, APIStartLog, StartLog, MonitorCheck, MonitorStartLog,
      MonitorTick,
      PodStep, PodStarts, PodWrites, PodCompletes, PodDeleted, StartLogStep, FindPodFails,
      FindPod, StartStreaming, Track, StreamerStep, OpenStream, OpenStreamFails, ReadChunk,
      ReadFails, ReadEOF, CheckPod, FinishStreaming, SaveLastLogTime, StoreLastLogTime,
      Updating, Untrack, StopLogs,
      StopProject, StopStep, StopManifest, StopCurrentState, StateFileStep
  <2> QED BY <2>1 DEF FileInv, disk
<1> QED BY <1>1, <1>2

\* A step that changes nothing the contract speaks of.
LEMMA ContractStutter ==
    ASSUME UNCHANGED ContractState PROVE UNCHANGED Contract!vars
BY DEF ContractState, Contract!vars, SavedItems

\* Who carries what, when neither calls nor goroutines change,
LEMMA CarriedFrame ==
    ASSUME UNCHANGED <<call, streamer>> PROVE CarriedRuns' = CarriedRuns
BY DEF CarriedRuns, Carried, Updating

\* when one call changes,
LEMMA CarriedByCall ==
    ASSUME TypeOK, NEW c \in Callers, NEW r \in Runs, NEW new \in Calls,
           call' = [call EXCEPT ![c][r] = new], UNCHANGED streamer
    PROVE  IF new.pc # "idle" THEN CarriedRuns' = CarriedRuns \cup {r}
           ELSE CarriedRuns' \in {CarriedRuns, CarriedRuns \ {r}}
<1>1. \A q \in Runs \ {r} : Carried(q)' <=> Carried(q)
  BY DEF Carried, Updating, TypeOK
<1>2. new.pc # "idle" => Carried(r)' BY DEF Carried, TypeOK
<1>3. CASE new.pc # "idle" BY <1>1, <1>2, <1>3 DEF CarriedRuns
<1>4. CASE new.pc = "idle"
  <2>1. CASE Carried(r)' <=> Carried(r) BY <1>1, <1>4, <2>1 DEF CarriedRuns
  <2>2. CASE Carried(r)' /\ ~Carried(r)
    BY <1>4, <2>2 DEF Carried, Updating, TypeOK
  <2>3. CASE ~Carried(r)' /\ Carried(r)
    <3>1. CarriedRuns' = CarriedRuns \ {r} BY <1>1, <2>3 DEF CarriedRuns
    <3> QED BY <1>4, <3>1
  <2> QED BY <2>1, <2>2, <2>3
<1> QED BY <1>3, <1>4

\* and when one goroutine moves.
LEMMA CarriedByStreamer ==
    ASSUME TypeOK, NEW s \in Streamers, NEW r \in Runs, streamer[s].run = r,
           UNCHANGED call, \A t \in Streamers \ {s} : streamer'[t] = streamer[t]
    PROVE  /\ Updating(s)' /\ streamer'[s].run = r => CarriedRuns' = CarriedRuns \cup {r}
           /\ ~Updating(s)' => CarriedRuns' \in {CarriedRuns, CarriedRuns \ {r}}
           /\ ~Updating(s)' /\ ~Updating(s) => CarriedRuns' = CarriedRuns
<1>1. ASSUME ~Updating(s)' \/ streamer'[s].run = r
      PROVE  \A q \in Runs \ {r} : Carried(q)' <=> Carried(q)
  BY <1>1 DEF Carried, Updating
<1>2. Updating(s)' /\ streamer'[s].run = r => Carried(r)' BY DEF Carried
<1>3. ~Updating(s)' /\ ~Updating(s) => (Carried(r)' <=> Carried(r))
  BY DEF Carried, Updating
<1>4. ~Updating(s)' /\ Carried(r)' => Carried(r) BY DEF Carried, Updating
<1>5. ASSUME Updating(s)', streamer'[s].run = r PROVE CarriedRuns' = CarriedRuns \cup {r}
  BY <1>1, <1>2, <1>5 DEF CarriedRuns
<1>6. ASSUME ~Updating(s)' PROVE CarriedRuns' \in {CarriedRuns, CarriedRuns \ {r}}
  <2>1. CASE Carried(r)' <=> Carried(r)
    <3>1. CarriedRuns' = CarriedRuns BY <1>1, <1>6, <2>1 DEF CarriedRuns
    <3> QED BY <3>1
  <2>2. CASE ~Carried(r)' /\ Carried(r)
    <3>1. CarriedRuns' = CarriedRuns \ {r} BY <1>1, <1>6, <2>2 DEF CarriedRuns
    <3> QED BY <3>1
  <2> QED BY <1>4, <1>6, <2>1, <2>2
<1>7. ASSUME ~Updating(s)', ~Updating(s) PROVE CarriedRuns' = CarriedRuns
  BY <1>1, <1>3, <1>7 DEF CarriedRuns
<1> QED BY <1>5, <1>6, <1>7

\* A step of a handler or of the loop that only changes one call.
LEMMA ContractCall ==
    ASSUME TypeOK, NEW c \in Callers, NEW r \in Runs, NEW new \in Calls,
           call' = [call EXCEPT ![c][r] = new], UNCHANGED streamer,
           UNCHANGED <<manifest, stateFile, writing, stop, server, pod>>,
           server = "up" \/ call[c][r].pc # "idle"
    PROVE  [Contract!Next]_(Contract!vars)
<1> USE DEF SavedItems
<1>1. CASE new.pc = "idle" /\ CarriedRuns' = CarriedRuns \ {r}
  <2>1. Contract!Release(r) BY <1>1 DEF Contract!Release
  <2> QED BY <2>1 DEF Contract!Next
<1>2. CASE CarriedRuns' = CarriedRuns BY <1>2, ContractStutter DEF ContractState
<1>3. CASE new.pc # "idle" /\ call[c][r].pc # "idle"
  <2>1. r \in CarriedRuns BY <1>3 DEF CarriedRuns, Carried
  <2>2. CarriedRuns' = CarriedRuns \cup {r} BY <1>3, CarriedByCall
  <2>3. CarriedRuns' = CarriedRuns BY <2>1, <2>2
  <2> QED BY <1>2, <2>3
<1>4. CASE new.pc # "idle" /\ server = "up"
  <2>1. CarriedRuns' = CarriedRuns \cup {r} BY <1>4, CarriedByCall
  <2>2. Contract!Request(r) BY <1>4, <2>1 DEF Contract!Request
  <2> QED BY <2>2 DEF Contract!Next
<1> QED BY <1>1, <1>2, <1>3, <1>4, CarriedByCall

\* The handlers of StartLog and the monitoring loop.
LEMMA ContractCalls ==
    ASSUME TypeOK, FoundInv, DownInv,
           \/ \E r \in Runs : APIStartLog(r) \/ MonitorCheck(r) \/ MonitorStartLog(r)
           \/ MonitorTick
           \/ \E c \in Callers, r \in Runs : StartLogStep(c, r)
    PROVE  [Contract!Next]_(Contract!vars)
<1> USE DEF stores, disk, pods
<1>0. NoCall \in Calls BY DEF NoCall, Calls, Times
<1>1. ASSUME NEW c \in Callers, NEW r \in Runs, NEW s \in Streamers,
             StartStreaming(c, r, s)
      PROVE  Contract!Collect(r)
  <2>1. pod[r] # "Pending" /\ server # "down"
    BY <1>1 DEF FoundInv, DownInv, StartStreaming
  <2>2. manifest' = manifest \cup {r} /\ UNCHANGED <<stateFile, writing, stop, server,
    pod>>
    BY <1>1 DEF StartStreaming
  <2>3. r \in CarriedRuns BY <1>1 DEF StartStreaming, CarriedRuns, Carried
  <2>4. CarriedRuns' = CarriedRuns
    <3>1. Carried(r) /\ Carried(r)' BY <1>1 DEF StartStreaming, Carried, TypeOK
    <3>2. ~Updating(s) /\ ~Updating(s)'
      BY <1>1 DEF StartStreaming, Updating, NewStreamer, StreamerState, TypeOK
    <3>3. \A t \in Streamers \ {s} : streamer'[t] = streamer[t]
      BY <1>1 DEF StartStreaming, TypeOK
    <3>4. \A d \in Callers, q \in Runs \ {r} : call'[d][q] = call[d][q]
      BY <1>1 DEF StartStreaming, TypeOK
    <3>5. \A q \in Runs \ {r} : Carried(q)' <=> Carried(q)
      BY <3>2, <3>3, <3>4 DEF Carried, Updating
    <3> QED BY <3>1, <3>5 DEF CarriedRuns
  <2> QED BY <2>1, <2>2, <2>3, <2>4 DEF Contract!Collect, SavedItems
<1>2. ASSUME NEW c \in Callers, NEW r \in Runs, StartLog(c, r),
             server = "up" \/ call[c][r].pc # "idle"
      PROVE  [Contract!Next]_(Contract!vars)
  <2>1. [pc |-> "find", since |-> call[c][r].since] \in Calls BY DEF TypeOK, Calls
  <2>2. PICK new \in Calls : call' = [call EXCEPT ![c][r] = new]
    BY <1>0, <1>2, <2>1 DEF StartLog
  <2> QED BY <1>2, <2>2, ContractCall DEF StartLog
<1>3. ASSUME NEW r \in Runs, APIStartLog(r) PROVE [Contract!Next]_(Contract!vars)
  BY <1>2, <1>3 DEF APIStartLog, Callers
<1>4. ASSUME NEW r \in Runs, MonitorStartLog(r) PROVE [Contract!Next]_(Contract!vars)
  BY <1>2, <1>4 DEF MonitorStartLog, Callers
<1>5. ASSUME NEW r \in Runs, MonitorCheck(r) PROVE [Contract!Next]_(Contract!vars)
  <2>1. "monitor" \in Callers BY DEF Callers
  <2>2. [pc |-> "begin", since |-> call["monitor"][r].since] \in Calls
    BY <2>1 DEF TypeOK, Calls
  <2>3. PICK new \in Calls : call' = [call EXCEPT !["monitor"][r] = new]
    BY <1>0, <1>5, <2>2 DEF MonitorCheck
  <2> QED BY <1>5, <2>1, <2>3, ContractCall DEF MonitorCheck
<1>6. ASSUME NEW c \in Callers, NEW r \in Runs,
             FindPodFails(c, r) \/ FindPod(c, r) \/ Track(c, r)
      PROVE  [Contract!Next]_(Contract!vars)
  <2>1. [pc |-> "found", since |-> call[c][r].since] \in Calls BY DEF TypeOK, Calls
  <2>2. PICK new \in Calls : call' = [call EXCEPT ![c][r] = new]
    BY <1>0, <1>6, <2>1 DEF FindPodFails, FindPod, Track
  <2>3. /\ UNCHANGED <<streamer, manifest, stateFile, writing, stop, server, pod>>
        /\ call[c][r].pc # "idle"
    BY <1>6 DEF FindPodFails, FindPod, Track
  <2> QED BY <2>2, <2>3, ContractCall
<1>7. ASSUME MonitorTick PROVE Contract!Carry(manifest)
  <2>1. \A r \in Runs : call'["monitor"][r].pc # "idle" <=> r \in manifest
    BY <1>7 DEF MonitorTick, NoCall, TypeOK, Callers
  <2>2. call'["api"] = call["api"] BY <1>7 DEF MonitorTick, TypeOK, Callers
  <2>3. \A r \in Runs : Carried(r)' <=> Carried(r) \/ r \in manifest
    BY <1>7, <2>1, <2>2 DEF MonitorTick, Carried, Updating, Callers
  <2>4. CarriedRuns' = CarriedRuns \cup manifest
    BY <2>3 DEF CarriedRuns, TypeOK
  <2> QED BY <1>7, <2>4 DEF MonitorTick, Contract!Carry, SavedItems
<1>8. manifest \in SUBSET Runs BY DEF TypeOK
<1>9. CASE \E c \in Callers, r \in Runs : StartLogStep(c, r)
  BY <1>1, <1>6, <1>9 DEF StartLogStep, Contract!Next
<1>10. CASE MonitorTick BY <1>7, <1>8, <1>10 DEF Contract!Next
<1> QED BY <1>3, <1>4, <1>5, <1>9, <1>10

\* The streaming goroutines.
LEMMA ContractStreams ==
    ASSUME TypeOK, PodInv, DownInv, NEW s \in Streamers, StreamerStep(s)
    PROVE  [Contract!Next]_(Contract!vars)
<1> USE DEF stores, disk, pods
<1> DEFINE r == streamer[s].run
<1>0. r \in Runs /\ streamer[s].pc # "none"
  <2>1. streamer[s].pc # "none"
    BY DEF StreamerStep, OpenStream, OpenStreamFails, ReadChunk, ReadFails, ReadEOF,
           CheckPod, FinishStreaming, SaveLastLogTime, StoreLastLogTime, Updating, Untrack
  <2> QED BY <2>1, LiveStreamer
<1>1. /\ UNCHANGED <<call, stateFile, writing, stop, server, pod>>
      /\ \A t \in Streamers \ {s} : streamer'[t] = streamer[t]
  BY DEF StreamerStep, OpenStream, OpenStreamFails, ReadChunk, ReadFails, ReadEOF,
         CheckPod, FinishStreaming, BailOut, SaveLastLogTime, StoreLastLogTime, Untrack,
         TypeOK
<1> HIDE DEF r
<1>2. CASE FinishStreaming(s)
  <2>1. pod[r] \notin {"Pending", "Running"} BY <1>2 DEF FinishStreaming, PodInv, r
  <2>2. manifest' = manifest \ {r} BY <1>2 DEF FinishStreaming, RemoveItems, r
  <2>3. ~Updating(s) /\ ~Updating(s)'
    BY <1>2 DEF FinishStreaming, BailOut, Updating, NewStreamer, StreamerState, TypeOK
  <2>4. CarriedRuns' = CarriedRuns BY <1>0, <1>1, <2>3, CarriedByStreamer DEF r
  <2>5. CASE r \in manifest
    <3>1. Contract!Complete(r)
      BY <1>1, <2>1, <2>2, <2>4, <2>5 DEF Contract!Complete, SavedItems
    <3> QED BY <1>0, <3>1 DEF Contract!Next
  <2>6. CASE r \notin manifest
    <3>1. manifest' = manifest BY <2>2, <2>6
    <3> QED BY <1>1, <2>4, <3>1, ContractStutter DEF ContractState
  <2> QED BY <2>5, <2>6
<1>3. CASE StoreLastLogTime(s)
  <2>1. server # "down" BY <1>0 DEF DownInv
  <2>2. pod[r] # "Pending" BY <1>0 DEF PodInv, r
  <2>3. manifest' = manifest \cup {r} BY <1>3 DEF StoreLastLogTime, UpdateLastLogTime, r
  <2>4. r \in CarriedRuns BY <1>0, <1>3 DEF StoreLastLogTime, CarriedRuns, Carried, r
  <2>5. ~Updating(s)'
    BY <1>3 DEF StoreLastLogTime, Updating, NewStreamer, StreamerState, TypeOK,
                StreamerStates
  <2>6. CarriedRuns' \in {CarriedRuns, CarriedRuns \ {r}}
    BY <1>0, <1>1, <2>5, CarriedByStreamer DEF r
  <2>7. Contract!Collect(r)
    BY <1>1, <2>1, <2>2, <2>3, <2>4, <2>6 DEF Contract!Collect, SavedItems
  <2> QED BY <1>0, <2>7 DEF Contract!Next
<1>4. CASE ~FinishStreaming(s) /\ ~StoreLastLogTime(s)
  <2>1. manifest' = manifest /\ ~Updating(s)
    BY <1>4 DEF StreamerStep, OpenStream, OpenStreamFails, ReadChunk, ReadFails, ReadEOF,
                CheckPod, SaveLastLogTime, Untrack, Updating
  <2>2. CASE ~Updating(s)'
    <3>1. CarriedRuns' = CarriedRuns BY <1>0, <1>1, <2>1, <2>2, CarriedByStreamer DEF r
    <3> QED BY <1>1, <2>1, <3>1, ContractStutter DEF ContractState
  <2>3. CASE Updating(s)'
    <3>1. r \in manifest /\ streamer'[s].run = r
      <4>1. CASE ReadChunk(s)
        BY <2>3, <4>1 DEF ReadChunk, BailOut, Updating, NewStreamer, StreamerState,
                          TypeOK, r
      <4>2. CASE SaveLastLogTime(s)
        BY <2>3, <4>2 DEF SaveLastLogTime, Updating, NewStreamer, StreamerState, TypeOK, r
      <4>3. CASE ~ReadChunk(s) /\ ~SaveLastLogTime(s)
        BY <1>4, <2>3, <4>3 DEF StreamerStep, OpenStream, OpenStreamFails, ReadFails,
             ReadEOF, CheckPod, Untrack, BailOut, NoStreamer, NewStreamer, StreamerState,
             Updating, TypeOK, StreamerStates
      <4> QED BY <4>1, <4>2, <4>3
    <3>2. CarriedRuns' = CarriedRuns \cup {r}
      BY <1>0, <1>1, <2>3, <3>1, CarriedByStreamer DEF r
    <3>3. Contract!Carry({r})
      BY <1>1, <2>1, <3>1, <3>2 DEF Contract!Carry, SavedItems
    <3> QED BY <1>0, <3>3 DEF Contract!Next
  <2> QED BY <2>2, <2>3
<1> QED BY <1>2, <1>3, <1>4

\* The StopLogs handler.
LEMMA ContractStops ==
    ASSUME TypeOK, (\E R \in SUBSET Runs : StopLogs(R)) \/ StopProject \/ StopStep
    PROVE  [Contract!Next]_(Contract!vars)
<1> USE DEF stores, disk, pods, SavedItems
<1>0. CarriedRuns' = CarriedRuns
  BY CarriedFrame DEF StopLogs, StopProject, StopStep, StopManifest, StopCurrentState
<1>1. ASSUME NEW R \in SUBSET Runs, StopLogs(R) PROVE Contract!StopLogs(R)
  BY <1>0, <1>1 DEF StopLogs, NoStop, Contract!StopLogs
<1>2. ASSUME StopProject PROVE Contract!StopProject(Runs)
  BY <1>0, <1>2 DEF StopProject, NoStop, RemoveItems, Contract!StopProject
<1>3. ASSUME NEW r \in Runs, StopManifest(r) PROVE Contract!Stop(r)
  BY <1>0, <1>3 DEF StopManifest, RemoveItems, Contract!Stop
<1>4. CASE StopCurrentState
  BY <1>0, <1>4, ContractStutter DEF StopCurrentState, ContractState
<1> QED BY <1>1, <1>2, <1>3, <1>4 DEF StopStep, Contract!Next

\* The state file, crashes and restarts.
LEMMA ContractFile ==
    ASSUME TypeOK, DownInv, FileInv, StateFileStep \/ Crash \/ Initialize
    PROVE  [Contract!Next]_(Contract!vars)
<1> USE DEF stores, disk, pods
<1>1. ASSUME BeginStateWrite PROVE Contract!Save
  <2>1. writing' # NoWrite /\ writing'.items = manifest
    BY <1>1, EncodedStateType, NoWriteAssumption DEF BeginStateWrite, EncodedState
  <2>2. stateFile'.items = {} BY <1>1 DEF BeginStateWrite, EmptyStateFile
  <2>3. SavedItems' = manifest BY <2>1, <2>2 DEF SavedItems
  <2>4. CarriedRuns' = CarriedRuns BY <1>1, CarriedFrame DEF BeginStateWrite
  <2> QED BY <1>1, <2>3, <2>4 DEF BeginStateWrite, Contract!Save
<1>2. ASSUME EndStateWrite PROVE UNCHANGED Contract!vars
  <2>1. server # "down" /\ server' # "down" BY <1>2 DEF EndStateWrite, DownInv
  <2>2. SavedItems' = SavedItems BY <1>2 DEF EndStateWrite, FileInv, SavedItems
  <2>3. CarriedRuns' = CarriedRuns BY <1>2, CarriedFrame DEF EndStateWrite
  <2> QED BY <1>2, <2>1, <2>2, <2>3 DEF EndStateWrite, Contract!vars
<1>3. ASSUME Crash PROVE Contract!Crash
  <2>1. SavedItems' \in {SavedItems, {}} BY <1>3 DEF Crash, FileInv, SavedItems
  <2>2. CarriedRuns' = {}
    BY <1>3 DEF Crash, CarriedRuns, Carried, Updating, NoCall, NoStreamer, NewStreamer,
                StreamerState
  <2> QED BY <1>3, <2>1, <2>2 DEF Crash, NoStop, Contract!Crash
<1>4. ASSUME Initialize PROVE Contract!Restart
  <2>1. writing = NoWrite BY <1>4 DEF Initialize, DownInv
  <2>2. writing' # NoWrite /\ writing'.items = stateFile.items /\ stateFile'.items = {}
    BY <1>4, NoWriteAssumption DEF Initialize, TypeOK, EmptyStateFile
  <2>3. SavedItems = stateFile.items /\ SavedItems' = stateFile.items
    BY <2>1, <2>2 DEF SavedItems
  <2>4. CarriedRuns' = CarriedRuns BY <1>4, CarriedFrame DEF Initialize
  <2> QED BY <1>4, <2>3, <2>4 DEF Initialize, Contract!Restart
<1> QED BY <1>1, <1>2, <1>3, <1>4 DEF StateFileStep, Contract!Next

\* The pods.
LEMMA ContractPods ==
    ASSUME TypeOK, NEW r \in Runs, PodStep(r)
    PROVE  [Contract!Next]_(Contract!vars)
<1> USE DEF stores, disk, pods
<1>0. CarriedRuns' = CarriedRuns
  BY CarriedFrame DEF PodStep, PodStarts, PodWrites, PodCompletes, PodDeleted
<1>1. CASE PodWrites(r)
  BY <1>0, <1>1, ContractStutter DEF PodWrites, ContractState
<1>2. CASE PodStarts(r) \/ PodCompletes(r) \/ PodDeleted(r)
  <2>1. Contract!PodStep(r)
    BY <1>0, <1>2 DEF PodStarts, PodCompletes, PodDeleted, Contract!PodStep, SavedItems
  <2> QED BY <2>1 DEF Contract!Next
<1> QED BY <1>1, <1>2 DEF PodStep

LEMMA ContractStep ==
    ASSUME TypeOK, FoundInv, PodInv, DownInv, FileInv, [Next]_vars
    PROVE  [Contract!Next]_(Contract!vars)
<1>1. CASE UNCHANGED vars
  BY <1>1, ContractStutter, CarriedFrame DEF vars, stores, disk, pods, ContractState
<1>2. CASE Next
  BY <1>2, ContractCalls, ContractStreams, ContractStops, ContractFile, ContractPods
     DEF Next
<1> QED BY <1>1, <1>2

(***************************************************************************)
(* For any runs, goroutines, chunks and faults the collector, with its     *)
(* unlocked stores, handlers, streams and state file, implements the       *)
(* contract the API relies on.                                             *)
(***************************************************************************)
THEOREM ContractIsImplemented == Spec => ImplementsContract
<1>1. Init => FoundInv /\ PodInv /\ DownInv /\ FileInv
  BY DEF Init, FoundInv, PodInv, DownInv, FileInv, NoCall, NoStreamer, NewStreamer,
         StreamerState
<1>2. Init => Contract!Init
  BY DEF Init, NoStop, EmptyStateFile, SavedItems, CarriedRuns, Carried, Updating, NoCall,
         NoStreamer, NewStreamer, StreamerState, Contract!Init
<1> QED BY <1>1, <1>2, TypeCorrect, FoundInvStep, PodInvStep, DownInvStep, FileInvStep,
           ContractStep, PTL
        DEF Spec, ImplementsContract, Contract!Spec

=============================================================================
