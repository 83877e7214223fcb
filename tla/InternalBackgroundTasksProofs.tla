-------------------- MODULE InternalBackgroundTasksProofs --------------------
(***************************************************************************)
(* Proofs about InternalBackgroundTasks, for any names, creating threads   *)
(* and readers: the type invariant, that the active task is registered,    *)
(* and that an ended task releases its kind.                               *)
(***************************************************************************)
EXTENDS InternalBackgroundTasks, TLAPS

USE TasksAssumption

-----------------------------------------------------------------------------

\* What Goto and Return do to the actors, when these have their types.
LEMMA GotoMoves ==
    ASSUME TypeOK, NEW a \in Actors,
           NEW to \in {"function", "succeeded", "failed", "finish", "delete", "store"},
           Goto(a, to)
    PROVE  /\ actor'[a].pc = to
           /\ \A b \in Actors : b # a => actor'[b] = actor[b]
           /\ actor' \in [Actors -> ActorStates]
           /\ \A n \in Names : actor'[n].task = n
BY DEF TypeOK, Goto, Actors, ActorStates

LEMMA ReturnMoves ==
    ASSUME TypeOK, NEW a \in Actors, Return(a)
    PROVE  /\ actor'[a].pc = IF a \in Names THEN "done" ELSE "idle"
           /\ \A b \in Actors : b # a => actor'[b] = actor[b]
           /\ actor' \in [Actors -> ActorStates]
           /\ \A n \in Names : actor'[n].task = n
BY DEF TypeOK, Return, Actors, ActorStates, NotGetting

\* A creating thread that is not idle has a name.
LEMMA CreatorHasName ==
    ASSUME TypeOK, NEW c \in Creators, creator[c].pc # "idle"
    PROVE  creator[c].name \in Names
<1>1. creator[c] \in CreatorStates BY DEF TypeOK
<1>2. creator[c].name \in Names \cup {NoName} BY <1>1 DEF CreatorStates
<1> QED BY <1>2 DEF TypeOK

LEMMA InitTypes == Init => TypeOK
BY DEF Init, TypeOK, NotCreating, NotGetting, CreatorStates, ActorStates, Actors, States

LEMMA CreatorTypes ==
    ASSUME TypeOK, NEW c \in Creators,
           (\E n \in Names : CheckActive(c, n)) \/ CreatorStep(c)
    PROVE  TypeOK'
<1>1. CASE \E n \in Names : CheckActive(c, n)
  BY <1>1 DEF TypeOK, CheckActive, CreatorStates, locks
<1>2. CASE RegisterTask(c)
  <2>1. creator[c].name \in Names BY <1>2, CreatorHasName DEF RegisterTask
  <2>2. /\ creator' \in [Creators -> CreatorStates]
        /\ \A d \in Creators : creator'[d].pc = "idle" <=> creator'[d].name = NoName
    BY <1>2, <2>1 DEF TypeOK, RegisterTask, CreatorStates
  <2>3. state' \in [Names -> States] /\ \A n \in tasks' : state'[n] # "none"
    BY <1>2, <2>1 DEF TypeOK, RegisterTask, States
  <2> QED BY <1>2, <2>1, <2>2, <2>3 DEF TypeOK, RegisterTask, locks
<1>3. CASE SetActive(c)
  <2>1. creator[c].name \in Names BY <1>3, CreatorHasName DEF SetActive
  <2>2. actor' \in [Actors -> ActorStates] /\ \A n \in Names : actor'[n].task = n
    BY <1>3, <2>1, GotoMoves DEF SetActive, Actors
  <2>3. /\ creator' \in [Creators -> CreatorStates]
        /\ \A d \in Creators : creator'[d].pc = "idle" <=> creator'[d].name = NoName
    BY <1>3 DEF TypeOK, SetActive, CreatorStates, NotCreating
  <2> QED BY <1>3, <2>1, <2>2, <2>3 DEF TypeOK, SetActive
<1> QED BY <1>1, <1>2, <1>3 DEF CreatorStep

LEMMA ActorTypes ==
    ASSUME TypeOK, NEW a \in Actors, ActorStep(a)
    PROVE  TypeOK'
<1>1. actor' \in [Actors -> ActorStates] /\ \A n \in Names : actor'[n].task = n
  BY GotoMoves, ReturnMoves
     DEF ActorStep, UpdateTask, FinishCheck, FinishDelete, FinishStore
<1>2. state' \in [Names -> States] /\ \A n \in tasks' : state'[n] # "none"
  <2>1. CASE UpdateTask(a)
    <3> DEFINE n == actor[a].task
               new == actor[a].pc
    <3>1. new \in {"succeeded", "failed"} /\ tasks' = tasks
      BY <2>1 DEF UpdateTask
    <3>2. state' = state \/ state' = [state EXCEPT ![n] = new]
      BY <2>1 DEF UpdateTask
    <3> HIDE DEF n, new
    <3> QED BY <3>1, <3>2 DEF TypeOK, States
  <2>2. CASE FinishCheck(a) \/ FinishDelete(a) \/ FinishStore(a)
    BY <2>2 DEF TypeOK, FinishCheck, FinishDelete, FinishStore
  <2> QED BY <2>1, <2>2 DEF ActorStep
<1> QED BY <1>1, <1>2
        DEF TypeOK, ActorStep, UpdateTask, FinishCheck, FinishDelete, FinishStore, locks

LEMMA NextTypes == TypeOK /\ [Next]_vars => TypeOK'
<1> SUFFICES ASSUME TypeOK, [Next]_vars PROVE TypeOK' OBVIOUS
<1>1. CASE UNCHANGED vars BY <1>1 DEF TypeOK, vars, locks
<1>2. ASSUME NEW n \in Names, NEW how \in {"succeeded", "failed"}, FunctionEnds(n, how)
      PROVE  TypeOK'
  <2>1. actor' \in [Actors -> ActorStates] /\ \A m \in Names : actor'[m].task = m
    BY <1>2, GotoMoves DEF FunctionEnds, Actors
  <2> QED BY <1>2, <2>1 DEF TypeOK, FunctionEnds, locks
<1>3. ASSUME NEW g \in Getters, NEW n \in Names, GetOverdue(g, n) PROVE TypeOK'
  BY <1>3 DEF TypeOK, GetOverdue, Actors, ActorStates, locks
<1> QED BY <1>1, <1>2, <1>3, CreatorTypes, ActorTypes DEF Next

\* Every variable keeps its type, and every registered task has a state.
THEOREM TypeCorrect == Spec => []TypeOK
BY InitTypes, NextTypes, PTL DEF Spec

-----------------------------------------------------------------------------
(***************************************************************************)
(* The lock of the kind.  A name enters the pair once, as the active task, *)
(* when its wrapper is born; so the active task is never the previous one  *)
(* and is not deleted with it.  Who deletes the previous task goes on to   *)
(* replace the pair, and the pair is the only way an entry can be missing  *)
(* when it is to be deleted: a wrapper that ends in that KeyError leaves   *)
(* its task active only until then.                                        *)
(***************************************************************************)

Pending == \E a \in Actors : actor[a].pc = "store"

\* A task whose wrapper is not born has not been in the pair, and a born one
\* has a state.
UnbornInv ==
    \A n \in Names :
        IF actor[n].pc = "unborn" THEN active # n /\ previous # n
        ELSE state[n] # "none"

\* A creating thread works for a name of its own, which is not born.
CreatorInv ==
    \A c \in Creators :
        creator[c].pc # "idle" =>
            /\ actor[creator[c].name].pc = "unborn"
            /\ creator[c].pc = "activate" => creator[c].name \in tasks
            /\ \A d \in Creators : creator[d].name = creator[c].name => d = c

PairInv ==
    /\ active # NoName => active \in tasks /\ active # previous
    /\ previous # NoName => previous \in tasks \/ Pending

LockInv == UnbornInv /\ CreatorInv /\ PairInv /\ EndedReleasesKind

LEMMA InitLock == Init => LockInv
<1> SUFFICES ASSUME Init PROVE LockInv OBVIOUS
<1>1. active = NoName /\ previous = NoName BY DEF Init
<1>2. \A n \in Names : actor[n].pc = "unborn" BY DEF Init, Actors
<1>3. \A c \in Creators : creator[c].pc = "idle" BY DEF Init, NotCreating
<1>4. UnbornInv BY <1>1, <1>2 DEF UnbornInv
<1>5. CreatorInv BY <1>3 DEF CreatorInv
<1>6. PairInv /\ EndedReleasesKind BY <1>1, <1>2 DEF PairInv, EndedReleasesKind
<1> QED BY <1>4, <1>5, <1>6 DEF LockInv

LEMMA CheckActiveLock ==
    ASSUME TypeOK, LockInv, NEW c \in Creators, NEW n \in Names, CheckActive(c, n)
    PROVE  LockInv'
<1> USE DEF CheckActive, locks
<1>1. UnbornInv' /\ PairInv' /\ EndedReleasesKind'
  BY DEF LockInv, UnbornInv, PairInv, EndedReleasesKind, Pending
<1>2. actor[n].pc = "unborn" BY DEF LockInv, UnbornInv
<1>3. /\ creator'[c] = [pc |-> "register", name |-> n]
      /\ \A d \in Creators : d # c => creator'[d] = creator[d] /\ creator[d].name # n
  BY DEF TypeOK
<1>4. CreatorInv' BY <1>2, <1>3 DEF LockInv, CreatorInv
<1> QED BY <1>1, <1>4 DEF LockInv

LEMMA RegisterLock ==
    ASSUME TypeOK, LockInv, NEW c \in Creators, RegisterTask(c)
    PROVE  LockInv'
<1> USE DEF RegisterTask, locks
<1>1. creator[c].name \in Names BY CreatorHasName
<1>2. UnbornInv' BY <1>1 DEF LockInv, UnbornInv, TypeOK
<1>3. PairInv' /\ EndedReleasesKind'
  BY DEF LockInv, PairInv, EndedReleasesKind, Pending
<1>4. /\ creator'[c].pc = "activate" /\ creator'[c].name = creator[c].name
      /\ \A d \in Creators : d # c => creator'[d] = creator[d]
  BY DEF TypeOK, CreatorStates
<1>5. CreatorInv' BY <1>1, <1>4 DEF LockInv, CreatorInv
<1> QED BY <1>2, <1>3, <1>5 DEF LockInv

LEMMA SetActiveLock ==
    ASSUME TypeOK, LockInv, NEW c \in Creators, SetActive(c)
    PROVE  LockInv'
<1> DEFINE n == creator[c].name
<1>1. n \in Names /\ creator[c].pc = "activate" BY CreatorHasName DEF SetActive
<1>2. actor[n].pc = "unborn" /\ n \in tasks BY <1>1 DEF LockInv, CreatorInv
<1>3. /\ actor'[n].pc = "function"
      /\ \A b \in Actors : b # n => actor'[b] = actor[b]
  <2>1. n \in Actors /\ Goto(n, "function") BY <1>1 DEF SetActive, Actors
  <2> HIDE DEF n
  <2> QED BY <2>1, GotoMoves
<1>4. active' = n /\ UNCHANGED <<tasks, state, previous>> BY DEF SetActive
<1>5. previous # n BY <1>1, <1>2 DEF LockInv, UnbornInv
<1>6. UnbornInv'
  <2>1. state[n] # "none" BY <1>1, <1>2 DEF TypeOK
  <2> QED BY <1>1, <1>3, <1>4, <2>1 DEF LockInv, UnbornInv, Actors
<1>7. CreatorInv'
  <2>1. /\ creator'[c] = NotCreating
        /\ \A d \in Creators : d # c => creator'[d] = creator[d]
    BY DEF SetActive, TypeOK
  <2>2. ASSUME NEW d \in Creators, creator'[d].pc # "idle"
        PROVE  d # c /\ creator[d].name \in Names /\ creator[d].name # n
    <3>1. d # c BY <2>1, <2>2 DEF NotCreating
    <3> QED BY <1>1, <2>1, <2>2, <3>1, CreatorHasName DEF LockInv, CreatorInv
  <2> QED BY <1>3, <1>4, <2>1, <2>2 DEF LockInv, CreatorInv, Actors, NotCreating
<1>8. Pending => Pending' BY <1>2, <1>3 DEF Pending
<1>9. PairInv' BY <1>2, <1>4, <1>5, <1>8 DEF LockInv, PairInv
<1>10. EndedReleasesKind' BY <1>3, <1>4 DEF LockInv, EndedReleasesKind, Actors
<1> QED BY <1>6, <1>7, <1>9, <1>10 DEF LockInv

\* A step of an actor that is born and stays so: what the step may do to the
\* dictionaries without touching the names that are not born.
LEMMA BornStep ==
    ASSUME TypeOK, LockInv, NEW a \in Actors,
           actor[a].pc # "unborn", actor'[a].pc # "unborn",
           \A b \in Actors : b # a => actor'[b] = actor[b],
           creator' = creator,
           \A n \in Names : state[n] # "none" => state'[n] # "none",
           active' \in {active, NoName}, previous' \in {previous, active},
           tasks \ {previous} \subseteq tasks'
    PROVE  UnbornInv' /\ CreatorInv'
<1>1. UnbornInv' BY DEF LockInv, UnbornInv, Actors
<1>2. CreatorInv'
  <2> SUFFICES ASSUME NEW c \in Creators, creator[c].pc # "idle"
               PROVE  /\ actor'[creator[c].name].pc = "unborn"
                      /\ creator[c].pc = "activate" => creator[c].name \in tasks'
                      /\ \A d \in Creators : creator[d].name = creator[c].name => d = c
    BY DEF CreatorInv
  <2>1. creator[c].name \in Names /\ actor[creator[c].name].pc = "unborn"
    BY CreatorHasName DEF LockInv, CreatorInv
  <2>2. creator[c].name # previous BY <2>1 DEF LockInv, UnbornInv
  <2>3. actor'[creator[c].name].pc = "unborn" BY <2>1 DEF Actors
  <2> QED BY <2>2, <2>3 DEF LockInv, CreatorInv
<1> QED BY <1>1, <1>2

\* A born actor that leaves the dictionaries alone and does not clear the pair.
LEMMA QuietStep ==
    ASSUME TypeOK, LockInv, NEW a \in Actors,
           actor[a].pc \notin {"unborn", "store"}, actor'[a].pc # "unborn",
           \A b \in Actors : b # a => actor'[b] = actor[b],
           UNCHANGED <<tasks, active, previous, creator>>,
           \A n \in Names : state[n] # "none" => state'[n] # "none",
           a \in Names /\ actor'[a].pc = "done" => active # a
    PROVE  LockInv'
<1>1. UnbornInv' /\ CreatorInv' BY BornStep
<1>2. Pending => Pending' BY DEF Pending
<1>3. PairInv' BY <1>2 DEF LockInv, PairInv
<1>4. EndedReleasesKind'
  BY <1>2 DEF LockInv, EndedReleasesKind, Pending, Actors
<1> QED BY <1>1, <1>3, <1>4 DEF LockInv

LEMMA FunctionEndsLock ==
    ASSUME TypeOK, LockInv, NEW n \in Names, NEW how \in {"succeeded", "failed"},
           FunctionEnds(n, how)
    PROVE  LockInv'
<1>1. n \in Actors /\ Goto(n, how) /\ actor[n].pc = "function"
  BY DEF FunctionEnds, Actors
<1>2. /\ actor'[n].pc = how
      /\ \A b \in Actors : b # n => actor'[b] = actor[b]
  BY <1>1, GotoMoves
<1>3. UNCHANGED <<tasks, active, previous, creator, state>> BY DEF FunctionEnds, locks
<1> QED BY <1>1, <1>2, <1>3, QuietStep

LEMMA GetOverdueLock ==
    ASSUME TypeOK, LockInv, NEW g \in Getters, NEW n \in Names, GetOverdue(g, n)
    PROVE  LockInv'
<1>1. g \in Actors /\ actor[g].pc = "idle" BY DEF GetOverdue, Actors
<1>2. /\ actor'[g].pc = "failed"
      /\ \A b \in Actors : b # g => actor'[b] = actor[b]
  BY <1>1 DEF GetOverdue, TypeOK
<1>3. UNCHANGED <<tasks, active, previous, creator, state>> BY DEF GetOverdue, locks
<1> QED BY <1>1, <1>2, <1>3, QuietStep

LEMMA UpdateTaskLock ==
    ASSUME TypeOK, LockInv, NEW a \in Actors, UpdateTask(a)
    PROVE  LockInv'
<1> DEFINE n == actor[a].task
           new == actor[a].pc
<1>1. new \in {"succeeded", "failed"} /\ UNCHANGED <<tasks, active, previous, creator>>
  BY DEF UpdateTask, locks
<1>2. CASE n \in tasks
  <2>1. Goto(a, "finish") /\ state' = [state EXCEPT ![n] = new]
    BY <1>2 DEF UpdateTask
  <2>2. /\ actor'[a].pc = "finish"
        /\ \A b \in Actors : b # a => actor'[b] = actor[b]
    BY <2>1, GotoMoves
  <2>3. \A m \in Names : state[m] # "none" => state'[m] # "none"
    BY <1>1, <2>1 DEF TypeOK
  <2> QED BY <1>1, <2>2, <2>3, QuietStep
<1>3. CASE n \notin tasks
  <2>1. Return(a) /\ state' = state BY <1>3 DEF UpdateTask
  <2>2. /\ actor'[a].pc = IF a \in Names THEN "done" ELSE "idle"
        /\ \A b \in Actors : b # a => actor'[b] = actor[b]
    BY <2>1, ReturnMoves
  <2>3. a \in Names => active # a
    BY <1>3 DEF TypeOK, LockInv, PairInv
  <2> QED BY <1>1, <2>1, <2>2, <2>3, QuietStep
<1> QED BY <1>2, <1>3

LEMMA FinishCheckLock ==
    ASSUME TypeOK, LockInv, NEW a \in Actors, FinishCheck(a)
    PROVE  LockInv'
<1>1. /\ actor[a].pc = "finish"
      /\ UNCHANGED <<tasks, active, previous, creator, state>>
  BY DEF FinishCheck, locks
<1>2. CASE actor[a].task \in tasks /\ active = actor[a].task
  <2>1. Goto(a, "delete") BY <1>2 DEF FinishCheck
  <2>2. /\ actor'[a].pc = "delete"
        /\ \A b \in Actors : b # a => actor'[b] = actor[b]
    BY <2>1, GotoMoves
  <2> QED BY <1>1, <2>2, QuietStep
<1>3. CASE ~(actor[a].task \in tasks /\ active = actor[a].task)
  <2>1. Return(a) BY <1>3 DEF FinishCheck
  <2>2. /\ actor'[a].pc = IF a \in Names THEN "done" ELSE "idle"
        /\ \A b \in Actors : b # a => actor'[b] = actor[b]
    BY <2>1, ReturnMoves
  <2>3. a \in Names => active # a
    BY <1>3 DEF TypeOK, LockInv, PairInv
  <2> QED BY <1>1, <2>2, <2>3, QuietStep
<1> QED BY <1>2, <1>3

LEMMA FinishDeleteLock ==
    ASSUME TypeOK, LockInv, NEW a \in Actors, FinishDelete(a)
    PROVE  LockInv'
<1>1. /\ actor[a].pc = "delete" /\ tasks' = tasks \ {previous}
      /\ UNCHANGED <<active, previous, creator, state>>
  BY DEF FinishDelete, locks
<1>2. /\ actor'[a].pc \in {"store", "done", "idle"}
      /\ \A b \in Actors : b # a => actor'[b] = actor[b]
      /\ actor'[a].pc = "store" \/ (previous # NoName /\ previous \notin tasks)
  <2>1. CASE previous = NoName \/ previous \in tasks
    <3>1. Goto(a, "store") BY <2>1 DEF FinishDelete
    <3> QED BY <3>1, GotoMoves
  <2>2. CASE ~(previous = NoName \/ previous \in tasks)
    <3>1. Return(a) BY <2>2 DEF FinishDelete
    <3> QED BY <2>2, <3>1, ReturnMoves
  <2> QED BY <2>1, <2>2
<1>3. UnbornInv' /\ CreatorInv' BY <1>1, <1>2, BornStep
\* Either this actor is about to replace the pair, or the one is that has
\* deleted the previous task before.
<1>4. Pending'
  <2>1. CASE actor'[a].pc = "store" BY <2>1 DEF Pending
  <2>2. CASE previous # NoName /\ previous \notin tasks
    BY <1>1, <1>2, <2>2 DEF LockInv, PairInv, Pending
  <2> QED BY <1>2, <2>1, <2>2
<1>5. PairInv' BY <1>1, <1>4 DEF LockInv, PairInv
<1>6. EndedReleasesKind' BY <1>4 DEF EndedReleasesKind, Pending
<1> QED BY <1>3, <1>5, <1>6 DEF LockInv

LEMMA FinishStoreLock ==
    ASSUME TypeOK, LockInv, NEW a \in Actors, FinishStore(a)
    PROVE  LockInv'
<1>1. /\ actor[a].pc = "store" /\ active' = NoName /\ previous' = active
      /\ UNCHANGED <<tasks, creator, state>> /\ Return(a)
  BY DEF FinishStore
<1>2. /\ actor'[a].pc \in {"done", "idle"}
      /\ \A b \in Actors : b # a => actor'[b] = actor[b]
  BY <1>1, ReturnMoves
<1>3. UnbornInv' /\ CreatorInv' BY <1>1, <1>2, BornStep
<1>4. PairInv' BY <1>1 DEF LockInv, PairInv
<1>5. EndedReleasesKind' BY <1>1 DEF EndedReleasesKind
<1> QED BY <1>3, <1>4, <1>5 DEF LockInv

LEMMA NextLock == TypeOK /\ LockInv /\ [Next]_vars => LockInv'
<1> SUFFICES ASSUME TypeOK, LockInv, [Next]_vars PROVE LockInv' OBVIOUS
<1>1. CASE UNCHANGED vars
  BY <1>1 DEF vars, locks, LockInv, UnbornInv, CreatorInv, PairInv, EndedReleasesKind,
              Pending
<1> QED
  BY <1>1, CheckActiveLock, RegisterLock, SetActiveLock, FunctionEndsLock,
     GetOverdueLock, UpdateTaskLock, FinishCheckLock, FinishDeleteLock, FinishStoreLock
     DEF Next, CreatorStep, ActorStep

\* Whatever threads and wrappers delete, the active task stays registered.
THEOREM ActiveStaysRegistered == Spec => []ActiveIsRegistered
<1>1. LockInv => ActiveIsRegistered BY DEF LockInv, PairInv, ActiveIsRegistered
<1> QED BY <1>1, InitLock, NextLock, TypeCorrect, PTL DEF Spec

\* A task whose wrapper has ended, in a KeyError too, does not block its kind.
THEOREM EndedTasksRelease == Spec => []EndedReleasesKind
<1>1. LockInv => EndedReleasesKind BY DEF LockInv
<1> QED BY <1>1, InitLock, NextLock, TypeCorrect, PTL DEF Spec

=============================================================================
