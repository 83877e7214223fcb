---------------------------- MODULE AlertsProofs ----------------------------
(***************************************************************************)
(* Proofs about Alerts, for any threads whose requests overlap and fail as *)
(* they like.  The variables keep their types: no more activations than    *)
(* events.  Where no request has overlapped another since the caches were  *)
(* last set right, they agree with the database between requests, the      *)
(* events that activated an alert do not count again, and a reset closes   *)
(* the activation.                                                         *)
(***************************************************************************)
EXTENDS Alerts, FiniteSetTheorems, TLAPS

USE AlertsAssumption

-----------------------------------------------------------------------------
(***************************************************************************)
(* The invariant of any threads: what a thread has when it gets to a step, *)
(* and that every event is appended and activates the alert once at most.  *)
(***************************************************************************)

\* Steps of process_event before its event is appended, before the alert is
\* activated, and from the check of the criteria to the end.
BeforeAppend == {"config", "fillConfig", "state", "fillState", "append"}
BeforeActivation == BeforeAppend \cup {"check", "reset", "clear", "activate"}
WithEvents == {"check", "reset", "clear", "activate", "storeState", "keep"}

Located ==
    \A t \in Threads :
        /\ thread[t].pc \in {"state", "fillState", "append", "check", "activate",
                             "storeState", "keep"} => thread[t].kind = "event"
        /\ thread[t].pc \in {"activation", "storeConfig"} => thread[t].kind # "event"
        /\ thread[t].kind = "event" /\ thread[t].pc \in WithEvents \cup {"fillState", "append"}
              => thread[t].state \in Objects
        /\ thread[t].kind = "event" /\ thread[t].pc \in WithEvents
              => thread[t].list \in Objects
        /\ thread[t].kind = "event" /\ thread[t].pc \in {"reset", "clear"}
              => thread[t].config = "auto"

Unappended == {t \in Threads : thread[t].kind = "event" /\ thread[t].pc \in BeforeAppend}
Unactivated == {t \in Threads : thread[t].kind = "event" /\ thread[t].pc \in BeforeActivation}

Counted ==
    /\ activations + Cardinality(Unactivated) <= events
    /\ \A o \in Objects : timestamps[o] + Cardinality(Unappended) <= events

ThreadsInv == TypeOK /\ Located /\ Counted

-----------------------------------------------------------------------------
(***************************************************************************)
(* The invariant of requests that do not overlap, or no longer.            *)
(***************************************************************************)

Serial ==
    \A t, u \in Threads : thread[t].pc # "idle" /\ thread[u].pc # "idle" => t = u

CachedStateAgrees ==
    cachedState # None
      => /\ db.active => active[cachedState]
         /\ active[cachedState] => db.active \/ undelivered

\* Between requests.
QuietInv ==
    /\ "config" \notin suspect => cachedConfig \in {None, config}
    /\ "state" \notin suspect
         => CachedStateAgrees /\ (~db.active /\ ~undelivered => PendingEvents < Count)

\* The thread that serves a request works with the current configuration.
ConfigAgrees(t) ==
    /\ cachedConfig \in {None, config}
    /\ thread[t].pc = "storeConfig" => cachedConfig = None /\ thread[t].kind = "store"
    /\ thread[t].pc \notin {"config", "storeConfig"} => thread[t].config = config

\* It works with the current state, except between the two updates of each.
StateAgrees(t) ==
    LET pc == thread[t].pc
    IN  /\ pc \in {"config", "fillConfig", "state", "append", "check", "activation",
                   "reset", "storeConfig", "keep"}
              => CachedStateAgrees
        /\ pc = "fillState" => cachedState = None /\ (active[thread[t].state] <=> db.active)
        /\ pc \in {"append", "check"} => cachedState = thread[t].state
        /\ pc = "activate" /\ thread[t].config # "auto"
              => ~active[thread[t].state] /\ ~db.active
        /\ pc \in {"activate", "storeState"}
              => cachedState = IF thread[t].config = "auto" THEN None ELSE thread[t].state
        /\ pc = "storeState" /\ thread[t].config # "auto" => active[thread[t].state]

\* The events that are kept are fewer than the criteria ask for, unless the alert
\* is active or has just been found to become so.
EventsAgree(t) ==
    LET pc == thread[t].pc
    IN  /\ /\ \/ pc \in BeforeAppend \cup {"activation", "storeConfig"}
              \/ pc = "reset" /\ thread[t].kind # "event"
           /\ ~db.active /\ ~undelivered
           => PendingEvents < Count
        /\ pc = "keep" /\ ~db.active /\ ~undelivered
              => timestamps[thread[t].list] < Count
        /\ pc \in {"activate", "storeState"} /\ thread[t].config = "auto" => states = None

\* A reset has closed the activation before it stores the state.
ResetCloses(t) ==
    thread[t].pc = "reset" /\ thread[t].kind # "event" /\ thread[t].config # "auto"
        => db.activation \notin open

RequestInv(t) ==
    /\ "config" \notin suspect => ConfigAgrees(t)
    /\ "state" \notin suspect => StateAgrees(t) /\ EventsAgree(t) /\ ResetCloses(t)

\* Of what requests that overlapped may have left, something has been set right since:
\* from then on they have not overlapped.
Sure == "config" \notin suspect \/ "state" \notin suspect

SerialInv ==
    Sure => /\ Serial
            /\ Quiet => QuietInv
            /\ \A t \in Threads : thread[t].pc # "idle" => RequestInv(t)

-----------------------------------------------------------------------------
(***************************************************************************)
(* What the actions do to a thread.                                        *)
(***************************************************************************)

LEMMA IdleFields ==
    /\ Idle \in ThreadStates /\ Idle.pc = "idle" /\ Idle.kind = "event"
BY DEF Idle, ThreadStates, Steps, Policies

\* Thread t is at pc now, with this configuration, state, list and activation.
Moves(t, pc, c, s, l, a) ==
    /\ thread' \in [Threads -> ThreadStates]
    /\ \A u \in Threads : u # t => thread'[u] = thread[u]
    /\ thread'[t].pc = pc /\ thread'[t].kind = thread[t].kind
    /\ thread'[t].config = c /\ thread'[t].state = s /\ thread'[t].list = l
    /\ thread'[t].activation = a

\* Thread t begins a request.
Begins(t, kind, pc, c) ==
    /\ thread' \in [Threads -> ThreadStates]
    /\ \A u \in Threads : u # t => thread'[u] = thread[u]
    /\ thread'[t].pc = pc /\ thread'[t].kind = kind /\ thread'[t].config = c

Returns(t) ==
    /\ thread' \in [Threads -> ThreadStates]
    /\ \A u \in Threads : u # t => thread'[u] = thread[u]
    /\ thread'[t] = Idle

LEMMA RecordMoves ==
    ASSUME TypeOK, NEW t \in Threads, NEW pc \in Steps, NEW c \in Policies,
           NEW s \in Objects \cup {None}, NEW l \in Objects \cup {None},
           NEW a \in 0 .. MaxEvents,
           thread' = [thread EXCEPT ![t] = thread'[t]],
           thread'[t] = [pc |-> pc, kind |-> thread[t].kind, config |-> c, state |-> s,
                         list |-> l, activation |-> a, reset |-> thread[t].reset]
    PROVE  Moves(t, pc, c, s, l, a)
<1> DEFINE x == [pc |-> pc, kind |-> thread[t].kind, config |-> c, state |-> s,
                 list |-> l, activation |-> a, reset |-> thread[t].reset]
<1>1. thread[t] \in ThreadStates BY DEF TypeOK
<1>2. x \in ThreadStates BY <1>1 DEF ThreadStates
<1>3. /\ x.pc = pc /\ x.kind = thread[t].kind /\ x.config = c /\ x.state = s
      /\ x.list = l /\ x.activation = a
  OBVIOUS
<1>4. thread' = [thread EXCEPT ![t] = x] OBVIOUS
<1>5. thread'[t] = x OBVIOUS
<1> HIDE DEF x
<1> QED BY <1>2, <1>3, <1>4, <1>5 DEF TypeOK, Moves

LEMMA GoOnMoves ==
    ASSUME TypeOK, NEW t \in Threads, NEW pc \in Steps, GoOn(t, pc)
    PROVE  Moves(t, pc, thread[t].config, thread[t].state, thread[t].list,
                 thread[t].activation)
<1>1. thread[t] \in ThreadStates BY DEF TypeOK
<1>2. thread' = [thread EXCEPT ![t] = thread'[t]] /\ thread'[t] = [thread[t] EXCEPT !.pc = pc]
  BY DEF TypeOK, GoOn
<1>3. thread'[t] =
        [pc |-> pc, kind |-> thread[t].kind, config |-> thread[t].config,
         state |-> thread[t].state, list |-> thread[t].list,
         activation |-> thread[t].activation, reset |-> thread[t].reset]
  BY <1>1, <1>2 DEF ThreadStates
<1> QED BY <1>1, <1>2, <1>3, RecordMoves DEF ThreadStates

LEMMA ReturnReturns ==
    ASSUME TypeOK, NEW t \in Threads, Return(t)
    PROVE  Returns(t)
BY IdleFields DEF TypeOK, Return, Returns

LEMMA BeginBegins ==
    ASSUME TypeOK, NEW t \in Threads, NEW kind \in {"event", "reset"},
           NEW pc \in {"config", "activation"}, Begin(t, kind, pc)
    PROVE  Begins(t, kind, pc, config)
<1>1. /\ thread' = [thread EXCEPT ![t] = thread'[t]]
      /\ thread'[t] = [Idle EXCEPT !.kind = kind, !.pc = pc, !.config = config]
  BY DEF TypeOK, Begin
<1>2. thread'[t] = [pc |-> pc, kind |-> kind, config |-> config, state |-> None,
                    list |-> None, activation |-> 0, reset |-> FALSE]
  BY <1>1 DEF Idle
<1>3. /\ thread'[t] \in ThreadStates
      /\ thread'[t].pc = pc /\ thread'[t].kind = kind /\ thread'[t].config = config
  BY <1>2 DEF TypeOK, ThreadStates, Steps
<1> QED BY <1>1, <1>3 DEF TypeOK, Begins

LEMMA StoreBegins ==
    ASSUME TypeOK, NEW t \in Threads, StoreAlert(t)
    PROVE  \E c \in Policies : Begins(t, "store", "storeConfig", c)
<1>1. PICK c \in Policies, force \in BOOLEAN :
        thread' = [thread EXCEPT ![t] =
                     [Idle EXCEPT !.kind = "store", !.pc = "storeConfig", !.config = c,
                                  !.reset = ShouldReset(config, c, force)]]
  BY DEF StoreAlert
<1> DEFINE b == ShouldReset(config, c, force)
<1>2. b \in BOOLEAN BY DEF ShouldReset, TypeOK
<1>3. /\ thread' = [thread EXCEPT ![t] = thread'[t]]
      /\ thread'[t] = [Idle EXCEPT !.kind = "store", !.pc = "storeConfig", !.config = c,
                                   !.reset = b]
  BY <1>1 DEF TypeOK
<1> HIDE DEF b
<1>4. thread'[t] = [pc |-> "storeConfig", kind |-> "store", config |-> c, state |-> None,
                    list |-> None, activation |-> 0, reset |-> b]
  BY <1>3 DEF Idle
<1>5. /\ thread'[t] \in ThreadStates /\ thread'[t].pc = "storeConfig"
      /\ thread'[t].kind = "store" /\ thread'[t].config = c
  BY <1>2, <1>4 DEF ThreadStates, Steps
<1> QED BY <1>3, <1>5 DEF TypeOK, Begins

LEMMA ConfigMoves ==
    ASSUME TypeOK, NEW t \in Threads, GetAlertById(t)
    PROVE  \E pc \in {"fillConfig", WithConfig(t)} :
              /\ pc \in Steps
              /\ Moves(t, pc, IF cachedConfig = None THEN config ELSE cachedConfig,
                       thread[t].state, thread[t].list, thread[t].activation)
<1> DEFINE c == IF cachedConfig = None THEN config ELSE cachedConfig
           pc == IF cachedConfig = None THEN "fillConfig" ELSE WithConfig(t)
<1>1. thread[t] \in ThreadStates /\ c \in Policies /\ pc \in Steps
  BY DEF TypeOK, WithConfig, Steps
<1>2. /\ thread' = [thread EXCEPT ![t] = thread'[t]]
      /\ thread'[t] = [thread[t] EXCEPT !.config = c, !.pc = pc]
  BY DEF TypeOK, GetAlertById
<1> HIDE DEF c, pc
<1>3. thread'[t] =
        [pc |-> pc, kind |-> thread[t].kind, config |-> c,
         state |-> thread[t].state, list |-> thread[t].list,
         activation |-> thread[t].activation, reset |-> thread[t].reset]
  BY <1>1, <1>2 DEF ThreadStates
<1>4. Moves(t, pc, c, thread[t].state, thread[t].list, thread[t].activation)
  BY <1>1, <1>2, <1>3, RecordMoves DEF ThreadStates
<1> QED BY <1>1, <1>4 DEF c, pc

LEMMA StateMoves ==
    ASSUME TypeOK, NEW t \in Threads, NEW pc \in {"append", "fillState"}, NEW s \in Objects,
           thread' = [thread EXCEPT ![t] = thread'[t]],
           thread'[t] = [thread[t] EXCEPT !.state = s, !.pc = pc]
    PROVE  Moves(t, pc, thread[t].config, s, thread[t].list, thread[t].activation)
<1>1. thread[t] \in ThreadStates /\ pc \in Steps BY DEF TypeOK, Steps
<1>2. thread'[t] =
        [pc |-> pc, kind |-> thread[t].kind, config |-> thread[t].config,
         state |-> s, list |-> thread[t].list,
         activation |-> thread[t].activation, reset |-> thread[t].reset]
  BY <1>1 DEF ThreadStates
<1> QED BY <1>1, <1>2, RecordMoves DEF ThreadStates

LEMMA ListMoves ==
    ASSUME TypeOK, NEW t \in Threads, NEW l \in Objects,
           thread' = [thread EXCEPT ![t] = thread'[t]],
           thread'[t] = [thread[t] EXCEPT !.list = l, !.pc = "check"]
    PROVE  Moves(t, "check", thread[t].config, thread[t].state, l, thread[t].activation)
<1>1. thread[t] \in ThreadStates /\ "check" \in Steps BY DEF TypeOK, Steps
<1>2. thread'[t] =
        [pc |-> "check", kind |-> thread[t].kind, config |-> thread[t].config,
         state |-> thread[t].state, list |-> l,
         activation |-> thread[t].activation, reset |-> thread[t].reset]
  BY <1>1 DEF ThreadStates
<1> QED BY <1>1, <1>2, RecordMoves DEF ThreadStates

LEMMA ActivationMoves ==
    ASSUME TypeOK, NEW t \in Threads, NEW a \in 0 .. MaxEvents,
           thread' = [thread EXCEPT ![t] = thread'[t]],
           thread'[t] = [thread[t] EXCEPT !.pc = "storeState", !.activation = a]
    PROVE  Moves(t, "storeState", thread[t].config, thread[t].state, thread[t].list, a)
<1>1. thread[t] \in ThreadStates /\ "storeState" \in Steps BY DEF TypeOK, Steps
<1>2. thread'[t] =
        [pc |-> "storeState", kind |-> thread[t].kind, config |-> thread[t].config,
         state |-> thread[t].state, list |-> thread[t].list,
         activation |-> a, reset |-> thread[t].reset]
  BY <1>1 DEF ThreadStates
<1> QED BY <1>1, <1>2, RecordMoves DEF ThreadStates

-----------------------------------------------------------------------------
(***************************************************************************)
(* Counting: threads that a step leaves or enters a set of, and objects    *)
(* that no thread refers to.                                               *)
(***************************************************************************)

LEMMA OneElement ==
    ASSUME NEW S, NEW T, NEW t, IsFiniteSet(S), S \ {t} = T \ {t}
    PROVE  /\ IsFiniteSet(T) /\ Cardinality(S) \in Nat /\ Cardinality(T) \in Nat
           /\ t \in S /\ t \notin T => Cardinality(T) = Cardinality(S) - 1
           /\ t \notin S /\ t \in T => Cardinality(T) = Cardinality(S) + 1
           /\ (t \in S <=> t \in T) => T = S
           /\ t \in S \/ t \notin T => Cardinality(T) <= Cardinality(S)
<1>1. Cardinality(S) \in Nat BY FS_CardinalityType
<1>2. CASE t \in S <=> t \in T
  <2>1. T = S BY <1>2
  <2> QED BY <1>1, <1>2, <2>1
<1>3. CASE t \in S /\ t \notin T
  <2>1. T = S \ {t} BY <1>3
  <2>2. IsFiniteSet(T) /\ Cardinality(T) = Cardinality(S) - 1
    BY <1>3, <2>1, FS_RemoveElement, Zenon
  <2>3. Cardinality(T) \in Nat BY <2>2, FS_CardinalityType
  <2> QED BY <1>1, <1>3, <2>2, <2>3
<1>4. CASE t \notin S /\ t \in T
  <2>1. T = S \cup {t} BY <1>4
  <2>2. IsFiniteSet(T) /\ Cardinality(T) = Cardinality(S) + 1
    BY <1>4, <2>1, FS_AddElement, Zenon
  <2> QED BY <1>1, <1>4, <2>2
<1> QED BY <1>2, <1>3, <1>4

LEMMA CountsFinite == IsFiniteSet(Unappended) /\ IsFiniteSet(Unactivated)
BY FS_Subset DEF Unappended, Unactivated

LEMMA StepCounts ==
    ASSUME NEW t \in Threads, \A u \in Threads : u # t => thread'[u] = thread[u]
    PROVE  /\ Cardinality(Unappended) \in Nat /\ Cardinality(Unappended') \in Nat
           /\ Cardinality(Unactivated) \in Nat /\ Cardinality(Unactivated') \in Nat
           /\ t \in Unappended /\ t \notin Unappended'
                 => Cardinality(Unappended') = Cardinality(Unappended) - 1
           /\ t \in Unappended \/ t \notin Unappended'
                 => Cardinality(Unappended') <= Cardinality(Unappended)
           /\ t \notin Unappended /\ t \in Unappended'
                 => Cardinality(Unappended') = Cardinality(Unappended) + 1
           /\ t \in Unactivated /\ t \notin Unactivated'
                 => Cardinality(Unactivated') = Cardinality(Unactivated) - 1
           /\ t \in Unactivated \/ t \notin Unactivated'
                 => Cardinality(Unactivated') <= Cardinality(Unactivated)
           /\ t \notin Unactivated /\ t \in Unactivated'
                 => Cardinality(Unactivated') = Cardinality(Unactivated) + 1
<1>1. Unappended \ {t} = Unappended' \ {t} BY DEF Unappended
<1>2. Unactivated \ {t} = Unactivated' \ {t} BY DEF Unactivated
<1> QED BY <1>1, <1>2, CountsFinite, OneElement

LEMMA ObjectsLeft ==
    ASSUME NEW f \in [Threads -> Objects \cup {None}]
    PROVE  \E o \in Objects : \A t \in Threads : f[t] # o
<1> DEFINE T == {f[t] : t \in Threads}
<1>1. f \in Surjection(Threads, T) BY DEF Surjection
<1>2. IsFiniteSet(T) /\ Cardinality(T) <= Cardinality(Threads)
  BY <1>1, FS_Surjection
<1> SUFFICES ASSUME \A o \in Objects : \E t \in Threads : f[t] = o PROVE FALSE
  OBVIOUS
<1>3. Objects \subseteq T OBVIOUS
<1> HIDE DEF T
<1>4. IsFiniteSet(Objects) /\ Cardinality(Objects) <= Cardinality(T)
  BY <1>2, <1>3, FS_Subset
<1>5. Cardinality(Objects) \in Nat /\ Cardinality(T) \in Nat /\ Cardinality(Threads) \in Nat
  BY <1>2, <1>4, FS_CardinalityType
<1> QED BY <1>2, <1>4, <1>5

LEMMA NewStateIsNew ==
    ASSUME TypeOK, cachedState = None
    PROVE  NewState \in Objects
<1> DEFINE f == [t \in Threads |-> thread[t].state]
<1>1. \A t \in Threads : thread[t].state \in Objects \cup {None} BY DEF TypeOK, ThreadStates
<1>2. f \in [Threads -> Objects \cup {None}] BY <1>1
<1>3. PICK o \in Objects : \A t \in Threads : f[t] # o BY <1>2, ObjectsLeft
<1>4. o # cachedState /\ \A t \in Threads : thread[t].state # o BY <1>3
<1> QED BY <1>4 DEF NewState

LEMMA NewListIsNew ==
    ASSUME TypeOK, states = None
    PROVE  NewList \in Objects
<1> DEFINE f == [t \in Threads |-> thread[t].list]
<1>1. \A t \in Threads : thread[t].list \in Objects \cup {None} BY DEF TypeOK, ThreadStates
<1>2. f \in [Threads -> Objects \cup {None}] BY <1>1
<1>3. PICK o \in Objects : \A t \in Threads : f[t] # o BY <1>2, ObjectsLeft
<1>4. o # states /\ \A t \in Threads : thread[t].list # o BY <1>3
<1> QED BY <1>4 DEF NewList

LEMMA SomeObject == (CHOOSE o \in Objects : TRUE) \in Objects
<1>1. PICK o \in Objects : \A t \in Threads : [u \in Threads |-> None][t] # o
  BY ObjectsLeft
<1> QED BY <1>1

-----------------------------------------------------------------------------
(***************************************************************************)
(* Every action preserves ThreadsInv.                                      *)
(***************************************************************************)

LEMMA ThreadsInit == Init => ThreadsInv
<1> SUFFICES ASSUME Init PROVE ThreadsInv OBVIOUS
<1>1. \A t \in Threads : thread[t] = Idle BY DEF Init
<1>2. cachedState \in Objects BY SomeObject DEF Init
<1>3. TypeOK
  <2>1. suspect \subseteq {"config", "state"} /\ undelivered \in BOOLEAN
    BY DEF Init
  <2> QED BY <1>2, <2>1, IdleFields DEF Init, TypeOK, Inactive, Policies
<1>4. Located BY <1>1, IdleFields DEF Located, WithEvents
<1>5. Unappended = {} /\ Unactivated = {}
  BY <1>1, IdleFields DEF Unappended, Unactivated, BeforeAppend, BeforeActivation
<1>6. Counted BY <1>5, FS_EmptySet DEF Init, Counted
<1> QED BY <1>3, <1>4, <1>6 DEF ThreadsInv

LEMMA ServeTypes ==
    ASSUME TypeOK, NEW t \in Threads, Serve(t)
    PROVE  /\ overlaps' \in 0 .. MaxOverlaps /\ Suspects \subseteq {"config", "state"}
           /\ thread[t].pc = "idle"
BY DEF TypeOK, Serve, Suspects

LEMMA BeginPreserves ==
    ASSUME ThreadsInv, NEW t \in Threads, ProcessEvent(t) \/ ResetAlert(t) \/ ResetCooledDown(t)
    PROVE  ThreadsInv'
<1>1. TypeOK /\ Located /\ Counted /\ thread[t].pc = "idle"
  BY DEF ThreadsInv, ProcessEvent, ResetAlert, ResetCooledDown, Begin, Serve
<1>2. \/ Begins(t, "event", "config", config) /\ events' = events + 1 /\ events < MaxEvents
      \/ Begins(t, "reset", "activation", config) /\ events' = events
      \/ Begins(t, "reset", "config", config) /\ events' = events
  BY <1>1, BeginBegins DEF ProcessEvent, ResetAlert, ResetCooledDown
<1>3. /\ UNCHANGED <<records, memory, activations, restarts, failures, undelivered>>
      /\ changes' \in 0 .. MaxChanges /\ last' \in {"event", "reset"}
      /\ overlaps' \in 0 .. MaxOverlaps /\ suspect' \subseteq {"config", "state"}
  BY <1>1, ServeTypes DEF TypeOK, ProcessEvent, ResetAlert, ResetCooledDown, Begin
<1>4. TypeOK' BY <1>1, <1>2, <1>3 DEF TypeOK, records, memory, Begins
<1>5. Located' BY <1>1, <1>2 DEF Located, Begins, WithEvents
<1>6. Counted'
  <2>1. t \notin Unappended /\ t \notin Unactivated
    BY <1>1 DEF Unappended, Unactivated, BeforeAppend, BeforeActivation
  <2>2. thread'[t].kind # "event" => t \notin Unappended' /\ t \notin Unactivated'
    BY DEF Unappended, Unactivated
  <2>3. \/ thread'[t].kind # "event" /\ events' = events
        \/ events' = events + 1
    BY <1>2 DEF Begins
  <2>4. \A u \in Threads : u # t => thread'[u] = thread[u] BY <1>2 DEF Begins
  <2> QED BY <1>1, <1>3, <2>1, <2>2, <2>3, <2>4, StepCounts
          DEF TypeOK, Counted, memory
<1> QED BY <1>4, <1>5, <1>6 DEF ThreadsInv

LEMMA StoreAlertPreserves ==
    ASSUME ThreadsInv, NEW t \in Threads, StoreAlert(t)
    PROVE  ThreadsInv'
<1>1. TypeOK /\ Located /\ Counted /\ thread[t].pc = "idle" BY DEF ThreadsInv, StoreAlert, Serve
<1>2. PICK c \in Policies : Begins(t, "store", "storeConfig", c) BY <1>1, StoreBegins
<1>3. TypeOK'
  <2>1. /\ UNCHANGED <<records, cachedState, active, states, timestamps, events,
                       activations, restarts, failures, undelivered>>
        /\ cachedConfig' = None /\ routed' = FALSE /\ last' = "store"
        /\ overlaps' \in 0 .. MaxOverlaps /\ suspect' \subseteq {"config", "state"}
    BY <1>1, ServeTypes DEF StoreAlert
  <2>2. changes' \in 0 .. MaxChanges BY <1>1 DEF TypeOK, StoreAlert
  <2>3. thread' \in [Threads -> ThreadStates] BY <1>2 DEF Begins
  <2> QED BY <1>1, <2>1, <2>2, <2>3 DEF TypeOK, records
<1>4. Located' BY <1>1, <1>2 DEF Located, Begins, WithEvents
<1>5. Counted'
  <2>1. t \notin Unappended' /\ t \notin Unactivated' BY <1>2 DEF Unappended, Unactivated, Begins
  <2>2. \A u \in Threads : u # t => thread'[u] = thread[u] BY <1>2 DEF Begins
  <2> QED BY <1>1, <2>1, <2>2, StepCounts DEF TypeOK, Counted, StoreAlert
<1> QED BY <1>3, <1>4, <1>5 DEF ThreadsInv

\* A step that neither appends nor activates leaves the counts as they are.
LEMMA MovePreserves ==
    ASSUME ThreadsInv, NEW t \in Threads,
           \A u \in Threads : u # t => thread'[u] = thread[u],
           thread'[t].kind = thread[t].kind \/ thread'[t].pc = "idle",
           thread'[t].pc \in BeforeAppend => thread[t].pc \in BeforeAppend,
           thread'[t].kind = "event" /\ thread'[t].pc \in BeforeActivation
              => thread[t].pc \in BeforeActivation,
           UNCHANGED <<events, activations>>,
           \A o \in Objects : timestamps'[o] <= timestamps[o],
           timestamps' \in [Objects -> 0 .. MaxEvents]
    PROVE  Counted'
<1>1. t \in Unappended \/ t \notin Unappended'
  BY DEF Unappended, BeforeAppend
<1>2. t \in Unactivated \/ t \notin Unactivated'
  BY DEF Unactivated, BeforeAppend, BeforeActivation
<1>3. \A o \in Objects : timestamps[o] \in Nat /\ timestamps'[o] \in Nat
  BY DEF ThreadsInv, TypeOK
<1> QED BY <1>1, <1>2, <1>3, StepCounts DEF ThreadsInv, TypeOK, Counted

LEMMA StoreConfigPreserves ==
    ASSUME ThreadsInv, NEW t \in Threads, StoreConfig(t)
    PROVE  ThreadsInv'
<1>1. TypeOK /\ Located /\ thread[t].pc = "storeConfig" /\ thread[t].kind # "event"
  BY DEF ThreadsInv, StoreConfig, Located
<1>2. thread[t] \in ThreadStates BY <1>1 DEF TypeOK
<1>3. \/ Moves(t, "config", thread[t].config, thread[t].state, thread[t].list,
               thread[t].activation)
      \/ Returns(t)
  BY <1>1, GoOnMoves, ReturnReturns DEF StoreConfig, Steps
<1>4. UNCHANGED <<db, open, cachedConfig, cachedState, active, states, timestamps, counts, history>>
      /\ config' \in Policies /\ routed' = TRUE
  BY <1>2 DEF StoreConfig, ThreadStates
<1>5. TypeOK' BY <1>1, <1>3, <1>4 DEF TypeOK, counts, history, Moves, Returns
<1>6. Located' BY <1>1, <1>3, IdleFields DEF Located, WithEvents, Moves, Returns
<1>7. Counted'
  <2>1. t \notin Unappended' /\ t \notin Unactivated'
    BY <1>1, <1>3, IdleFields
       DEF Unappended, Unactivated, BeforeAppend, BeforeActivation, Moves, Returns
  <2>2. \A u \in Threads : u # t => thread'[u] = thread[u] BY <1>3 DEF Moves, Returns
  <2> QED BY <1>1, <1>4, <2>1, <2>2, StepCounts DEF ThreadsInv, TypeOK, Counted, counts
<1> QED BY <1>5, <1>6, <1>7 DEF ThreadsInv

LEMMA ConfigPreserves ==
    ASSUME ThreadsInv, NEW t \in Threads, GetAlertById(t) \/ FillConfig(t)
    PROVE  ThreadsInv'
<1>1. TypeOK /\ Located /\ thread[t] \in ThreadStates
      /\ thread[t].pc \in {"config", "fillConfig"}
  BY DEF ThreadsInv, TypeOK, GetAlertById, FillConfig
<1>2. PICK pc \in {"fillConfig", WithConfig(t)}, c \in Policies :
        /\ pc \in Steps
        /\ Moves(t, pc, c, thread[t].state, thread[t].list, thread[t].activation)
  <2>1. WithConfig(t) \in Steps BY DEF WithConfig, Steps
  <2>2. CASE GetAlertById(t) BY <1>1, <2>2, ConfigMoves DEF TypeOK
  <2>3. CASE FillConfig(t) BY <1>1, <2>1, <2>3, GoOnMoves DEF FillConfig, ThreadStates
  <2> QED BY <2>2, <2>3
<1>3. /\ UNCHANGED <<records, cachedState, active, states, timestamps, routed, counts, history>>
      /\ cachedConfig' \in Policies \cup {None}
  BY <1>1 DEF GetAlertById, FillConfig, memory, TypeOK, ThreadStates
<1>4. TypeOK' BY <1>1, <1>2, <1>3 DEF TypeOK, records, counts, history, Moves
<1>5. Located' BY <1>1, <1>2 DEF Located, WithEvents, WithConfig, Moves
<1>6. Counted'
  BY <1>1, <1>2, <1>3, MovePreserves
     DEF TypeOK, counts, WithConfig, BeforeAppend, BeforeActivation, Moves
<1> QED BY <1>4, <1>5, <1>6 DEF ThreadsInv

LEMMA StatePreserves ==
    ASSUME ThreadsInv, NEW t \in Threads, GetAlertState(t) \/ FillState(t)
    PROVE  ThreadsInv'
<1>1. TypeOK /\ Located /\ thread[t] \in ThreadStates
      /\ thread[t].pc \in {"state", "fillState"} /\ thread[t].kind = "event"
  BY DEF ThreadsInv, TypeOK, Located, GetAlertState, FillState
<1>2. PICK pc \in {"fillState", "append"}, s \in Objects :
        Moves(t, pc, thread[t].config, s, thread[t].list, thread[t].activation)
  <2>1. CASE GetAlertState(t) /\ cachedState # None
    BY <1>1, <2>1, StateMoves DEF GetAlertState, TypeOK
  <2>2. CASE GetAlertState(t) /\ cachedState = None
    BY <1>1, <2>2, NewStateIsNew, StateMoves DEF GetAlertState, TypeOK
  <2>3. CASE FillState(t)
    <3>1. thread[t].state \in Objects BY <1>1, <2>3 DEF FillState, Located
    <3> QED BY <1>1, <2>3, <3>1, GoOnMoves DEF FillState, Steps
  <2> QED BY <2>1, <2>2, <2>3
<1>3. /\ UNCHANGED <<records, cachedConfig, states, timestamps, routed, counts, history>>
      /\ cachedState' \in Objects \cup {None} /\ active' \in [Objects -> BOOLEAN]
  BY <1>1 DEF GetAlertState, FillState, TypeOK, ThreadStates
<1>4. TypeOK' BY <1>1, <1>2, <1>3 DEF TypeOK, records, counts, history, Moves
<1>5. Located' BY <1>1, <1>2 DEF Located, WithEvents, Moves
<1>6. Counted'
  BY <1>1, <1>2, <1>3, MovePreserves
     DEF TypeOK, counts, BeforeAppend, BeforeActivation, Moves
<1> QED BY <1>4, <1>5, <1>6 DEF ThreadsInv

\* What AppendEvent does: the list, and how many events it has then.
LEMMA AppendMoves ==
    ASSUME ThreadsInv, NEW t \in Threads, AppendEvent(t)
    PROVE  \E o \in Objects, n \in Nat :
              /\ Moves(t, "check", thread[t].config, thread[t].state, o, thread[t].activation)
              /\ timestamps' = [timestamps EXCEPT ![o] = n + 1]
              /\ n \in {0, timestamps[o]} /\ states \in {None, o}
<1> DEFINE o == IF states # None THEN states ELSE NewList
           n == IF states # None THEN timestamps[o] ELSE 0
<1>1. TypeOK BY DEF ThreadsInv
<1>2. o \in Objects BY <1>1, NewListIsNew DEF TypeOK
<1>3. n \in Nat /\ n \in {0, timestamps[o]} BY <1>1, <1>2 DEF TypeOK
<1>4. /\ timestamps' = [timestamps EXCEPT ![o] = n + 1]
      /\ thread' = [thread EXCEPT ![t].list = o, ![t].pc = "check"]
  BY DEF AppendEvent
<1>5. states \in {None, o} OBVIOUS
<1> HIDE DEF o, n
<1>6. /\ thread' = [thread EXCEPT ![t] = thread'[t]]
      /\ thread'[t] = [thread[t] EXCEPT !.list = o, !.pc = "check"]
  BY <1>1, <1>4 DEF TypeOK
<1>7. Moves(t, "check", thread[t].config, thread[t].state, o, thread[t].activation)
  BY <1>1, <1>2, <1>6, ListMoves
<1> QED BY <1>2, <1>3, <1>4, <1>5, <1>7

LEMMA AppendPreserves ==
    ASSUME ThreadsInv, NEW t \in Threads, AppendEvent(t)
    PROVE  ThreadsInv'
<1>1. /\ TypeOK /\ Located /\ thread[t].pc = "append" /\ thread[t].kind = "event"
      /\ UNCHANGED <<records, cachedConfig, cachedState, active, states, routed, counts, history>>
  BY DEF ThreadsInv, AppendEvent, Located
<1>2. PICK o \in Objects, n \in Nat :
        /\ Moves(t, "check", thread[t].config, thread[t].state, o, thread[t].activation)
        /\ timestamps' = [timestamps EXCEPT ![o] = n + 1]
        /\ n \in {0, timestamps[o]}
  BY AppendMoves
<1>3. \A p \in Objects : timestamps[p] \in Nat /\ timestamps[p] <= MaxEvents BY <1>1 DEF TypeOK
<1>4. \A p \in Objects : timestamps'[p] <= timestamps[p] + 1 /\ timestamps'[p] \in Nat
  BY <1>1, <1>2, <1>3 DEF TypeOK
<1>5. t \in Unappended /\ t \notin Unappended' /\ t \in Unactivated
  BY <1>1, <1>2 DEF Unappended, Unactivated, BeforeAppend, BeforeActivation, Moves
<1>6. /\ Cardinality(Unappended') = Cardinality(Unappended) - 1
      /\ Cardinality(Unactivated') <= Cardinality(Unactivated)
      /\ Cardinality(Unappended) \in Nat /\ Cardinality(Unappended') \in Nat
      /\ Cardinality(Unactivated) \in Nat /\ Cardinality(Unactivated') \in Nat
  BY <1>2, <1>5, StepCounts DEF Moves
<1>7. Counted'
  <2>1. events' = events /\ activations' = activations /\ events \in Nat /\ activations \in Nat
    BY <1>1 DEF counts, TypeOK
  <2>2. activations' + Cardinality(Unactivated') <= events'
    BY <1>6, <2>1 DEF ThreadsInv, Counted
  <2>3. \A p \in Objects : timestamps'[p] + Cardinality(Unappended') <= events'
    BY <1>3, <1>4, <1>6, <2>1 DEF ThreadsInv, Counted
  <2> QED BY <2>2, <2>3 DEF Counted
<1>8. TypeOK'
  <2>1. timestamps' \in [Objects -> 0 .. MaxEvents]
    <3>1. \A p \in Objects : timestamps'[p] <= events'
      BY <1>1, <1>4, <1>6, <1>7 DEF Counted, TypeOK, counts
    <3>2. events' = events BY <1>1 DEF counts
    <3> QED BY <1>1, <1>2, <1>4, <3>1, <3>2 DEF TypeOK
  <2> QED BY <1>1, <1>2, <2>1 DEF TypeOK, records, counts, history, Moves
<1>9. Located' BY <1>1, <1>2 DEF Located, WithEvents, Moves
<1> QED BY <1>7, <1>8, <1>9 DEF ThreadsInv

LEMMA CheckMoves ==
    ASSUME ThreadsInv, NEW t \in Threads, CheckCriteria(t)
    PROVE  \E pc \in {"keep", "reset", "activate"} :
              /\ Moves(t, pc, thread[t].config, thread[t].state, thread[t].list,
                       thread[t].activation)
              /\ \/ active[thread[t].state] /\ pc = "keep" /\ timestamps' = timestamps
                 \/ \E n \in 1 .. timestamps[thread[t].list] :
                       /\ ~active[thread[t].state]
                       /\ timestamps' = [timestamps EXCEPT ![thread[t].list] = n]
                       /\ pc = "keep" => n < Count
                       /\ pc = "reset" => thread[t].config = "auto"
                       /\ pc = "activate" => thread[t].config # "auto"
<1>1. TypeOK /\ {"keep", "reset", "activate"} \subseteq Steps BY DEF ThreadsInv, Steps
<1>2. CASE active[thread[t].state]
  BY <1>1, <1>2, GoOnMoves DEF CheckCriteria
<1>3. CASE ~active[thread[t].state]
  <2>1. PICK n \in 1 .. timestamps[thread[t].list] :
          /\ timestamps' = [timestamps EXCEPT ![thread[t].list] = n]
          /\ GoOn(t, IF n < Count THEN "keep"
                     ELSE IF thread[t].config = "auto" THEN "reset" ELSE "activate")
    BY <1>3 DEF CheckCriteria
  <2> DEFINE pc == IF n < Count THEN "keep"
                   ELSE IF thread[t].config = "auto" THEN "reset" ELSE "activate"
  <2>2. /\ pc \in {"keep", "reset", "activate"} /\ (pc = "keep" => n < Count)
        /\ pc = "reset" => thread[t].config = "auto"
        /\ pc = "activate" => thread[t].config # "auto"
    OBVIOUS
  <2>3. GoOn(t, pc) BY <2>1
  <2> HIDE DEF pc
  <2>4. Moves(t, pc, thread[t].config, thread[t].state, thread[t].list, thread[t].activation)
    BY <1>1, <2>2, <2>3, GoOnMoves
  <2> QED BY <1>3, <2>1, <2>2, <2>4
<1> QED BY <1>2, <1>3

LEMMA CheckPreserves ==
    ASSUME ThreadsInv, NEW t \in Threads, CheckCriteria(t)
    PROVE  ThreadsInv'
<1>1. /\ TypeOK /\ Located /\ thread[t].pc = "check" /\ thread[t].kind = "event"
      /\ thread[t].list \in Objects
      /\ UNCHANGED <<records, cachedConfig, cachedState, active, states, routed, counts, history>>
  BY DEF ThreadsInv, CheckCriteria, Located, WithEvents
<1>2. PICK pc \in {"keep", "reset", "activate"} :
        /\ Moves(t, pc, thread[t].config, thread[t].state, thread[t].list,
                 thread[t].activation)
        /\ pc = "reset" => thread[t].config = "auto"
        /\ \/ timestamps' = timestamps
           \/ \E n \in 1 .. timestamps[thread[t].list] :
                 timestamps' = [timestamps EXCEPT ![thread[t].list] = n]
  BY CheckMoves
<1>3. /\ timestamps' \in [Objects -> 0 .. MaxEvents]
      /\ \A o \in Objects : timestamps'[o] <= timestamps[o]
  BY <1>1, <1>2 DEF TypeOK
<1>4. TypeOK' BY <1>1, <1>2, <1>3 DEF TypeOK, records, counts, history, Moves
<1>5. Located' BY <1>1, <1>2 DEF Located, WithEvents, Moves
<1>6. Counted'
  BY <1>1, <1>2, <1>3, MovePreserves
     DEF counts, BeforeAppend, BeforeActivation, Moves
<1> QED BY <1>4, <1>5, <1>6 DEF ThreadsInv

LEMMA ActivatePreserves ==
    ASSUME ThreadsInv, NEW t \in Threads, Activate(t)
    PROVE  ThreadsInv'
<1>1. /\ TypeOK /\ Located /\ thread[t].pc = "activate" /\ thread[t].kind = "event"
      /\ UNCHANGED <<config, db, cachedConfig, cachedState, states, timestamps,
                     routed, events, changes, restarts, failures, overlaps, last, history>>
      /\ activations' = activations + 1
  BY DEF ThreadsInv, Activate, Located
<1>2. events \in Nat /\ events <= MaxEvents /\ activations \in Nat BY <1>1 DEF TypeOK
<1>3. t \in Unactivated
  BY <1>1 DEF Unactivated, BeforeActivation
<1>4. Cardinality(Unactivated) \in Nat /\ Cardinality(Unactivated) # 0
  BY <1>3, CountsFinite, FS_CardinalityType, FS_EmptySet
<1>5. activations + 1 \in 0 .. MaxEvents /\ activations + 1 \in 1 .. MaxEvents
  <2>1. activations + Cardinality(Unactivated) <= events BY DEF ThreadsInv, Counted
  <2> QED BY <1>2, <1>4, <2>1
<1>6. Moves(t, "storeState", thread[t].config, thread[t].state, thread[t].list,
            activations + 1)
  <2>1. /\ thread' = [thread EXCEPT ![t] = thread'[t]]
        /\ thread'[t] = [thread[t] EXCEPT !.pc = "storeState", !.activation = activations + 1]
    BY <1>1 DEF TypeOK, Activate
  <2> QED BY <1>1, <1>5, <2>1, ActivationMoves
<1>7. TypeOK'
  <2>1. open' \subseteq 1 .. MaxEvents BY <1>1, <1>5 DEF Activate, TypeOK
  <2>2. active' \in [Objects -> BOOLEAN] BY <1>1 DEF Activate, TypeOK
  <2> QED BY <1>1, <1>5, <1>6, <2>1, <2>2 DEF TypeOK, history, Moves
<1>8. Located' BY <1>1, <1>6 DEF Located, WithEvents, Moves
<1>9. Counted'
  <2>1. t \notin Unactivated' /\ t \notin Unappended'
    BY <1>6 DEF Unactivated, Unappended, BeforeActivation, BeforeAppend, Moves
  <2>2. /\ Cardinality(Unactivated') = Cardinality(Unactivated) - 1
        /\ Cardinality(Unappended') <= Cardinality(Unappended)
        /\ Cardinality(Unappended) \in Nat /\ Cardinality(Unappended') \in Nat
    BY <1>3, <1>6, <2>1, StepCounts DEF Moves
  <2>3. \A o \in Objects : timestamps[o] \in Nat BY <1>1 DEF TypeOK
  <2> QED BY <1>1, <1>2, <1>4, <2>2, <2>3 DEF ThreadsInv, Counted
<1> QED BY <1>7, <1>8, <1>9 DEF ThreadsInv

LEMMA StoreStatePreserves ==
    ASSUME ThreadsInv, NEW t \in Threads, StoreState(t) \/ KeepEvents(t)
    PROVE  ThreadsInv'
<1>1. /\ TypeOK /\ Located /\ thread[t] \in ThreadStates
      /\ thread[t].pc \in {"storeState", "keep"} /\ thread[t].kind = "event"
      /\ thread[t].list \in Objects
  BY DEF ThreadsInv, TypeOK, StoreState, KeepEvents, Located, WithEvents
<1>2. \/ Moves(t, "keep", thread[t].config, thread[t].state, thread[t].list,
               thread[t].activation)
      \/ Returns(t)
  BY <1>1, GoOnMoves, ReturnReturns DEF StoreState, KeepEvents, Steps
<1>3. /\ UNCHANGED <<config, open, cachedConfig, cachedState, active, timestamps,
                     routed, counts, suspect>>
      /\ states' \in Objects \cup {None} /\ undelivered' \in BOOLEAN
  BY <1>1 DEF StoreState, KeepEvents, memory, records, history, TypeOK
<1>4. db' \in [active : BOOLEAN, cooldown : {"none", "set", "elapsed"},
               activation : 0 .. MaxEvents]
  <2>1. CASE KeepEvents(t) BY <1>1, <2>1 DEF KeepEvents, records, TypeOK
  <2>2. CASE StoreState(t)
    <3>1. /\ thread[t].activation \in 0 .. MaxEvents /\ 0 \in 0 .. MaxEvents
          /\ db.cooldown \in {"none", "set", "elapsed"}
      BY <1>1 DEF TypeOK, ThreadStates
    <3>2. /\ (thread[t].config # "auto") \in BOOLEAN
          /\ (IF thread[t].config = "cooldown" THEN "set" ELSE db.cooldown)
                \in {"none", "set", "elapsed"}
          /\ (IF thread[t].config = "auto" THEN 0 ELSE thread[t].activation)
                \in 0 .. MaxEvents
      BY <3>1
    <3> QED BY <2>2, <3>2 DEF StoreState
  <2> QED BY <2>1, <2>2
<1>5. TypeOK' BY <1>1, <1>2, <1>3, <1>4 DEF TypeOK, counts, history, Moves, Returns
<1>6. Located' BY <1>1, <1>2, IdleFields DEF Located, WithEvents, Moves, Returns
<1>7. Counted'
  <2>1. /\ UNCHANGED <<events, activations>>
        /\ \A o \in Objects : timestamps'[o] <= timestamps[o]
        /\ timestamps' \in [Objects -> 0 .. MaxEvents]
    BY <1>1, <1>3 DEF TypeOK, counts
  <2>2. /\ \A u \in Threads : u # t => thread'[u] = thread[u]
        /\ thread'[t].pc \in {"keep", "idle"}
        /\ thread'[t].kind = thread[t].kind \/ thread'[t].pc = "idle"
    BY <1>2, IdleFields DEF Moves, Returns
  <2> QED BY <2>1, <2>2, MovePreserves DEF BeforeAppend, BeforeActivation
<1> QED BY <1>5, <1>6, <1>7 DEF ThreadsInv

LEMMA ResetPreserves ==
    ASSUME ThreadsInv, NEW t \in Threads,
           UpdateActivation(t) \/ ResetState(t) \/ ClearCaches(t)
    PROVE  ThreadsInv'
<1>1. /\ TypeOK /\ Located /\ thread[t] \in ThreadStates
      /\ thread[t].pc \in {"activation", "reset", "clear"}
      /\ thread[t].pc = "activation" => thread[t].kind # "event"
  BY DEF ThreadsInv, TypeOK, UpdateActivation, ResetState, ClearCaches, Located
<1>2. \/ Returns(t)
      \/ \E pc \in {"reset", "clear", "activate"} :
            /\ Moves(t, pc, thread[t].config, thread[t].state, thread[t].list,
                     thread[t].activation)
            /\ pc = "activate" => thread[t].kind = "event"
            /\ thread[t].pc = "activation" => pc = "reset"
  BY <1>1, GoOnMoves, ReturnReturns DEF UpdateActivation, ResetState, ClearCaches, Steps
<1>3. /\ UNCHANGED <<config, cachedConfig, active, timestamps, routed, counts>>
      /\ suspect' \subseteq {"config", "state"} /\ undelivered' \in BOOLEAN
      /\ states' \in Objects \cup {None} /\ cachedState' \in Objects \cup {None}
      /\ open' \subseteq 1 .. MaxEvents
      /\ db' \in [active : BOOLEAN, cooldown : {"none", "set", "elapsed"},
                  activation : 0 .. MaxEvents]
  <2>1. CASE UpdateActivation(t) BY <1>1, <2>1 DEF UpdateActivation, memory, history, TypeOK
  <2>2. CASE ResetState(t) BY <1>1, <2>2 DEF ResetState, memory, history, TypeOK, Inactive
  <2>3. CASE ClearCaches(t) BY <1>1, <2>3 DEF ClearCaches, Dropped, records, TypeOK
  <2> QED BY <2>1, <2>2, <2>3
<1>4. TypeOK' BY <1>1, <1>2, <1>3 DEF TypeOK, counts, Moves, Returns
<1>5. Located' BY <1>1, <1>2, IdleFields DEF Located, WithEvents, Moves, Returns
<1>6. Counted'
  <2>1. /\ UNCHANGED <<events, activations>>
        /\ \A o \in Objects : timestamps'[o] <= timestamps[o]
        /\ timestamps' \in [Objects -> 0 .. MaxEvents]
    BY <1>1, <1>3 DEF TypeOK, counts
  <2>2. /\ \A u \in Threads : u # t => thread'[u] = thread[u]
        /\ thread'[t].pc \in {"reset", "clear", "activate", "idle"}
        /\ thread'[t].kind = thread[t].kind \/ thread'[t].pc = "idle"
    BY <1>2, IdleFields DEF Moves, Returns
  <2> QED BY <1>1, <2>1, <2>2, MovePreserves DEF BeforeAppend, BeforeActivation
<1> QED BY <1>4, <1>5, <1>6 DEF ThreadsInv

LEMMA FailPreserves ==
    ASSUME ThreadsInv, NEW t \in Threads, RequestFails(t)
    PROVE  ThreadsInv'
<1>1. /\ TypeOK /\ Located /\ Returns(t)
      /\ UNCHANGED <<records, memory, events, activations, changes, restarts, overlaps,
                     last, suspect>>
  BY ReturnReturns DEF ThreadsInv, RequestFails
<1>2. failures' \in 0 .. MaxFailures /\ undelivered' \in BOOLEAN
  BY <1>1 DEF TypeOK, RequestFails, LeftOpen
<1>3. TypeOK' BY <1>1, <1>2 DEF TypeOK, records, memory, Returns
<1>4. Located' BY <1>1, IdleFields DEF Located, WithEvents, Returns
<1>5. Counted'
  <2>1. /\ \A o \in Objects : timestamps'[o] <= timestamps[o]
        /\ timestamps' \in [Objects -> 0 .. MaxEvents]
    BY <1>1 DEF TypeOK, memory
  <2> QED BY <1>1, <2>1, IdleFields, MovePreserves
          DEF BeforeAppend, BeforeActivation, Returns
<1> QED BY <1>3, <1>4, <1>5 DEF ThreadsInv

LEMMA RestartPreserves ==
    ASSUME ThreadsInv, Restart
    PROVE  ThreadsInv'
<1>1. TypeOK /\ \A t \in Threads : thread'[t] = Idle BY DEF ThreadsInv, Restart
<1>2. TypeOK'
  <2>1. suspect' \subseteq {"config", "state"} /\ undelivered' \in BOOLEAN
    BY DEF Restart
  <2> QED BY <1>1, <2>1, SomeObject, IdleFields DEF TypeOK, Restart, PopulateCaches, records
<1>3. Located' BY <1>1, IdleFields DEF Located, WithEvents
<1>4. Unappended' = {} /\ Unactivated' = {}
  BY <1>1, IdleFields DEF Unappended, Unactivated, BeforeAppend, BeforeActivation
<1>5. Counted'
  <2>1. Cardinality(Unactivated) \in Nat BY CountsFinite, FS_CardinalityType
  <2>2. Cardinality(Unactivated') = 0 /\ Cardinality(Unappended') = 0
    BY <1>4, FS_EmptySet
  <2>3. \A o \in Objects : timestamps'[o] = 0 BY DEF Restart, PopulateCaches
  <2>4. events' = events /\ activations' = activations BY DEF Restart
  <2> QED BY <1>1, <2>1, <2>2, <2>3, <2>4 DEF ThreadsInv, TypeOK, Counted
<1> QED BY <1>2, <1>3, <1>5 DEF ThreadsInv

LEMMA ThreadsNext == ThreadsInv /\ [Next]_vars => ThreadsInv'
<1> SUFFICES ASSUME ThreadsInv, [Next]_vars PROVE ThreadsInv' OBVIOUS
<1>1. CASE UNCHANGED vars
  BY <1>1 DEF vars, records, memory, counts, history, ThreadsInv, TypeOK, Located, Counted,
              Unappended, Unactivated
<1>2. CASE CooldownElapses
  BY <1>2 DEF CooldownElapses, memory, counts, history, ThreadsInv, TypeOK, Located, Counted,
              Unappended, Unactivated
<1>3. ASSUME NEW t \in Threads, ThreadStep(t) PROVE ThreadsInv'
  BY <1>3, StoreConfigPreserves, ConfigPreserves, StatePreserves, AppendPreserves,
     CheckPreserves, ActivatePreserves, StoreStatePreserves, ResetPreserves
     DEF ThreadStep
<1> QED BY <1>1, <1>2, <1>3, BeginPreserves, StoreAlertPreserves, FailPreserves,
           RestartPreserves
        DEF Next

\* The invariant of any threads holds whether requests overlap or not.
THEOREM ThreadsCorrect == Spec => []ThreadsInv
BY ThreadsInit, ThreadsNext, PTL DEF Spec

\* Every variable keeps its type whatever the threads do: an event activates the
\* alert once at most, and is kept once at most.
THEOREM TypeCorrect == Spec => []TypeOK
<1>1. ThreadsInv => TypeOK BY DEF ThreadsInv
<1> QED BY <1>1, ThreadsCorrect, PTL

-----------------------------------------------------------------------------
(***************************************************************************)
(* Every action preserves SerialInv.                                       *)
(***************************************************************************)

\* A request begins, goes on or ends, and no other is served.
LEMMA Continues ==
    ASSUME Serial, NEW t \in Threads, Quiet \/ thread[t].pc # "idle",
           \A u \in Threads : u # t => thread'[u] = thread[u],
           thread'[t].pc # "idle", RequestInv(t)'
    PROVE  SerialInv'
<1>1. \A u \in Threads : u # t => thread'[u].pc = "idle" BY DEF Serial, Quiet
<1>2. Serial' BY <1>1 DEF Serial
<1>3. ~Quiet' BY DEF Quiet
<1> QED BY <1>1, <1>2, <1>3 DEF SerialInv

LEMMA Ends ==
    ASSUME Serial, NEW t \in Threads, thread[t].pc # "idle", Returns(t), QuietInv'
    PROVE  SerialInv'
<1>1. \A u \in Threads : thread'[u].pc = "idle" BY IdleFields DEF Serial, Returns
<1>2. Serial' BY <1>1 DEF Serial
<1> QED BY <1>1, <1>2 DEF SerialInv

LEMMA SerialInit == Init => SerialInv
<1> SUFFICES ASSUME Init PROVE SerialInv OBVIOUS
<1>1. \A t \in Threads : thread[t].pc = "idle" BY IdleFields DEF Init
<1>2. QuietInv
  BY SomeObject DEF Init, QuietInv, CachedStateAgrees, PendingEvents, Inactive, history
<1> QED BY <1>1, <1>2 DEF SerialInv, Serial

\* A step that overlaps others leaves nothing to be said.
LEMMA Unsure == suspect = {"config", "state"} => SerialInv
BY DEF SerialInv, Sure

LEMMA BeginSerial ==
    ASSUME ThreadsInv, SerialInv, NEW t \in Threads,
           ProcessEvent(t) \/ ResetAlert(t) \/ ResetCooledDown(t)
    PROVE  SerialInv'
<1>1. suspect' = Suspects /\ UNCHANGED <<records, memory, undelivered>>
  BY DEF ProcessEvent, ResetAlert, ResetCooledDown, Begin
<1>2. CASE ~Quiet BY <1>1, <1>2, Unsure DEF Suspects, SerialInv, Sure
<1>3. CASE Quiet /\ ~Sure BY <1>1, <1>3 DEF Suspects, SerialInv, Sure
<1>4. CASE Quiet /\ Sure
  <2>1. suspect' = suspect /\ QuietInv /\ TypeOK /\ Serial
    BY <1>1, <1>4 DEF Suspects, ThreadsInv, SerialInv
  <2>2. \/ Begins(t, "event", "config", config)
        \/ Begins(t, "reset", "activation", config)
        \/ Begins(t, "reset", "config", config)
    BY <2>1, BeginBegins DEF ProcessEvent, ResetAlert, ResetCooledDown
  <2>3. "config" \notin suspect => ConfigAgrees(t)'
    BY <1>1, <2>1, <2>2 DEF ConfigAgrees, QuietInv, Begins, records, memory
  <2>4. "state" \notin suspect => StateAgrees(t)'
    BY <1>1, <2>1, <2>2
       DEF StateAgrees, CachedStateAgrees, QuietInv, Begins, records, memory
  <2>5. "state" \notin suspect => EventsAgree(t)'
    BY <1>1, <2>1, <2>2 DEF EventsAgree, PendingEvents, QuietInv, Begins, records, memory
  <2>6. ResetCloses(t)' BY <2>2 DEF ResetCloses, Begins
  <2>7. RequestInv(t)' BY <2>1, <2>3, <2>4, <2>5, <2>6 DEF RequestInv
  <2> QED BY <1>4, <2>1, <2>2, <2>7, Continues DEF Begins
<1> QED BY <1>2, <1>3, <1>4

LEMMA StoreAlertSerial ==
    ASSUME ThreadsInv, SerialInv, NEW t \in Threads, StoreAlert(t)
    PROVE  SerialInv'
<1>1. /\ TypeOK
      /\ UNCHANGED <<records, cachedState, active, states, timestamps, undelivered>>
      /\ cachedConfig' = None
      /\ suspect' = Suspects \ (IF Quiet THEN {"config"} ELSE {})
  BY DEF ThreadsInv, StoreAlert
<1>2. CASE ~Quiet BY <1>1, <1>2, Unsure DEF Suspects, SerialInv, Sure
<1>3. CASE Quiet
  <2>1. /\ Serial /\ suspect' = suspect \ {"config"}
        /\ "state" \notin suspect => QuietInv
    BY <1>1, <1>3 DEF Suspects, SerialInv, Sure, Serial, Quiet
  <2>2. PICK c \in Policies : Begins(t, "store", "storeConfig", c) BY <1>1, StoreBegins
  <2>3. ConfigAgrees(t)' BY <1>1, <2>2 DEF ConfigAgrees, Begins
  <2>4. "state" \notin suspect => StateAgrees(t)' /\ EventsAgree(t)' /\ ResetCloses(t)'
    BY <1>1, <2>1, <2>2
       DEF StateAgrees, EventsAgree, ResetCloses, CachedStateAgrees, PendingEvents, QuietInv,
           Begins, records
  <2>5. RequestInv(t)' BY <2>1, <2>3, <2>4 DEF RequestInv
  <2> QED BY <1>3, <2>1, <2>2, <2>5, Continues DEF Begins
<1> QED BY <1>2, <1>3

LEMMA StoreConfigSerial ==
    ASSUME ThreadsInv, SerialInv, Sure, NEW t \in Threads, StoreConfig(t)
    PROVE  SerialInv'
<1>1. /\ TypeOK /\ Serial /\ RequestInv(t) /\ thread[t].pc = "storeConfig"
      /\ thread[t].kind # "event" /\ config' = thread[t].config
      /\ UNCHANGED <<db, open, cachedConfig, cachedState, active, states, timestamps,
                     history>>
  BY DEF ThreadsInv, SerialInv, Sure, StoreConfig, Located
<1>2. CASE thread[t].reset
  <2>1. Moves(t, "config", thread[t].config, thread[t].state, thread[t].list,
              thread[t].activation)
    BY <1>1, <1>2, GoOnMoves DEF StoreConfig, Steps
  <2>2. RequestInv(t)'
    BY <1>1, <2>1
       DEF RequestInv, ConfigAgrees, StateAgrees, EventsAgree, ResetCloses, CachedStateAgrees,
           PendingEvents, Moves, history
  <2> QED BY <1>1, <2>1, <2>2, Continues DEF Moves
<1>3. CASE ~thread[t].reset
  <2>1. Returns(t) BY <1>1, <1>3, ReturnReturns DEF StoreConfig
  <2>2. QuietInv'
    BY <1>1 DEF RequestInv, ConfigAgrees, StateAgrees, EventsAgree, CachedStateAgrees,
                PendingEvents, QuietInv, history
  <2> QED BY <1>1, <2>1, <2>2, Ends
<1> QED BY <1>2, <1>3

LEMMA ConfigSerial ==
    ASSUME ThreadsInv, SerialInv, Sure, NEW t \in Threads, GetAlertById(t) \/ FillConfig(t)
    PROVE  SerialInv'
<1>1. /\ TypeOK /\ Serial /\ RequestInv(t) /\ thread[t] \in ThreadStates
      /\ thread[t].pc \in {"config", "fillConfig"}
      /\ "config" \notin suspect => ConfigAgrees(t)
  BY DEF ThreadsInv, TypeOK, SerialInv, Sure, GetAlertById, FillConfig, RequestInv
<1>2. PICK pc \in {"fillConfig", "state", "activation"}, c \in Policies :
        /\ Moves(t, pc, c, thread[t].state, thread[t].list, thread[t].activation)
        /\ "config" \notin suspect => c = config
  <2>1. WithConfig(t) \in {"state", "activation"} BY DEF WithConfig
  <2>2. CASE GetAlertById(t)
    BY <1>1, <2>1, <2>2, ConfigMoves DEF ConfigAgrees, TypeOK
  <2>3. CASE FillConfig(t)
    BY <1>1, <2>1, <2>3, GoOnMoves DEF FillConfig, Steps, ConfigAgrees, ThreadStates
  <2> QED BY <2>2, <2>3
<1>3. /\ UNCHANGED <<records, cachedState, active, states, timestamps, history>>
      /\ "config" \notin suspect => cachedConfig' \in {None, config}
  BY <1>1 DEF GetAlertById, FillConfig, memory, ConfigAgrees
<1>4. RequestInv(t)'
  BY <1>1, <1>2, <1>3
     DEF RequestInv, ConfigAgrees, StateAgrees, EventsAgree, ResetCloses, CachedStateAgrees,
         PendingEvents, BeforeAppend, Moves, history, records
<1> QED BY <1>1, <1>2, <1>4, Continues DEF Moves

LEMMA StateSerial ==
    ASSUME ThreadsInv, SerialInv, Sure, NEW t \in Threads, GetAlertState(t) \/ FillState(t)
    PROVE  SerialInv'
<1>1. /\ TypeOK /\ Serial /\ RequestInv(t) /\ thread[t].pc \in {"state", "fillState"}
      /\ thread[t].pc = "fillState" => thread[t].state \in Objects
      /\ thread[t].kind = "event"
      /\ UNCHANGED <<records, cachedConfig, states, timestamps, counts, history>>
  BY DEF ThreadsInv, Located, SerialInv, Sure, GetAlertState, FillState
<1>2. PICK pc \in {"append", "fillState"}, s \in Objects :
        /\ Moves(t, pc, thread[t].config, s, thread[t].list, thread[t].activation)
        /\ "state" \notin suspect /\ pc = "append" => cachedState' = s /\ CachedStateAgrees'
        /\ "state" \notin suspect /\ pc = "fillState"
              => cachedState' = None /\ (active'[s] <=> db.active)
  <2>1. CASE GetAlertState(t) /\ cachedState # None
    <3>1. /\ thread' = [thread EXCEPT ![t] = thread'[t]]
          /\ thread'[t] = [thread[t] EXCEPT !.state = cachedState, !.pc = "append"]
          /\ cachedState \in Objects
      BY <1>1, <2>1 DEF GetAlertState, TypeOK
    <3>2. Moves(t, "append", thread[t].config, cachedState, thread[t].list,
                thread[t].activation)
      BY <1>1, <3>1, StateMoves
    <3>3. "state" \notin suspect => cachedState' = cachedState /\ CachedStateAgrees'
      BY <1>1, <2>1
         DEF GetAlertState, RequestInv, StateAgrees, CachedStateAgrees, records, history
    <3> QED BY <3>1, <3>2, <3>3
  <2>2. CASE GetAlertState(t) /\ cachedState = None
    <3>1. /\ thread' = [thread EXCEPT ![t] = thread'[t]]
          /\ thread'[t] = [thread[t] EXCEPT !.state = NewState, !.pc = "fillState"]
      BY <1>1, <2>2 DEF GetAlertState, TypeOK
    <3>2. NewState \in Objects BY <1>1, <2>2, NewStateIsNew
    <3>3. active'[NewState] = db.active /\ cachedState' = None
      BY <1>1, <2>2, <3>2 DEF GetAlertState, TypeOK
    <3> QED BY <1>1, <3>1, <3>2, <3>3, StateMoves
  <2>3. CASE FillState(t)
    <3>1. Moves(t, "append", thread[t].config, thread[t].state, thread[t].list,
                thread[t].activation)
      BY <1>1, <2>3, GoOnMoves DEF FillState, Steps
    <3>2. "state" \notin suspect => cachedState' = thread[t].state /\ CachedStateAgrees'
      BY <1>1, <2>3
         DEF FillState, RequestInv, StateAgrees, CachedStateAgrees, records, history
    <3> QED BY <1>1, <2>3, <3>1, <3>2 DEF FillState
  <2> QED BY <2>1, <2>2, <2>3
<1>3. "state" \notin suspect => StateAgrees(t)'
  BY <1>1, <1>2 DEF StateAgrees, CachedStateAgrees, Moves, records
<1>4. RequestInv(t)'
  BY <1>1, <1>2, <1>3
     DEF RequestInv, ConfigAgrees, EventsAgree, ResetCloses, PendingEvents, BeforeAppend,
         Moves, history, records
<1> QED BY <1>1, <1>2, <1>4, Continues DEF Moves

LEMMA AppendSerial ==
    ASSUME ThreadsInv, SerialInv, Sure, NEW t \in Threads, AppendEvent(t)
    PROVE  SerialInv'
<1>1. /\ TypeOK /\ Serial /\ RequestInv(t) /\ thread[t].pc = "append"
      /\ UNCHANGED <<records, cachedConfig, cachedState, active, counts, history>>
  BY DEF ThreadsInv, SerialInv, Sure, AppendEvent
<1>2. PICK o \in Objects :
        Moves(t, "check", thread[t].config, thread[t].state, o, thread[t].activation)
  BY AppendMoves
<1>3. RequestInv(t)'
  BY <1>1, <1>2
     DEF RequestInv, ConfigAgrees, StateAgrees, EventsAgree, ResetCloses, BeforeAppend,
         CachedStateAgrees, Moves, history, records
<1> QED BY <1>1, <1>2, <1>3, Continues DEF Moves

LEMMA CheckSerial ==
    ASSUME ThreadsInv, SerialInv, Sure, NEW t \in Threads, CheckCriteria(t)
    PROVE  SerialInv'
<1>1. /\ TypeOK /\ Serial /\ RequestInv(t) /\ thread[t].pc = "check"
      /\ thread[t].kind = "event" /\ thread[t].list \in Objects /\ thread[t].state \in Objects
      /\ UNCHANGED <<records, cachedConfig, cachedState, active, states, counts, history>>
  BY DEF ThreadsInv, SerialInv, Sure, CheckCriteria, Located, WithEvents
<1>2. PICK pc \in {"keep", "reset", "activate"} :
        /\ Moves(t, pc, thread[t].config, thread[t].state, thread[t].list,
                 thread[t].activation)
        /\ \/ active[thread[t].state] /\ pc = "keep" /\ timestamps' = timestamps
           \/ \E n \in 1 .. timestamps[thread[t].list] :
                 /\ ~active[thread[t].state]
                 /\ timestamps' = [timestamps EXCEPT ![thread[t].list] = n]
                 /\ pc = "keep" => n < Count
                 /\ pc = "reset" => thread[t].config = "auto"
                 /\ pc = "activate" => thread[t].config # "auto"
  BY CheckMoves
<1>3. "state" \notin suspect
        => cachedState = thread[t].state /\ cachedState # None /\ CachedStateAgrees
  BY <1>1 DEF RequestInv, StateAgrees
<1>4. "config" \notin suspect => ConfigAgrees(t)'
  BY <1>1, <1>2 DEF RequestInv, ConfigAgrees, Moves, records
<1>5. "state" \notin suspect => StateAgrees(t)'
  BY <1>1, <1>2, <1>3 DEF StateAgrees, CachedStateAgrees, Moves, records, history
<1>6. "state" \notin suspect => EventsAgree(t)'
  <2>1. "state" \notin suspect /\ pc = "keep" /\ ~db.active /\ ~undelivered
          => timestamps'[thread[t].list] < Count
    BY <1>1, <1>2, <1>3 DEF TypeOK, CachedStateAgrees
  <2> QED BY <1>1, <1>2, <2>1 DEF EventsAgree, BeforeAppend, Moves, records, history
<1>7. RequestInv(t)'
  BY <1>1, <1>2, <1>4, <1>5, <1>6 DEF RequestInv, ResetCloses, Moves, history
<1> QED BY <1>1, <1>2, <1>7, Continues DEF Moves

LEMMA ActivateSerial ==
    ASSUME ThreadsInv, ThreadsInv', SerialInv, Sure, NEW t \in Threads, Activate(t)
    PROVE  SerialInv'
<1>1. /\ TypeOK /\ Serial /\ RequestInv(t) /\ thread[t].pc = "activate"
      /\ thread[t].kind = "event" /\ thread[t].state \in Objects
      /\ UNCHANGED <<config, db, cachedConfig, cachedState, states, timestamps, history>>
  BY DEF ThreadsInv, SerialInv, Sure, Activate, Located, WithEvents
<1>2. active'[thread[t].state] = (active[thread[t].state] \/ thread[t].config # "auto")
  BY <1>1 DEF Activate, TypeOK
<1>3. Moves(t, "storeState", thread[t].config, thread[t].state, thread[t].list,
            activations + 1)
  <2>1. /\ thread' = [thread EXCEPT ![t] = thread'[t]]
        /\ thread'[t] = [thread[t] EXCEPT !.pc = "storeState", !.activation = activations + 1]
    BY <1>1 DEF TypeOK, Activate
  <2>2. activations' = activations + 1 BY DEF Activate
  <2>3. activations + 1 \in 0 .. MaxEvents BY <2>2 DEF ThreadsInv, TypeOK
  <2> QED BY <1>1, <2>1, <2>3, ActivationMoves
<1>4. RequestInv(t)'
  BY <1>1, <1>2, <1>3
     DEF RequestInv, ConfigAgrees, StateAgrees, EventsAgree, ResetCloses, BeforeAppend, Moves,
         history
<1> QED BY <1>1, <1>3, <1>4, Continues DEF Moves

LEMMA StoreStateSerial ==
    ASSUME ThreadsInv, SerialInv, Sure, NEW t \in Threads, StoreState(t)
    PROVE  SerialInv'
<1>1. /\ TypeOK /\ Serial /\ RequestInv(t) /\ thread[t].pc = "storeState"
      /\ thread[t].kind = "event" /\ thread[t].state \in Objects
      /\ db'.active = (thread[t].config # "auto")
      /\ UNCHANGED <<config, open, memory, suspect>> /\ undelivered' = FALSE
  BY DEF ThreadsInv, SerialInv, Sure, StoreState, Located, WithEvents
<1>2. CASE thread[t].config = "auto"
  <2>1. Returns(t) BY <1>1, <1>2, ReturnReturns DEF StoreState
  <2>2. QuietInv'
    BY <1>1, <1>2
       DEF QuietInv, RequestInv, ConfigAgrees, StateAgrees, EventsAgree, CachedStateAgrees,
           PendingEvents, memory
  <2> QED BY <1>1, <2>1, <2>2, Ends
<1>3. CASE thread[t].config # "auto"
  <2>1. Moves(t, "keep", thread[t].config, thread[t].state, thread[t].list,
              thread[t].activation)
    BY <1>1, <1>3, GoOnMoves DEF StoreState, Steps
  <2>2. /\ "state" \notin suspect => cachedState' = thread[t].state /\ active'[cachedState']
        /\ db'.active
    BY <1>1, <1>3 DEF RequestInv, StateAgrees, memory
  <2>3. RequestInv(t)'
    BY <1>1, <2>1, <2>2
       DEF RequestInv, ConfigAgrees, StateAgrees, EventsAgree, ResetCloses, CachedStateAgrees,
           BeforeAppend, Moves, memory
  <2> QED BY <1>1, <2>1, <2>3, Continues DEF Moves
<1> QED BY <1>2, <1>3

LEMMA KeepSerial ==
    ASSUME ThreadsInv, SerialInv, Sure, NEW t \in Threads, KeepEvents(t)
    PROVE  SerialInv'
<1>1. /\ TypeOK /\ Serial /\ RequestInv(t) /\ thread[t].pc = "keep"
      /\ thread[t].kind = "event" /\ thread[t].list \in Objects /\ states' = thread[t].list
      /\ UNCHANGED <<records, cachedConfig, cachedState, active, timestamps, counts, history>>
  BY DEF ThreadsInv, SerialInv, Sure, KeepEvents, Located, WithEvents
<1>2. Returns(t) BY <1>1, ReturnReturns DEF KeepEvents
<1>3. QuietInv'
  BY <1>1
     DEF QuietInv, RequestInv, ConfigAgrees, StateAgrees, EventsAgree, CachedStateAgrees,
         PendingEvents, records, history
<1> QED BY <1>1, <1>2, <1>3, Ends

LEMMA ResetSerial ==
    ASSUME ThreadsInv, SerialInv, Sure, NEW t \in Threads, UpdateActivation(t) \/ ResetState(t)
    PROVE  SerialInv'
<1>1. /\ TypeOK /\ Serial /\ RequestInv(t) /\ thread[t].pc \in {"activation", "reset"}
      /\ thread[t].pc = "activation" => thread[t].kind # "event"
      /\ UNCHANGED <<config, memory, counts, history>>
  BY DEF ThreadsInv, SerialInv, Sure, UpdateActivation, ResetState, Located
<1>2. CASE UpdateActivation(t)
  <2>1. /\ Moves(t, "reset", thread[t].config, thread[t].state, thread[t].list,
                 thread[t].activation)
        /\ thread[t].kind # "event" /\ db' = db
        /\ thread[t].config # "auto" => db.activation \notin open'
    BY <1>1, <1>2, GoOnMoves DEF UpdateActivation, Steps
  <2>2. RequestInv(t)'
    BY <1>1, <2>1
       DEF RequestInv, ConfigAgrees, StateAgrees, EventsAgree, ResetCloses, BeforeAppend,
           CachedStateAgrees, PendingEvents, Moves, memory, history
  <2> QED BY <1>1, <2>1, <2>2, Continues DEF Moves
<1>3. CASE ResetState(t)
  <2>1. /\ Moves(t, "clear", thread[t].config, thread[t].state, thread[t].list,
                 thread[t].activation)
        /\ thread[t].pc = "reset"
    BY <1>1, <1>3, GoOnMoves DEF ResetState, Steps
  <2>2. ~db'.active BY <1>3 DEF ResetState, Inactive
  <2>3. RequestInv(t)'
    BY <1>1, <2>1, <2>2
       DEF RequestInv, ConfigAgrees, StateAgrees, EventsAgree, ResetCloses, BeforeAppend,
           Moves, memory, history
  <2> QED BY <1>1, <2>1, <2>3, Continues DEF Moves
<1> QED BY <1>2, <1>3

LEMMA ClearSerial ==
    ASSUME ThreadsInv, SerialInv, NEW t \in Threads, ClearCaches(t)
    PROVE  SerialInv'
<1>1. /\ TypeOK /\ thread[t].pc = "clear" /\ cachedState' = None /\ states' = None
      /\ thread[t].kind = "event" => thread[t].config = "auto"
      /\ UNCHANGED <<records, cachedConfig, active, timestamps>>
  BY DEF ThreadsInv, ClearCaches, Located
<1>2. CASE \E u \in Threads \ {t} : thread[u].pc # "idle"
  <2>1. ~Sure BY <1>1, <1>2 DEF SerialInv, Serial
  <2>2. suspect' = suspect BY <1>2 DEF ClearCaches, Dropped
  <2> QED BY <2>1, <2>2 DEF SerialInv, Sure
<1>3. CASE \A u \in Threads \ {t} : thread[u].pc = "idle"
  <2>1. Serial /\ suspect' = suspect \ {"state"}
    BY <1>1, <1>3 DEF Serial, ClearCaches, Dropped
  <2>2. "config" \notin suspect => ConfigAgrees(t)
    BY <1>1 DEF SerialInv, Sure, RequestInv
  <2>3. CASE thread[t].kind = "event"
    <3>1. Moves(t, "activate", thread[t].config, thread[t].state, thread[t].list,
                thread[t].activation)
      BY <1>1, <2>3, GoOnMoves DEF ClearCaches, Steps
    <3>2. RequestInv(t)'
      BY <1>1, <2>1, <2>2, <2>3, <3>1
         DEF RequestInv, ConfigAgrees, StateAgrees, EventsAgree, ResetCloses, BeforeAppend,
             Moves, records
    <3> QED BY <1>1, <2>1, <3>1, <3>2, Continues DEF Moves
  <2>4. CASE thread[t].kind # "event"
    <3>1. Returns(t) BY <1>1, <2>4, ReturnReturns DEF ClearCaches
    <3>2. QuietInv'
      BY <1>1, <2>1, <2>2
         DEF QuietInv, ConfigAgrees, CachedStateAgrees, PendingEvents, records
    <3> QED BY <1>1, <2>1, <3>1, <3>2, Ends
  <2> QED BY <2>3, <2>4
<1> QED BY <1>2, <1>3

\* What a request that fails leaves to the next one.
LEMMA FailSerial ==
    ASSUME ThreadsInv, SerialInv, Sure, NEW t \in Threads, RequestFails(t)
    PROVE  SerialInv'
<1>1. /\ TypeOK /\ Serial /\ RequestInv(t) /\ Returns(t)
      /\ thread[t].pc \in {"config", "state", "activation", "reset", "activate",
                           "storeState", "storeConfig"}
      /\ thread[t].pc \in {"activate", "storeState"} => thread[t].kind = "event"
      /\ UNCHANGED <<records, memory, suspect>>
      /\ undelivered' = (undelivered \/ LeftOpen(t))
  BY ReturnReturns DEF ThreadsInv, SerialInv, Sure, RequestFails, Located
<1>2. "config" \notin suspect => cachedConfig' \in {None, config'}
  BY <1>1 DEF RequestInv, ConfigAgrees, records, memory
<1>3. "state" \notin suspect => CachedStateAgrees'
  <2>1. CASE thread[t].pc \in {"activate", "storeState"}
    BY <1>1, <2>1 DEF RequestInv, StateAgrees, CachedStateAgrees, LeftOpen, records, memory
  <2>2. CASE thread[t].pc \notin {"activate", "storeState"}
    BY <1>1, <2>2 DEF RequestInv, StateAgrees, CachedStateAgrees, records, memory
  <2> QED BY <2>1, <2>2
<1>4. ASSUME "state" \notin suspect, ~db.active, ~undelivered'
      PROVE  PendingEvents < Count
  <2>1. /\ ~undelivered /\ EventsAgree(t)
        /\ thread[t].pc = "reset" => thread[t].kind # "event"
        /\ thread[t].pc \in {"activate", "storeState"} => thread[t].config = "auto"
    BY <1>1, <1>4 DEF RequestInv, LeftOpen
  <2>2. CASE thread[t].pc \in {"activate", "storeState"}
    BY <2>1, <2>2 DEF EventsAgree, PendingEvents
  <2>3. CASE thread[t].pc \notin {"activate", "storeState"}
    <3>1. \/ thread[t].pc \in BeforeAppend \cup {"activation", "storeConfig"}
          \/ thread[t].pc = "reset" /\ thread[t].kind # "event"
      BY <1>1, <2>1, <2>3 DEF BeforeAppend
    <3> QED BY <1>4, <2>1, <3>1 DEF EventsAgree
  <2> QED BY <2>2, <2>3
<1>5. PendingEvents' = PendingEvents /\ db' = db /\ suspect' = suspect
  BY <1>1 DEF PendingEvents, records, memory
<1>6. QuietInv' BY <1>2, <1>3, <1>4, <1>5 DEF QuietInv
<1>7. thread[t].pc # "idle" BY <1>1
<1> QED BY <1>1, <1>6, <1>7, Ends

LEMMA CooldownSerial ==
    ASSUME ThreadsInv, SerialInv, CooldownElapses
    PROVE  SerialInv'
<1>1. /\ UNCHANGED <<config, open, memory, thread, history>>
      /\ db'.active = db.active /\ db'.activation = db.activation
  BY DEF CooldownElapses, ThreadsInv, TypeOK
<1>2. QuietInv => QuietInv'
  BY <1>1 DEF QuietInv, CachedStateAgrees, PendingEvents, memory, history
<1>3. \A t \in Threads : RequestInv(t) => RequestInv(t)'
  BY <1>1 DEF RequestInv, ConfigAgrees, StateAgrees, EventsAgree, ResetCloses,
              CachedStateAgrees, PendingEvents, memory, history
<1> QED BY <1>1, <1>2, <1>3 DEF SerialInv, Sure, Serial, Quiet, history

LEMMA RestartSerial ==
    ASSUME ThreadsInv, SerialInv, Restart
    PROVE  SerialInv'
<1>1. \A t \in Threads : thread'[t].pc = "idle" BY IdleFields DEF Restart
<1>2. QuietInv'
  BY SomeObject DEF Restart, PopulateCaches, QuietInv, CachedStateAgrees, PendingEvents,
     records, ThreadsInv, TypeOK
<1> QED BY <1>1, <1>2 DEF SerialInv, Serial

LEMMA SerialNext == ThreadsInv /\ SerialInv /\ [Next]_vars => SerialInv'
<1> SUFFICES ASSUME ThreadsInv, SerialInv, [Next]_vars PROVE SerialInv' OBVIOUS
<1>1. CASE UNCHANGED vars
  BY <1>1 DEF vars, records, memory, history, SerialInv, Sure, Serial, Quiet, QuietInv,
              RequestInv, ConfigAgrees, StateAgrees, EventsAgree, ResetCloses,
              CachedStateAgrees, PendingEvents
<1>2. ASSUME NEW t \in Threads, ThreadStep(t) \/ RequestFails(t) PROVE SerialInv'
  <2>1. ThreadsInv' BY <1>2, ThreadsNext DEF Next
  <2>2. CASE ClearCaches(t) BY <2>2, ClearSerial
  <2>3. CASE ~Sure /\ ~ClearCaches(t)
    <3>1. suspect' = suspect
      BY <1>2, <2>3
         DEF ThreadStep, StoreConfig, GetAlertById, FillConfig, GetAlertState, FillState,
             AppendEvent, CheckCriteria, Activate, StoreState, KeepEvents, UpdateActivation,
             ResetState, RequestFails, history
    <3> QED BY <2>3, <3>1 DEF SerialInv, Sure
  <2>4. CASE Sure /\ ~ClearCaches(t)
    BY <1>2, <2>1, <2>4, StoreConfigSerial, ConfigSerial, StateSerial, AppendSerial,
       CheckSerial, ActivateSerial, StoreStateSerial, KeepSerial, ResetSerial, FailSerial
       DEF ThreadStep
  <2> QED BY <2>2, <2>3, <2>4
<1> QED BY <1>1, <1>2, BeginSerial, StoreAlertSerial, CooldownSerial, RestartSerial DEF Next

\* What a request relies on holds at each of its steps, as long as requests do not
\* overlap, and again when the caches have been set right after they did.
THEOREM SerialCorrect == Spec => [](ThreadsInv /\ SerialInv)
BY ThreadsInit, ThreadsNext, SerialInit, SerialNext, PTL DEF Spec

\* The caches agree with the database between requests, for any number of threads,
\* events, changes, resets, failures and restarts: store_alert sets _alert_cache
\* right, and reset_alert _alert_state_cache, whatever overlapping requests left.
THEOREM CachesStayInAgreement == Spec => []CachesAgree
<1>1. SerialInv => CachesAgree
  BY DEF SerialInv, Sure, QuietInv, CachedStateAgrees, CachesAgree
<1> QED BY <1>1, SerialCorrect, PTL

\* An alert that is not active has fewer events than its criteria ask for, for any
\* count: process_event and reset_alert drop and keep the events of _states as they
\* should, unless the notification or the activation failed.
THEOREM FiresOnlyAtCount == Spec => []FiresAtCount
<1>1. SerialInv => FiresAtCount BY DEF SerialInv, Sure, QuietInv, FiresAtCount
<1> QED BY <1>1, SerialCorrect, PTL

\* The step that makes an alert inactive finds its activation closed, whatever
\* failed before: _update_alert_activation_on_reset.
THEOREM ResetsCloseActivations == Spec => ResetClosesActivation
<1>1. ThreadsInv /\ SerialInv /\ [Next]_vars =>
        [db.active /\ ~db'.active /\ config # "auto" /\ suspect = {}
           => db.activation \notin open']_vars
  <2> SUFFICES ASSUME ThreadsInv, SerialInv, Next, db.active, ~db'.active, config # "auto",
                      suspect = {}
      PROVE  db.activation \notin open'
    OBVIOUS
  <2>1. ASSUME NEW t \in Threads, thread[t].pc # "idle"
        PROVE  ConfigAgrees(t) /\ ResetCloses(t)
    BY <2>1 DEF SerialInv, Sure, RequestInv
  <2>2. ASSUME NEW t \in Threads, StoreState(t) PROVE db.activation \notin open'
    <3>1. thread[t].config = config BY <2>1, <2>2 DEF StoreState, ConfigAgrees
    <3> QED BY <2>2, <3>1 DEF StoreState
  <2>3. ASSUME NEW t \in Threads, ResetState(t) PROVE db.activation \notin open'
    <3>1. thread[t].kind = "event" => thread[t].config = "auto"
      BY <2>3 DEF ResetState, ThreadsInv, Located
    <3> QED BY <2>1, <2>3, <3>1 DEF ResetState, ConfigAgrees, ResetCloses
  <2>4. CASE CooldownElapses BY <2>4 DEF CooldownElapses, ThreadsInv, TypeOK
  <2>5. ASSUME db' = db PROVE FALSE BY <2>5
  <2> QED BY <2>2, <2>3, <2>4, <2>5
          DEF Next, ThreadStep, ProcessEvent, ResetAlert, StoreAlert, ResetCooledDown,
              StoreConfig, GetAlertById, FillConfig, GetAlertState, FillState, AppendEvent,
              CheckCriteria, Activate, KeepEvents, UpdateActivation, ClearCaches,
              RequestFails, Restart, records
<1> QED BY <1>1, SerialCorrect, PTL DEF Spec, ResetClosesActivation

=============================================================================
