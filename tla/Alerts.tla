------------------------------- MODULE Alerts -------------------------------
(***************************************************************************)
(* An alert of the alerts service (services/alerts/crud/alerts.py          *)
(* and events.py): the events that trigger it, its activation, its reset   *)
(* by a user, by a change of its configuration or after its cooldown, and  *)
(* the record of its state (framework/db/sqldb/db.py).  The service keeps  *)
(* the configuration and the state of alerts in LRU caches and the events  *)
(* of the current period in the dictionary _states; all of it is shared by *)
(* the threads that serve requests and lost when the process restarts.     *)
(*                                                                         *)
(* The cached state and an entry of _states are mutable objects: a thread  *)
(* that holds one goes on with it after it was removed from the cache, so  *)
(* objects have identities here.  A step is one database access, or the    *)
(* statements on memory up to the next one.                                *)
(***************************************************************************)
EXTENDS Naturals, FiniteSets

CONSTANTS
    Threads,       \* of the pool that serves requests
    Objects,       \* identities of dictionaries
    None,
    Count,         \* criteria.count
    MaxEvents,     \* bound: events
    MaxChanges,    \* bound: user resets and changes of the configuration
    MaxRestarts,   \* bound: restarts of the service
    MaxFailures,   \* bound: requests that fail
    MaxOverlaps    \* bound: requests that begin while another is served

ASSUME AlertsAssumption ==
    /\ None \notin Objects
    /\ IsFiniteSet(Threads) /\ Cardinality(Objects) > Cardinality(Threads)
    /\ Count \in Nat \ {0}
    /\ MaxEvents \in Nat /\ MaxChanges \in Nat
    /\ MaxRestarts \in Nat /\ MaxFailures \in Nat /\ MaxOverlaps \in Nat

VARIABLES
    config,         \* the reset policy in the configuration's record
    db,             \* the record of the state
    open,           \* activations without a reset time
    cachedConfig,   \* _alert_cache
    cachedState,    \* _alert_state_cache: an object
    active,         \* state["active"] of each state object
    states,         \* the entry of _states: an object
    timestamps,     \* how many event_timestamps each such object has
    routed,         \* whether Events().process_event finds the alert
    thread,         \* where each thread is
    events, activations, changes,      \* how many so far
    restarts, failures, overlaps,
    last,           \* history: the kind of request that began last
    suspect,        \* history: what overlapping requests may have left stale
    undelivered     \* history: an event was enough, but could not activate

records == <<config, db, open>>
memory == <<cachedConfig, cachedState, active, states, timestamps, routed>>
history == <<suspect, undelivered>>
counts == <<events, activations, changes, restarts, failures, overlaps, last>>
vars == <<records, memory, thread, counts, history>>

-----------------------------------------------------------------------------

\* "cooldown" is the policy auto with a cooldown_period above zero.
Policies == {"manual", "auto", "cooldown"}

Inactive == [active |-> FALSE, cooldown |-> "none", activation |-> 0]

Steps == {"idle", "config", "fillConfig", "state", "fillState", "append",
          "check", "activation", "reset", "clear", "activate", "storeState",
          "keep", "storeConfig"}

\* In a store_alert, config is the new policy and reset the decision to reset.
ThreadStates ==
    [pc : Steps, kind : {"event", "reset", "store"}, config : Policies,
     state : Objects \cup {None}, list : Objects \cup {None},
     activation : 0 .. MaxEvents, reset : BOOLEAN]

Idle == [pc |-> "idle", kind |-> "event", config |-> "auto", state |-> None,
         list |-> None, activation |-> 0, reset |-> FALSE]

TypeOK ==
    /\ config \in Policies
    /\ db \in [active : BOOLEAN, cooldown : {"none", "set", "elapsed"},
               activation : 0 .. MaxEvents]
    /\ open \subseteq 1 .. MaxEvents
    /\ cachedConfig \in Policies \cup {None}
    /\ cachedState \in Objects \cup {None} /\ states \in Objects \cup {None}
    /\ active \in [Objects -> BOOLEAN]
    /\ timestamps \in [Objects -> 0 .. MaxEvents]
    /\ routed \in BOOLEAN
    /\ thread \in [Threads -> ThreadStates]
    /\ events \in 0 .. MaxEvents /\ activations \in 0 .. MaxEvents
    /\ changes \in 0 .. MaxChanges /\ restarts \in 0 .. MaxRestarts
    /\ failures \in 0 .. MaxFailures /\ overlaps \in 0 .. MaxOverlaps
    /\ last \in {"event", "reset", "store", "start"}
    /\ suspect \subseteq {"config", "state"} /\ undelivered \in BOOLEAN

Quiet == \A t \in Threads : thread[t].pc = "idle"

\* An object that neither the cache nor a thread refers to.
NewState == CHOOSE o \in Objects :
              o # cachedState /\ \A t \in Threads : thread[t].state # o

NewList == CHOOSE o \in Objects :
             o # states /\ \A t \in Threads : thread[t].list # o

\* _try_populate_caches, when the service comes up.
PopulateCaches(o) ==
    /\ cachedConfig' = config
    /\ cachedState' = o
    /\ active' = [p \in Objects |-> p = o /\ db.active]
    /\ states' = None
    /\ timestamps' = [p \in Objects |-> 0]
    /\ routed' = TRUE

Init ==
    /\ config \in Policies
    /\ db = Inactive
    /\ open = {}
    /\ cachedConfig = config
    /\ cachedState = CHOOSE o \in Objects : TRUE
    /\ active = [o \in Objects |-> FALSE]
    /\ states = None
    /\ timestamps = [o \in Objects |-> 0]
    /\ routed = TRUE
    /\ thread = [t \in Threads |-> Idle]
    /\ events = 0 /\ activations = 0 /\ changes = 0
    /\ restarts = 0 /\ failures = 0 /\ overlaps = 0
    /\ last = "start" /\ suspect = {} /\ undelivered = FALSE

\* Thread t goes on at pc with what it has.
GoOn(t, pc) == thread' = [thread EXCEPT ![t].pc = pc]

Return(t) == thread' = [thread EXCEPT ![t] = Idle]

-----------------------------------------------------------------------------
(***************************************************************************)
(* Requests.                                                               *)
(***************************************************************************)

\* Thread t begins a request; if another is served, either cache may become stale.
Serve(t) ==
    /\ thread[t].pc = "idle"
    /\ IF Quiet THEN UNCHANGED overlaps
       ELSE overlaps < MaxOverlaps /\ overlaps' = overlaps + 1

Suspects == IF Quiet THEN suspect ELSE {"config", "state"}

Begin(t, kind, pc) ==
    /\ Serve(t)
    /\ thread' = [thread EXCEPT ![t] =
                    [Idle EXCEPT !.kind = kind, !.pc = pc, !.config = config]]
    /\ last' = kind
    /\ suspect' = Suspects
    /\ UNCHANGED <<failures, undelivered>>

\* Events.process_event, for an alert that is configured for the event.
ProcessEvent(t) ==
    /\ routed
    /\ events < MaxEvents /\ events' = events + 1
    /\ Begin(t, "event", "config")
    /\ UNCHANGED <<records, memory, activations, changes, restarts>>

\* reset_alert by name: the configuration comes from the database.
ResetAlert(t) ==
    /\ changes < MaxChanges /\ changes' = changes + 1
    /\ Begin(t, "reset", "activation")
    /\ UNCHANGED <<records, memory, events, activations, restarts>>

\* reset_cooled_down_alerts calls reset_alert by id.
ResetCooledDown(t) ==
    /\ db.active /\ db.cooldown = "elapsed"
    /\ Begin(t, "reset", "config")
    /\ UNCHANGED <<records, memory, events, activations, changes, restarts>>

\* _should_reset_alert; every other reason to reset is in force.
ShouldReset(old, new, force) ==
    \/ force
    \/ db.active /\ old = "manual" /\ new # "manual"
    \/ (old = "cooldown") # (new = "cooldown")

(***************************************************************************)
(* store_alert of an alert that exists: the cached configuration and the   *)
(* routing of events go before the record is stored.  If no other request  *)
(* is served then, no thread has a configuration from before;              *)
(***************************************************************************)
StoreAlert(t) ==
    /\ changes < MaxChanges /\ changes' = changes + 1
    /\ Serve(t)
    /\ \E new \in Policies, force \in BOOLEAN :
          thread' = [thread EXCEPT ![t] =
                       [Idle EXCEPT !.kind = "store", !.pc = "storeConfig",
                                    !.config = new,
                                    !.reset = ShouldReset(config, new, force)]]
    /\ last' = "store"
    /\ cachedConfig' = None
    /\ routed' = FALSE
    /\ suspect' = Suspects \ (IF Quiet THEN {"config"} ELSE {})
    /\ UNCHANGED <<records, cachedState, active, states, timestamps, events,
                   activations, restarts, failures, undelivered>>

\* the routing comes back after it, and then the alert is reset if needed.
StoreConfig(t) ==
    /\ thread[t].pc = "storeConfig"
    /\ config' = thread[t].config
    /\ routed' = TRUE
    /\ IF thread[t].reset THEN GoOn(t, "config") ELSE Return(t)
    /\ UNCHANGED <<db, open, cachedConfig, cachedState, active, states,
                   timestamps, counts, history>>

-----------------------------------------------------------------------------
(***************************************************************************)
(* The caches: a value that is not there is read from the database, and    *)
(* put into the cache afterwards.                                          *)
(***************************************************************************)

WithConfig(t) == IF thread[t].kind = "event" THEN "state" ELSE "activation"

GetAlertById(t) ==
    /\ thread[t].pc = "config"
    /\ thread' = IF cachedConfig # None
                 THEN [thread EXCEPT ![t].config = cachedConfig,
                                     ![t].pc = WithConfig(t)]
                 ELSE [thread EXCEPT ![t].config = config,
                                     ![t].pc = "fillConfig"]
    /\ UNCHANGED <<records, memory, counts, history>>

FillConfig(t) ==
    /\ thread[t].pc = "fillConfig"
    /\ cachedConfig' = thread[t].config
    /\ GoOn(t, WithConfig(t))
    /\ UNCHANGED <<records, cachedState, active, states, timestamps, routed,
                   counts, history>>

GetAlertState(t) ==
    /\ thread[t].pc = "state"
    /\ IF cachedState # None
       THEN /\ thread' = [thread EXCEPT ![t].state = cachedState,
                                        ![t].pc = "append"]
            /\ UNCHANGED active
       ELSE /\ thread' = [thread EXCEPT ![t].state = NewState,
                                        ![t].pc = "fillState"]
            /\ active' = [active EXCEPT ![NewState] = db.active]
    /\ UNCHANGED <<records, cachedConfig, cachedState, states, timestamps,
                   routed, counts, history>>

FillState(t) ==
    /\ thread[t].pc = "fillState"
    /\ cachedState' = thread[t].state
    /\ GoOn(t, "append")
    /\ UNCHANGED <<records, cachedConfig, active, states, timestamps, routed,
                   counts, history>>

-----------------------------------------------------------------------------
(***************************************************************************)
(* process_event.                                                          *)
(***************************************************************************)

\* Mutant of AppendEvent: the alert is found by its id and by the wildcard.
AppendEventTwice(t) ==
    LET o == IF states # None THEN states ELSE NewList
        n == IF states # None THEN timestamps[o] ELSE 0
    IN  /\ thread[t].pc = "append"
        /\ timestamps' = [timestamps EXCEPT ![o] = n + 2]
        /\ thread' = [thread EXCEPT ![t].list = o, ![t].pc = "check"]
        /\ UNCHANGED <<records, cachedConfig, cachedState, active, states,
                       routed, counts, history>>

AppendEvent(t) ==
    LET o == IF states # None THEN states ELSE NewList
        n == IF states # None THEN timestamps[o] ELSE 0
    IN  /\ thread[t].pc = "append"
        /\ timestamps' = [timestamps EXCEPT ![o] = n + 1]
        /\ thread' = [thread EXCEPT ![t].list = o, ![t].pc = "check"]
        /\ UNCHANGED <<records, cachedConfig, cachedState, active, states,
                       routed, counts, history>>

(***************************************************************************)
(* An active alert only keeps its events.  Otherwise those out of the      *)
(* period are dropped, and enough of them activate the alert, which resets *)
(* one of policy auto first.                                               *)
(***************************************************************************)
CheckCriteria(t) ==
    /\ thread[t].pc = "check"
    /\ IF active[thread[t].state]
       THEN GoOn(t, "keep") /\ UNCHANGED timestamps
       ELSE \E n \in 1 .. timestamps[thread[t].list] :
              /\ timestamps' = [timestamps EXCEPT ![thread[t].list] = n]
              /\ GoOn(t, IF n < Count THEN "keep"
                         ELSE IF thread[t].config = "auto" THEN "reset"
                         ELSE "activate")
    /\ UNCHANGED <<records, cachedConfig, cachedState, active, states, routed,
                   counts, history>>

\* The activation is stored, and the cached state is active from then on.
Activate(t) ==
    /\ thread[t].pc = "activate"
    /\ activations' = activations + 1
    /\ open' = IF thread[t].config = "manual" THEN open \cup {activations + 1}
               ELSE open
    /\ active' = [active EXCEPT ![thread[t].state] =
                    @ \/ thread[t].config # "auto"]
    /\ thread' = [thread EXCEPT ![t].pc = "storeState",
                                ![t].activation = activations + 1]
    /\ UNCHANGED <<config, db, cachedConfig, cachedState, states, timestamps,
                   routed, events, changes, restarts, failures, overlaps, last,
                   history>>

\* With the notifications sent, the state is stored.
StoreState(t) ==
    /\ thread[t].pc = "storeState"
    /\ db' = [active |-> thread[t].config # "auto",
              cooldown |-> IF thread[t].config = "cooldown" THEN "set"
                           ELSE db.cooldown,
              activation |-> IF thread[t].config = "auto" THEN 0
                             ELSE thread[t].activation]
    /\ IF thread[t].config = "auto" THEN Return(t) ELSE GoOn(t, "keep")
    /\ undelivered' = FALSE
    /\ UNCHANGED <<config, open, memory, counts, suspect>>

KeepEvents(t) ==
    /\ thread[t].pc = "keep"
    /\ states' = thread[t].list
    /\ Return(t)
    /\ UNCHANGED <<records, cachedConfig, cachedState, active, timestamps,
                   routed, counts, history>>

-----------------------------------------------------------------------------
(***************************************************************************)
(* reset_alert.                                                            *)
(***************************************************************************)

\* Mutant of UpdateActivation: only alerts with a cooldown have one.
UpdateActivationCooldown(t) ==
    /\ thread[t].pc = "activation"
    /\ open' = IF thread[t].config = "cooldown" THEN open \ {db.activation}
               ELSE open
    /\ GoOn(t, "reset")
    /\ UNCHANGED <<config, db, memory, counts, history>>

\* _update_alert_activation_on_reset
UpdateActivation(t) ==
    /\ thread[t].pc = "activation"
    /\ open' = IF thread[t].config = "auto" THEN open ELSE open \ {db.activation}
    /\ GoOn(t, "reset")
    /\ UNCHANGED <<config, db, memory, counts, history>>

ResetState(t) ==
    /\ thread[t].pc = "reset"
    /\ db' = Inactive
    /\ GoOn(t, "clear")
    /\ UNCHANGED <<config, open, memory, counts, history>>

(***************************************************************************)
(* The reset ends by dropping what is cached of the state and the events.  *)
(* If no other request is served then, nobody can put old values back.     *)
(***************************************************************************)
Dropped(t) ==
    /\ suspect' = suspect \ (IF \A u \in Threads \ {t} : thread[u].pc = "idle"
                             THEN {"state"} ELSE {})
    /\ undelivered' = FALSE

\* Mutant of ClearCaches: the state stays in its cache.
ClearCachesNotState(t) ==
    /\ thread[t].pc = "clear"
    /\ states' = None
    /\ IF thread[t].kind = "event" THEN GoOn(t, "activate") ELSE Return(t)
    /\ Dropped(t)
    /\ UNCHANGED <<records, cachedConfig, cachedState, active, timestamps,
                   routed, counts>>

\* Mutant of ClearCaches: the events stay in _states.
ClearCachesNotEvents(t) ==
    /\ thread[t].pc = "clear"
    /\ cachedState' = None
    /\ IF thread[t].kind = "event" THEN GoOn(t, "activate") ELSE Return(t)
    /\ Dropped(t)
    /\ UNCHANGED <<records, cachedConfig, active, states, timestamps, routed,
                   counts>>

\* An event that resets the alert goes on to activate it.
ClearCaches(t) ==
    /\ thread[t].pc = "clear"
    /\ cachedState' = None
    /\ states' = None
    /\ IF thread[t].kind = "event" THEN GoOn(t, "activate") ELSE Return(t)
    /\ Dropped(t)
    /\ UNCHANGED <<records, cachedConfig, active, timestamps, routed, counts>>

-----------------------------------------------------------------------------

\* The events of thread t, or the active state, stay in memory if it fails now.
LeftOpen(t) ==
    /\ thread[t].kind = "event"
    /\ \/ thread[t].pc = "reset"
       \/ thread[t].pc \in {"activate", "storeState"} /\ thread[t].config # "auto"

(***************************************************************************)
(* A request fails: an access to the database, the validation of the new   *)
(* notifications (before the configuration is stored) or the delivery of   *)
(* the old ones (before the state is stored).  Nothing is undone.          *)
(***************************************************************************)
RequestFails(t) ==
    /\ thread[t].pc \in {"config", "state", "activation", "reset", "activate",
                        "storeState", "storeConfig"}
    /\ thread[t].pc = "config" => cachedConfig = None
    /\ thread[t].pc = "state" => cachedState = None
    /\ failures < MaxFailures /\ failures' = failures + 1
    /\ Return(t)
    /\ undelivered' = (undelivered \/ LeftOpen(t))
    /\ UNCHANGED <<records, memory, events, activations, changes, restarts,
                   overlaps, last, suspect>>

CooldownElapses ==
    /\ db.cooldown = "set"
    /\ db' = [db EXCEPT !.cooldown = "elapsed"]
    /\ UNCHANGED <<config, open, memory, thread, counts, history>>

\* The process dies in the middle of anything, and comes back.
Restart ==
    /\ restarts < MaxRestarts /\ restarts' = restarts + 1
    /\ PopulateCaches(CHOOSE o \in Objects : TRUE)
    /\ thread' = [t \in Threads |-> Idle]
    /\ last' = "start" /\ suspect' = {} /\ undelivered' = FALSE
    /\ UNCHANGED <<records, events, activations, changes, failures,
                   overlaps>>

ThreadStep(t) ==
    \/ StoreConfig(t)
    \/ GetAlertById(t) \/ FillConfig(t) \/ GetAlertState(t) \/ FillState(t)
    \/ AppendEvent(t) \/ CheckCriteria(t) \/ Activate(t) \/ StoreState(t)
    \/ KeepEvents(t)
    \/ UpdateActivation(t) \/ ResetState(t) \/ ClearCaches(t)

Next ==
    \/ \E t \in Threads :
          \/ ProcessEvent(t) \/ ResetAlert(t) \/ StoreAlert(t)
          \/ ResetCooledDown(t)
          \/ ThreadStep(t) \/ RequestFails(t)
    \/ CooldownElapses
    \/ Restart

(***************************************************************************)
(* A request that has begun goes on, cooldowns elapse, and the periodic    *)
(* reset runs again and again.  Nobody has to send events or to reset.     *)
(***************************************************************************)
Fairness ==
    /\ \A t \in Threads : WF_vars(ThreadStep(t))
    /\ WF_vars(CooldownElapses)
    /\ WF_vars(\E t \in Threads : ResetCooledDown(t))

Spec == Init /\ [][Next]_vars /\ Fairness

-----------------------------------------------------------------------------

(***************************************************************************)
(* Between requests the caches agree with the database: neither a reset,   *)
(* an activation, a change of the configuration, a failure nor a restart   *)
(* leaves a value behind that the next event would be judged by, but for   *)
(* the active state of an alert whose activation could not be completed.   *)
(* Requests that overlap may leave one (the caches are filled after the    *)
(* read): store_alert sets the configuration right, and any reset the      *)
(* state, when no other request is served meanwhile.                       *)
(***************************************************************************)
CachesAgree ==
    Quiet => /\ "config" \notin suspect => cachedConfig \in {None, config}
             /\ "state" \notin suspect /\ cachedState # None
                  => /\ db.active => active[cachedState]
                     /\ active[cachedState] => db.active \/ undelivered

PendingEvents == IF states = None THEN 0 ELSE timestamps[states]

(***************************************************************************)
(* An alert that is not active waits for events: it never has as many as   *)
(* its criteria ask for, so none of those that activated it count again,   *)
(* unless the activation could not be completed.  Any reset in which no    *)
(* other request is served makes up for what overlapping ones left.        *)
(***************************************************************************)
FiresAtCount ==
    Quiet /\ "state" \notin suspect /\ ~undelivered /\ ~db.active
      => PendingEvents < Count

(***************************************************************************)
(* When an alert that is not of policy auto stops being active, the        *)
(* activation gets its reset time ("for manual reset policy, we keep it    *)
(* empty until the alert is reset"), whatever failed before; requests that *)
(* overlap can decide by an old configuration.                             *)
(***************************************************************************)
ResetClosesActivation ==
    [][db.active /\ ~db'.active /\ config # "auto" /\ suspect = {}
         => db.activation \notin open']_vars

\* What an event that arrives now finds.
Suppressed ==
    IF cachedState # None THEN active[cachedState] ELSE db.active

(***************************************************************************)
(* "cooldown alerts stay active until the cooldown elapses", and not       *)
(* longer: events find the alert inactive again, although resets fail; if  *)
(* not, a request that overlapped another has put the state back.          *)
(***************************************************************************)
CooldownEnds ==
    db.active /\ db.cooldown # "none" ~> ~Suppressed \/ "state" \in suspect

(***************************************************************************)
(* A reset is not overridden ("we don't want to update the state if        *)
(* reset_alert() was called, as we will override the reset"): with no      *)
(* request after it, the alert is left inactive and without events.        *)
(***************************************************************************)
ResetIsNotOverridden ==
    Quiet /\ last = "reset" => ~db.active /\ states = None

=============================================================================
