----------------------- MODULE InternalBackgroundTasks -----------------------
(***************************************************************************)
(* The background tasks that the chief keeps in memory                     *)
(* (server/py/framework/utils/background_tasks/internal.py): project       *)
(* deletions, migrations and refreshes, of which one may be active per     *)
(* kind.  Tasks are created and looked up in threads of the pool, and      *)
(* their wrappers end in the event loop; nothing locks the dictionaries    *)
(* they share, so a statement on a dictionary is an atomic step here.  The *)
(* kinds do not touch each other's entries, and one kind is modelled.      *)
(*                                                                         *)
(* A reader that finds a task past its time-out fails and finishes it,     *)
(* while the task's function runs on.  Any running task may be found to be *)
(* past its time-out.                                                      *)
(***************************************************************************)
EXTENDS Naturals

CONSTANTS
    Names,      \* task names: UUIDs, each used once
    NoName,     \* None
    Creators,   \* threads that create tasks of the kind
    Getters     \* threads that look tasks up

ASSUME TasksAssumption == NoName \notin Names /\ Getters \cap Names = {}

VARIABLES
    tasks,      \* the keys of _internal_background_tasks
    state,      \* status.state of each task, "none" before it is created
    active,     \* _background_tasks_kind_locks[kind][0]
    previous,   \* _background_tasks_kind_locks[kind][1]
    creator,    \* the name each creating thread is registering, and where it is
    actor       \* where each wrapper and each getter is, and its task

locks == <<active, previous>>
vars == <<tasks, state, locks, creator, actor>>

-----------------------------------------------------------------------------

\* The wrapper of task n is the actor n.
Actors == Names \cup Getters

States == {"none", "running", "succeeded", "failed"}

(***************************************************************************)
(* A wrapper is "unborn" until its task is created, "function" while the   *)
(* function runs and "done" when it has ended; a getter is "idle" between  *)
(* calls.  An actor at "succeeded" or "failed" is about to call            *)
(* _update_background_task with that state; "finish", "delete" and "store" *)
(* are the steps of _finish_active_task.                                   *)
(***************************************************************************)
ActorStates ==
    [pc : {"unborn", "function", "done", "idle", "succeeded", "failed",
           "finish", "delete", "store"},
     task : Names \cup {NoName}]

CreatorStates == [pc : {"idle", "register", "activate"}, name : Names \cup {NoName}]

NotCreating == [pc |-> "idle", name |-> NoName]

NotGetting == [pc |-> "idle", task |-> NoName]

Goto(a, location) == actor' = [actor EXCEPT ![a].pc = location]

\* The call of an actor returns or raises.
Return(a) ==
    actor' = [actor EXCEPT ![a] =
                IF a \in Names THEN [pc |-> "done", task |-> a] ELSE NotGetting]

Init ==
    /\ tasks = {} /\ state = [n \in Names |-> "none"]
    /\ active = NoName /\ previous = NoName
    /\ creator = [c \in Creators |-> NotCreating]
    /\ actor = [a \in Actors |->
                  IF a \in Names THEN [pc |-> "unborn", task |-> a] ELSE NotGetting]

-----------------------------------------------------------------------------
\* create_background_task

\* A conflict, and nothing changes, when the kind has an active task.
CheckActive(c, n) ==
    /\ creator[c] = NotCreating
    /\ state[n] = "none" /\ \A d \in Creators : creator[d].name # n
    /\ n \notin tasks /\ active = NoName
    /\ creator' = [creator EXCEPT ![c] = [pc |-> "register", name |-> n]]
    /\ UNCHANGED <<tasks, state, locks, actor>>

\* Mutant of RegisterTask: the task is registered before it has a state.
RegisterTaskStateless(c) ==
    /\ creator[c].pc = "register"
    /\ tasks' = tasks \cup {creator[c].name}
    /\ creator' = [creator EXCEPT ![c].pc = "activate"]
    /\ UNCHANGED <<state, locks, actor>>

RegisterTask(c) ==
    /\ creator[c].pc = "register"
    /\ tasks' = tasks \cup {creator[c].name}
    /\ state' = [state EXCEPT ![creator[c].name] = "running"]
    /\ creator' = [creator EXCEPT ![c].pc = "activate"]
    /\ UNCHANGED <<locks, actor>>

\* _set_active_task_name_by_kind; the caller then schedules the wrapper.
SetActive(c) ==
    /\ creator[c].pc = "activate"
    /\ active' = creator[c].name
    /\ Goto(creator[c].name, "function")
    /\ creator' = [creator EXCEPT ![c] = NotCreating]
    /\ UNCHANGED <<tasks, state, previous>>

-----------------------------------------------------------------------------

\* The function of a task returns or raises.
FunctionEnds(n, how) ==
    /\ actor[n].pc = "function"
    /\ Goto(n, how)
    /\ UNCHANGED <<tasks, state, locks, creator>>

(***************************************************************************)
(* get_background_task of a task past its time-out.  Looking up a task     *)
(* that is unknown, ended or in time changes nothing.  The lookups by kind *)
(* and the list come down to this one.                                     *)
(***************************************************************************)
GetOverdue(g, n) ==
    /\ actor[g].pc = "idle"
    /\ n \in tasks /\ state[n] = "running"
    /\ actor' = [actor EXCEPT ![g] = [pc |-> "failed", task |-> n]]
    /\ UNCHANGED <<tasks, state, locks, creator>>

\* Mutant of UpdateTask: a failed function leaves the wrapper at once.
UpdateTaskNoFinally(a) ==
    LET n == actor[a].task
        new == actor[a].pc
    IN  /\ new \in {"succeeded", "failed"}
        /\ IF n \in tasks
           THEN /\ state' = [state EXCEPT ![n] = new]
                /\ IF new = "failed" THEN Return(a) ELSE Goto(a, "finish")
           ELSE Return(a) /\ UNCHANGED state
        /\ UNCHANGED <<tasks, locks, creator>>

(***************************************************************************)
(* _update_background_task raises a KeyError when the task has been        *)
(* deleted, and so does the _finish_active_task of the finally clause.     *)
(***************************************************************************)
UpdateTask(a) ==
    LET n == actor[a].task
        new == actor[a].pc
    IN  /\ new \in {"succeeded", "failed"}
        /\ IF n \in tasks
           THEN state' = [state EXCEPT ![n] = new] /\ Goto(a, "finish")
           ELSE Return(a) /\ UNCHANGED state
        /\ UNCHANGED <<tasks, locks, creator>>

-----------------------------------------------------------------------------
\* _finish_active_task

\* A task that is not the active one has been finished before.
FinishCheck(a) ==
    /\ actor[a].pc = "finish"
    /\ IF actor[a].task \in tasks /\ active = actor[a].task
       THEN Goto(a, "delete") ELSE Return(a)
    /\ UNCHANGED <<tasks, state, locks, creator>>

\* Mutant of FinishDelete: the wrong entry of the pair is deleted.
FinishDeleteActive(a) ==
    /\ actor[a].pc = "delete"
    /\ tasks' = tasks \ {active}
    /\ Goto(a, "store")
    /\ UNCHANGED <<state, locks, creator>>

\* The previous task is deleted, a KeyError when someone else has done so.
FinishDelete(a) ==
    /\ actor[a].pc = "delete"
    /\ tasks' = tasks \ {previous}
    /\ IF previous = NoName \/ previous \in tasks THEN Goto(a, "store") ELSE Return(a)
    /\ UNCHANGED <<state, locks, creator>>

\* The active task, whichever it is by now, becomes the previous one.
FinishStore(a) ==
    /\ actor[a].pc = "store"
    /\ previous' = active
    /\ active' = NoName
    /\ Return(a)
    /\ UNCHANGED <<tasks, state, creator>>

-----------------------------------------------------------------------------

CreatorStep(c) == RegisterTask(c) \/ SetActive(c)

ActorStep(a) == UpdateTask(a) \/ FinishCheck(a) \/ FinishDelete(a) \/ FinishStore(a)

Next ==
    \/ \E c \in Creators : (\E n \in Names : CheckActive(c, n)) \/ CreatorStep(c)
    \/ \E n \in Names, how \in {"succeeded", "failed"} : FunctionEnds(n, how)
    \/ \E g \in Getters, n \in Names : GetOverdue(g, n)
    \/ \E a \in Actors : ActorStep(a)

Spec == Init /\ [][Next]_vars

\* Threads and wrappers go on; nothing obliges a function to end.
FairSpec ==
    /\ Spec
    /\ \A c \in Creators : WF_vars(CreatorStep(c))
    /\ \A a \in Actors : WF_vars(ActorStep(a))

-----------------------------------------------------------------------------

TypeOK ==
    /\ tasks \subseteq Names /\ state \in [Names -> States]
    /\ \A n \in tasks : state[n] # "none"
    /\ active \in Names \cup {NoName} /\ previous \in Names \cup {NoName}
    /\ creator \in [Creators -> CreatorStates]
    /\ \A c \in Creators : creator[c].pc = "idle" <=> creator[c].name = NoName
    /\ actor \in [Actors -> ActorStates]
    /\ \A n \in Names : actor[n].task = n

(***************************************************************************)
(* The active task of the kind is always registered: whatever creators,    *)
(* getters and wrappers delete, get_active_background_task_by_kind never   *)
(* answers for an active task that it does not exist.                      *)
(***************************************************************************)
ActiveIsRegistered == active # NoName => active \in tasks

(***************************************************************************)
(* A task whose wrapper has ended does not block its kind: it is not the   *)
(* active one, unless another actor is just about to clear the entry.      *)
(* This covers wrappers that end in a KeyError.                            *)
(***************************************************************************)
EndedReleasesKind ==
    \A n \in Names :
        actor[n].pc = "done" => active # n \/ \E a \in Actors : actor[a].pc = "store"

(***************************************************************************)
(* Once the function of the active task has ended, however it did, the     *)
(* kind is free again or has another active task.                          *)
(***************************************************************************)
KindIsFreed ==
    \A n \in Names : (actor[n].pc \in {"succeeded", "failed"}) ~> (active # n)

=============================================================================
