----------------------------- MODULE StateStore -----------------------------
(***************************************************************************)
(* A state store of the log collector                                      *)
(* (server/go/services/logcollector/statestore: abstract, file and         *)
(* inmemory clients) at the grain of its sync.Map operations.  The store   *)
(* maps a project to a map of its log items.  Each sync.Map operation is   *)
(* atomic; AddLogItem, RemoveLogItem and UpdateLastLogTime are sequences   *)
(* of them with no lock around.  The projects are keys that do not touch   *)
(* each other, so one project is modelled.                                 *)
(*                                                                         *)
(* The maps have an identity, as a client keeps a pointer to the map it    *)
(* loaded while another one replaces it in the store.  Of an item only its *)
(* presence is kept.                                                       *)
(***************************************************************************)
EXTENDS Naturals, FiniteSets

CONSTANTS
    Clients,    \* goroutines that call the store
    Runs,       \* run UIDs the clients work on
    Keepers,    \* run UIDs that are in the store and that no client touches
    Maps,       \* identities of the project maps
    NoMap,      \* the store has no entry for the project
    NoRun       \* the run of an idle client

ASSUME StoreAssumption ==
    /\ Keepers \cap Runs = {} /\ NoMap \notin Maps /\ NoRun \notin Runs
    /\ IsFiniteSet(Clients) /\ IsFiniteSet(Maps)
    /\ Cardinality(Maps) > Cardinality(Clients) + 1

VARIABLES
    inProgress, \* State.InProgress[project]: a map, or none
    items,      \* the run UIDs in each map
    client,     \* what each client is doing
    added,      \* history: runs added, and not being removed since or meanwhile
    removed,    \* history: runs removed, and not being stored since or meanwhile
    kept        \* history: Keepers, until the project is removed

vars == <<inProgress, items, client, added, removed, kept>>

-----------------------------------------------------------------------------

(***************************************************************************)
(* undisturbed is history: no operation to the contrary on the same run    *)
(* overlaps with the call and, once nothing keeps the project's map in the *)
(* store, no operation at all.                                             *)
(***************************************************************************)
Idle == [op |-> "none", run |-> NoRun, pc |-> "idle", map |-> NoMap,
         undisturbed |-> TRUE]

ClientStates ==
    [op : {"none", "add", "remove", "update"}, run : Runs \cup {NoRun},
     pc : {"idle", "load", "find", "store", "delete", "publish", "length", "drop"},
     map : Maps \cup {NoMap}, undisturbed : BOOLEAN]

\* What GetItemsInProgress shows for the project.
Visible == IF inProgress = NoMap THEN {} ELSE items[inProgress]

\* Maps nobody points to, which the allocator may hand out.
FreeMaps ==
    Maps \ ({inProgress} \cup {client[c].map : c \in Clients})

Storing(r) == {c \in Clients : client[c].op \in {"add", "update"} /\ client[c].run = r}
Removing(r) == {c \in Clients : client[c].op = "remove" /\ client[c].run = r}

Busy == {c \in Clients : client[c] # Idle}

\* The clients that a call of op on run r may disturb, and that may disturb it.
Contrary(op, r) ==
    IF kept = {} THEN Busy
    ELSE IF op = "remove" THEN Storing(r) ELSE Removing(r)

Disturb(D) == [d \in Clients |->
                 IF d \in D THEN [client[d] EXCEPT !.undisturbed = FALSE]
                 ELSE client[d]]

Goto(c, pc) == client' = [client EXCEPT ![c].pc = pc]
Return(c) == client' = [client EXCEPT ![c] = Idle]

Init ==
    /\ \E m \in Maps :
          /\ items = [n \in Maps |-> IF n = m THEN Keepers ELSE {}]
          /\ inProgress = IF Keepers = {} THEN NoMap ELSE m
    /\ client = [c \in Clients |-> Idle]
    /\ added = {} /\ removed = {} /\ kept = Keepers

-----------------------------------------------------------------------------

\* A call of AddLogItem, RemoveLogItem or UpdateLastLogTime begins.
Call(c, op, r) ==
    /\ client[c] = Idle
    /\ client' = [Disturb(Contrary(op, r)) EXCEPT ![c] =
                    [op |-> op, run |-> r, pc |-> "load", map |-> NoMap,
                     undisturbed |-> Contrary(op, r) = {}]]
    /\ added' = IF op = "remove" THEN added \ {r} ELSE added
    /\ removed' = IF op = "remove" THEN removed ELSE removed \ {r}
    /\ UNCHANGED <<inProgress, items, kept>>

\* Mutant of LoadProject: a missing project is not told from an empty one.
LoadProjectUnchecked(c) ==
    /\ client[c].pc = "load"
    /\ client' = [client EXCEPT ![c].map = inProgress,
                    ![c].pc = IF client[c].op = "remove" THEN "delete" ELSE "store"]
    /\ UNCHANGED <<inProgress, items, added, removed, kept>>

\* s.State.InProgress.Load(project), then a new map in AddLogItem, nothing to
\* do in RemoveLogItem, an error in UpdateLastLogTime if there is none.
LoadProject(c) ==
    /\ client[c].pc = "load"
    /\ LET found == CASE client[c].op = "add" -> "store"
                      [] client[c].op = "remove" -> "delete"
                      [] client[c].op = "update" -> "find"
       IN  \/ /\ inProgress # NoMap
              /\ client' = [client EXCEPT ![c].pc = found, ![c].map = inProgress]
              /\ UNCHANGED items
           \/ /\ inProgress = NoMap /\ client[c].op = "add"
              /\ \E m \in FreeMaps :
                    /\ client' = [client EXCEPT ![c].pc = found, ![c].map = m]
                    /\ items' = [items EXCEPT ![m] = {}]
           \/ /\ inProgress = NoMap /\ client[c].op # "add"
              /\ Return(c)
              /\ UNCHANGED items
    /\ removed' = IF inProgress = NoMap /\ client[c].op = "remove"
                     /\ client[c].undisturbed
                  THEN removed \cup {client[c].run} ELSE removed
    /\ UNCHANGED <<inProgress, added, kept>>

\* UpdateLastLogTime: projectSyncMap.Load(runUID), an error if it is not there.
FindItem(c) ==
    /\ client[c].pc = "find"
    /\ IF client[c].run \in items[client[c].map] THEN Goto(c, "store") ELSE Return(c)
    /\ UNCHANGED <<inProgress, items, added, removed, kept>>

\* projectSyncMap.Store(runUID, logItem)
StoreItem(c) ==
    /\ client[c].pc = "store"
    /\ items' = [items EXCEPT ![client[c].map] = @ \cup {client[c].run}]
    /\ Goto(c, "publish")
    /\ UNCHANGED <<inProgress, added, removed, kept>>

\* Mutants of DeleteItem: the other items are deleted, and nothing is.
DeleteItemAll(c) ==
    /\ client[c].pc = "delete"
    /\ items' = [items EXCEPT ![client[c].map] = @ \cap {client[c].run}]
    /\ Goto(c, "publish")
    /\ UNCHANGED <<inProgress, added, removed, kept>>

DeleteItemNothing(c) ==
    /\ client[c].pc = "delete"
    /\ Goto(c, "publish")
    /\ UNCHANGED <<inProgress, items, added, removed, kept>>

\* projectSyncMap.Delete(runUID)
DeleteItem(c) ==
    /\ client[c].pc = "delete"
    /\ items' = [items EXCEPT ![client[c].map] = @ \ {client[c].run}]
    /\ Goto(c, "publish")
    /\ UNCHANGED <<inProgress, added, removed, kept>>

\* s.State.InProgress.Store(project, projectSyncMap), where AddLogItem and
\* UpdateLastLogTime end.
PublishMap(c) ==
    /\ client[c].pc = "publish"
    /\ inProgress' = client[c].map
    /\ IF client[c].op = "remove" THEN Goto(c, "length") ELSE Return(c)
    /\ added' = IF client[c].op = "add" /\ client[c].undisturbed
                THEN added \cup {client[c].run} ELSE added
    /\ UNCHANGED <<items, removed, kept>>

\* Mutant of CheckEmpty: the project is dropped with one item left.
CheckEmptyTooEarly(c) ==
    /\ client[c].pc = "length"
    /\ IF Cardinality(items[client[c].map]) <= 1 THEN Goto(c, "drop") ELSE Return(c)
    /\ removed' = IF client'[c] = Idle /\ client[c].undisturbed
                  THEN removed \cup {client[c].run} ELSE removed
    /\ UNCHANGED <<inProgress, items, added, kept>>

\* common.SyncMapLength(projectSyncMap) == 0
CheckEmpty(c) ==
    /\ client[c].pc = "length"
    /\ IF items[client[c].map] = {} THEN Goto(c, "drop") ELSE Return(c)
    /\ removed' = IF client'[c] = Idle /\ client[c].undisturbed
                  THEN removed \cup {client[c].run} ELSE removed
    /\ UNCHANGED <<inProgress, items, added, kept>>

\* s.State.InProgress.Delete(project)
DropProject(c) ==
    /\ client[c].pc = "drop"
    /\ inProgress' = NoMap
    /\ Return(c)
    /\ removed' = IF client[c].undisturbed
                  THEN removed \cup {client[c].run} ELSE removed
    /\ UNCHANGED <<items, added, kept>>

\* s.State.InProgress.Delete(project), in one step
RemoveProject(c) ==
    /\ client[c] = Idle
    /\ inProgress' = NoMap
    /\ added' = {}
    /\ removed' = IF Busy = {} THEN Runs ELSE removed
    /\ kept' = {}
    /\ client' = Disturb(Busy)
    /\ UNCHANGED items

Step(c) ==
    \/ LoadProject(c)
    \/ FindItem(c)
    \/ StoreItem(c)
    \/ DeleteItem(c)
    \/ PublishMap(c)
    \/ CheckEmpty(c)
    \/ DropProject(c)

Next ==
    \E c \in Clients :
        \/ \E op \in {"add", "remove", "update"}, r \in Runs : Call(c, op, r)
        \/ Step(c)
        \/ RemoveProject(c)

Spec == Init /\ [][Next]_vars

-----------------------------------------------------------------------------

TypeOK ==
    /\ inProgress \in Maps \cup {NoMap}
    /\ items \in [Maps -> SUBSET (Runs \cup Keepers)]
    /\ client \in [Clients -> ClientStates]
    /\ \A c \in Clients :
          client[c].map = NoMap <=> client[c].pc \in {"idle", "load"}
    /\ added \subseteq Runs /\ removed \subseteq Runs /\ kept \subseteq Keepers

(***************************************************************************)
(* "AddLogItem adds a log item to the state store": once the call returns  *)
(* the item is there, until someone removes it.  Additions that overlap    *)
(* are safe only while the project keeps an item throughout: when its map  *)
(* is created or dropped meanwhile, an addition to the other map is lost.  *)
(***************************************************************************)
AddedStay == added \subseteq Visible

(***************************************************************************)
(* A removed item is gone until someone stores it, whatever clients do     *)
(* with other items.  "RemoveProject removes all log items for a project"  *)
(* while no client is in a call; one that loaded the map before publishes  *)
(* it again, with all of its items.                                        *)
(***************************************************************************)
RemovedGone == removed \cap Visible = {}

(***************************************************************************)
(* Items of runs that no client works on are not affected by the clients,  *)
(* until the project is removed.                                           *)
(***************************************************************************)
KeepersUntouched == kept \subseteq Visible

=============================================================================
