-------------------------- MODULE StateStoreProofs --------------------------
(***************************************************************************)
(* Proofs about StateStore, for any clients, runs, keepers and maps: the   *)
(* type invariant, that an added item stays, that a removed one is gone    *)
(* and that items nobody works on are not affected.                        *)
(***************************************************************************)
EXTENDS StateStore, TLAPS

USE StoreAssumption

-----------------------------------------------------------------------------
(***************************************************************************)
(* The inductive invariant.                                                *)
(***************************************************************************)

\* Which calls reach which step, and that a client in a call works on a run.
Shape ==
    \A c \in Clients :
        \/ client[c] = Idle
        \/ /\ client[c].pc # "idle" /\ client[c].op # "none"
           /\ client[c].run \in Runs
           /\ client[c].pc = "find" => client[c].op = "update"
           /\ client[c].pc = "store" => client[c].op # "remove"
           /\ client[c].pc \in {"delete", "length", "drop"} => client[c].op = "remove"

\* While an item is known to be in the store, all clients share its map and
\* none is about to drop the project.
Solid ==
    added # {} \/ kept # {} =>
        /\ inProgress # NoMap
        /\ added \cup kept \subseteq items[inProgress]
        /\ \A c \in Clients :
              client[c].map \in {NoMap, inProgress} /\ client[c].pc # "drop"

\* Two calls work on the same run to opposite ends.
Opposed(x, y) == x.run = y.run /\ (x.op = "remove" <=> y.op # "remove")

\* What the history variable undisturbed says of the other clients.
Alone ==
    \A c, d \in Clients :
        c # d /\ client[c].undisturbed /\ client[c] # Idle /\ client[d] # Idle
            => kept # {} /\ ~Opposed(client[c], client[d])

\* No client removes what was added, none stores what was removed.
Settled ==
    \A c \in Clients :
        /\ client[c].run \in added => client[c].op # "remove"
        /\ client[c].run \in removed => client[c].op = "remove"

\* A removed run is in no map that is in the store or that a client holds.
Gone ==
    \A m \in Maps :
        m = inProgress \/ (\E c \in Clients : client[c].map = m)
            => removed \cap items[m] = {}

\* What an undisturbed call has achieved so far.
Underway ==
    \A c \in Clients :
        client[c].undisturbed =>
            /\ client[c].pc = "publish" =>
                  (client[c].run \in items[client[c].map] <=> client[c].op # "remove")
            /\ client[c].pc \in {"length", "drop"} =>
                  /\ client[c].run \notin items[client[c].map]
                  /\ inProgress = client[c].map

StoreInv == Shape /\ Solid /\ Alone /\ Settled /\ Gone /\ Underway

-----------------------------------------------------------------------------
(***************************************************************************)
(* What the actions do to the clients.                                     *)
(***************************************************************************)

LEMMA IdleFields ==
    /\ Idle \in ClientStates /\ Idle.op = "none" /\ Idle.run = NoRun
    /\ Idle.pc = "idle" /\ Idle.map = NoMap
BY DEF Idle, ClientStates

\* One client moves on within its call, with map m.
Moves(c, to, m) ==
    /\ client' \in [Clients -> ClientStates]
    /\ \A d \in Clients : d # c => client'[d] = client[d]
    /\ client'[c].op = client[c].op /\ client'[c].run = client[c].run
    /\ client'[c].undisturbed = client[c].undisturbed
    /\ client'[c].pc = to /\ client'[c].map = m
    /\ client'[c] # Idle

\* One client returns from its call.
Returns(c) ==
    /\ client' \in [Clients -> ClientStates]
    /\ \A d \in Clients : d # c => client'[d] = client[d]
    /\ client'[c] = Idle

LEMMA GotoMoves ==
    ASSUME TypeOK, NEW c \in Clients, NEW to \in {"store", "publish", "length", "drop"},
           Goto(c, to)
    PROVE  Moves(c, to, client[c].map)
<1>1. client[c] \in ClientStates BY DEF TypeOK
<1>2. \A d \in Clients : d # c => client'[d] = client[d] BY DEF TypeOK, Goto
<1>3. client'[c] = [client[c] EXCEPT !.pc = to] BY DEF TypeOK, Goto
<1>4. /\ client'[c] \in ClientStates /\ client'[c] # Idle
      /\ client'[c].op = client[c].op /\ client'[c].run = client[c].run
      /\ client'[c].undisturbed = client[c].undisturbed
      /\ client'[c].pc = to /\ client'[c].map = client[c].map
  BY <1>1, <1>3 DEF ClientStates, Idle
<1>5. client' \in [Clients -> ClientStates] BY <1>4 DEF TypeOK, Goto
<1> QED BY <1>2, <1>4, <1>5 DEF Moves

LEMMA ReturnReturns ==
    ASSUME TypeOK, NEW c \in Clients, Return(c)
    PROVE  Returns(c)
BY IdleFields DEF TypeOK, Return, Returns

\* A client that loads gets a map, the project's or a new one, or returns.
LEMMA LoadMoves ==
    ASSUME TypeOK, Shape, NEW c \in Clients, LoadProject(c)
    PROVE  \/ \E m \in Maps, to \in {"store", "delete", "find"} :
                 /\ Moves(c, to, m)
                 /\ to = "find" <=> client[c].op = "update"
                 /\ to = "delete" <=> client[c].op = "remove"
                 /\ \/ m = inProgress /\ items' = items
                    \/ /\ inProgress = NoMap /\ client[c].op = "add"
                       /\ m \in FreeMaps /\ items' = [items EXCEPT ![m] = {}]
           \/ /\ inProgress = NoMap /\ client[c].op # "add"
              /\ Returns(c) /\ items' = items
<1> DEFINE to == CASE client[c].op = "add" -> "store"
                   [] client[c].op = "remove" -> "delete"
                   [] client[c].op = "update" -> "find"
<1>1. client[c] \in ClientStates /\ client[c].pc = "load" /\ client[c].op # "none"
  BY IdleFields DEF TypeOK, Shape, LoadProject
<1>2. client[c].op \in {"add", "remove", "update"}
  BY <1>1 DEF ClientStates
<1>3. /\ to \in {"store", "delete", "find"}
      /\ to = "find" <=> client[c].op = "update"
      /\ to = "delete" <=> client[c].op = "remove"
  BY <1>2
<1> HIDE DEF to
<1>4. ASSUME NEW m \in Maps, client' = [client EXCEPT ![c].pc = to, ![c].map = m]
      PROVE  Moves(c, to, m)
  <2>1. \A d \in Clients : d # c => client'[d] = client[d] BY <1>4 DEF TypeOK
  <2>2. client'[c] = [client[c] EXCEPT !.pc = to, !.map = m] BY <1>4 DEF TypeOK
  <2>3. /\ client'[c] \in ClientStates /\ client'[c] # Idle
        /\ client'[c].op = client[c].op /\ client'[c].run = client[c].run
        /\ client'[c].undisturbed = client[c].undisturbed
        /\ client'[c].pc = to /\ client'[c].map = m
    <3>1. client'[c] = [op |-> client[c].op, run |-> client[c].run, pc |-> to, map |-> m,
                        undisturbed |-> client[c].undisturbed]
      BY <1>1, <2>2 DEF ClientStates
    <3> QED BY <1>1, <1>3, <3>1 DEF ClientStates, Idle
  <2>4. client' \in [Clients -> ClientStates] BY <1>4, <2>3 DEF TypeOK
  <2> QED BY <2>1, <2>3, <2>4 DEF Moves
<1>5. CASE inProgress # NoMap
  <2>1. client' = [client EXCEPT ![c].pc = to, ![c].map = inProgress] /\ items' = items
    BY <1>5 DEF LoadProject, to
  <2> QED BY <1>3, <1>4, <1>5, <2>1 DEF TypeOK
<1>6. CASE inProgress = NoMap /\ client[c].op = "add"
  <2>1. PICK m \in FreeMaps : /\ client' = [client EXCEPT ![c].pc = to, ![c].map = m]
                              /\ items' = [items EXCEPT ![m] = {}]
    BY <1>6 DEF LoadProject, to
  <2>2. m \in Maps BY DEF FreeMaps
  <2> QED BY <1>3, <1>4, <1>6, <2>1, <2>2
<1>7. CASE inProgress = NoMap /\ client[c].op # "add"
  BY <1>7, ReturnReturns DEF LoadProject
<1> QED BY <1>5, <1>6, <1>7

\* Disturbing clients changes nothing but their mark.
LEMMA DisturbMarks ==
    ASSUME TypeOK, NEW D
    PROVE  /\ Disturb(D) \in [Clients -> ClientStates]
           /\ \A d \in Clients :
                 /\ d \notin D => Disturb(D)[d] = client[d]
                 /\ Disturb(D)[d].op = client[d].op
                 /\ Disturb(D)[d].run = client[d].run
                 /\ Disturb(D)[d].pc = client[d].pc
                 /\ Disturb(D)[d].map = client[d].map
                 /\ d \in D => ~Disturb(D)[d].undisturbed
<1> SUFFICES ASSUME NEW d \in Clients
    PROVE  /\ Disturb(D)[d] \in ClientStates
           /\ d \notin D => Disturb(D)[d] = client[d]
           /\ Disturb(D)[d].op = client[d].op
           /\ Disturb(D)[d].run = client[d].run
           /\ Disturb(D)[d].pc = client[d].pc
           /\ Disturb(D)[d].map = client[d].map
           /\ d \in D => ~Disturb(D)[d].undisturbed
  BY DEF Disturb
<1>1. client[d] \in ClientStates BY DEF TypeOK
<1> QED BY <1>1 DEF Disturb, ClientStates

-----------------------------------------------------------------------------
(***************************************************************************)
(* The initial states, and the parts of the invariant that all steps       *)
(* preserve for the same reason.                                           *)
(***************************************************************************)

LEMMA StoreInit == Init => TypeOK /\ StoreInv
<1> SUFFICES ASSUME Init PROVE TypeOK /\ StoreInv OBVIOUS
<1>1. \A c \in Clients : client[c] = Idle BY DEF Init
<1>2. TypeOK BY <1>1, IdleFields DEF Init, TypeOK
<1>3. Shape /\ Alone BY <1>1 DEF Shape, Alone
<1>4. Solid BY <1>1, IdleFields DEF Init, Solid
<1>5. Settled /\ Gone /\ Underway
  BY <1>1, IdleFields DEF Init, Settled, Gone, Underway
<1> QED BY <1>2, <1>3, <1>4, <1>5 DEF StoreInv

\* The map of a client that has one.
LEMMA HoldsMap ==
    ASSUME TypeOK, NEW c \in Clients, client[c].pc \notin {"idle", "load"}
    PROVE  client[c].map \in Maps /\ client[c] # Idle
<1>1. client[c] \in ClientStates BY DEF TypeOK
<1> QED BY <1>1, IdleFields DEF TypeOK, ClientStates

LEMMA StepMoves ==
    ASSUME TypeOK, Shape, NEW c \in Clients, Step(c)
    PROVE  /\ client[c] # Idle /\ client[c].op # "none" /\ client[c].run \in Runs
           /\ kept' = kept
           /\ Returns(c) \/ \E to, m : Moves(c, to, m)
<1>1. client[c].pc # "idle"
  BY DEF Step, LoadProject, FindItem, StoreItem, DeleteItem, PublishMap,
         CheckEmpty, DropProject
<1>2. client[c] # Idle /\ client[c].op # "none" /\ client[c].run \in Runs
  BY <1>1, IdleFields DEF Shape
<1>3. kept' = kept
  BY DEF Step, LoadProject, FindItem, StoreItem, DeleteItem, PublishMap,
         CheckEmpty, DropProject
<1>4. CASE LoadProject(c) BY <1>2, <1>3, <1>4, LoadMoves
<1>5. CASE ~LoadProject(c)
  <2>1. Return(c) \/ \E to \in {"store", "publish", "length", "drop"} : Goto(c, to)
    BY <1>5 DEF Step, FindItem, StoreItem, DeleteItem, PublishMap, CheckEmpty, DropProject
  <2> QED BY <1>2, <1>3, <2>1, GotoMoves, ReturnReturns
<1> QED BY <1>4, <1>5

LEMMA AloneStep ==
    ASSUME TypeOK, StoreInv, NEW c \in Clients, Step(c)
    PROVE  Alone'
<1>1. /\ client[c] # Idle /\ kept' = kept
      /\ Returns(c) \/ \E to, m : Moves(c, to, m)
  BY StepMoves DEF StoreInv
<1>2. \A d \in Clients :
         \/ client'[d] = Idle
         \/ /\ client[d] # Idle /\ client'[d].op = client[d].op
            /\ client'[d].run = client[d].run
            /\ client'[d].undisturbed = client[d].undisturbed
  BY <1>1 DEF Moves, Returns
<1> QED BY <1>1, <1>2 DEF StoreInv, Alone, Opposed

\* A client that is alone, or whose map is the project's, sees what is in the
\* store: no other client has another map.
LEMMA SharedMap ==
    ASSUME TypeOK, StoreInv, NEW c \in Clients, NEW d \in Clients, c # d,
           client[c].undisturbed, client[c] # Idle
    PROVE  /\ client[d].map \in {NoMap, inProgress}
           /\ client[d].map # NoMap => kept # {}
           /\ ~(client[d] # Idle /\ Opposed(client[c], client[d]))
<1>1. CASE client[d] = Idle BY <1>1, IdleFields
<1>2. CASE client[d] # Idle
  <2>1. kept # {} /\ ~Opposed(client[c], client[d]) BY <1>2 DEF StoreInv, Alone
  <2> QED BY <2>1 DEF StoreInv, Solid
<1> QED BY <1>1, <1>2

-----------------------------------------------------------------------------
(***************************************************************************)
(* The steps of a call.                                                    *)
(***************************************************************************)

LEMMA LoadPreserves ==
    ASSUME TypeOK, StoreInv, NEW c \in Clients, LoadProject(c)
    PROVE  TypeOK' /\ StoreInv'
<1>1. /\ client[c].pc = "load" /\ client[c].map = NoMap
      /\ client[c] # Idle /\ client[c].run \in Runs /\ client[c].op # "none"
  BY IdleFields DEF TypeOK, LoadProject, StoreInv, Shape
<1>2. UNCHANGED <<inProgress, added, kept>> BY DEF LoadProject
<1>3. Alone' BY AloneStep DEF Step
<1>4. ASSUME Returns(c), items' = items, inProgress = NoMap
      PROVE  TypeOK' /\ StoreInv'
  <2>1. added = {} /\ kept = {} BY <1>4 DEF StoreInv, Solid
  <2>2. removed' = removed \/ (removed' = removed \cup {client[c].run}
                               /\ client[c].op = "remove" /\ client[c].undisturbed)
    BY DEF LoadProject
  <2>3. TypeOK' BY <1>1, <1>2, <1>4, <2>2, IdleFields DEF TypeOK, Returns
  <2>4. Shape' BY <1>4 DEF StoreInv, Shape, Returns
  <2>5. Solid' BY <1>2, <2>1 DEF Solid
  <2>6. Settled'
    <3> SUFFICES ASSUME NEW d \in Clients, client'[d].run \in removed'
        PROVE  client'[d].op = "remove"
      BY <1>2, <2>1 DEF Settled
    <3>1. CASE d = c
      BY <1>1, <1>4, <2>2, <2>3, <3>1, IdleFields DEF Returns, TypeOK
    <3>2. CASE d # c
      <4>1. client'[d] = client[d] BY <1>4, <3>2 DEF Returns
      <4>2. CASE client[d].run \in removed BY <4>1, <4>2 DEF StoreInv, Settled
      <4>3. CASE client[d].run \notin removed
        <5>1. client[c].undisturbed /\ client[d].run = client[c].run /\ client[c].op = "remove"
          BY <2>2, <4>1, <4>3
        <5>2. client[d] # Idle BY <5>1, <1>1, IdleFields
        <5> QED BY <1>1, <3>2, <4>1, <5>1, <5>2, SharedMap DEF Opposed
      <4> QED BY <4>2, <4>3
    <3> QED BY <3>1, <3>2
  <2>7. Gone'
    <3> SUFFICES ASSUME NEW m \in Maps, m = inProgress' \/ \E d \in Clients : client'[d].map = m
        PROVE  removed' \cap items[m] = {}
      BY <1>4 DEF Gone
    <3>1. PICK d \in Clients : client'[d].map = m /\ d # c
      BY <1>2, <1>4, IdleFields DEF Returns
    <3>2. client[d].map = m BY <1>4, <3>1 DEF Returns
    <3>3. removed' = removed BY <1>1, <1>4, <2>1, <2>2, <3>1, <3>2, SharedMap
    <3> QED BY <3>2, <3>3 DEF StoreInv, Gone
  <2>8. Underway' BY <1>2, <1>4, IdleFields DEF StoreInv, Underway, Returns
  <2> QED BY <1>3, <2>3, <2>4, <2>5, <2>6, <2>7, <2>8 DEF StoreInv
<1>5. ASSUME NEW m \in Maps, NEW to \in {"store", "delete", "find"}, Moves(c, to, m),
             to = "find" <=> client[c].op = "update",
             to = "delete" <=> client[c].op = "remove",
             \/ m = inProgress /\ items' = items
             \/ /\ inProgress = NoMap /\ client[c].op = "add"
                /\ m \in FreeMaps /\ items' = [items EXCEPT ![m] = {}]
      PROVE  TypeOK' /\ StoreInv'
  <2>1. removed' = removed BY <1>5 DEF LoadProject
  <2>2. TypeOK' BY <1>2, <1>5, <2>1 DEF TypeOK, Moves
  <2>3. Shape' BY <1>1, <1>5 DEF StoreInv, Shape, Moves
  <2>4. Solid' BY <1>2, <1>5 DEF StoreInv, Solid, Moves
  <2>5. Settled' BY <1>2, <1>5, <2>1 DEF StoreInv, Settled, Moves
  <2>6. \A n \in Maps : items'[n] = items[n] \/ (n = m /\ items'[n] = {}) BY <1>5 DEF TypeOK
  <2>7. Gone'
    <3> SUFFICES ASSUME NEW n \in Maps, n = inProgress' \/ \E d \in Clients : client'[d].map = n
        PROVE  removed \cap items'[n] = {}
      BY <2>1 DEF Gone
    <3>1. CASE n = inProgress \/ \E d \in Clients : client[d].map = n
      BY <2>6, <3>1 DEF StoreInv, Gone
    <3>2. CASE ~(n = inProgress \/ \E d \in Clients : client[d].map = n)
      <4>1. n = m /\ m # inProgress BY <1>2, <1>5, <3>2 DEF Moves
      <4> QED BY <1>5, <4>1 DEF TypeOK
    <3> QED BY <3>1, <3>2
  <2>8. Underway'
    <3> SUFFICES ASSUME NEW d \in Clients, d # c
        PROVE  client[d].undisturbed =>
                /\ client[d].pc = "publish" =>
                      (client[d].run \in items'[client[d].map] <=> client[d].op # "remove")
                /\ client[d].pc \in {"length", "drop"} =>
                      /\ client[d].run \notin items'[client[d].map]
                      /\ inProgress = client[d].map
      BY <1>2, <1>5 DEF Underway, Moves
    <3>1. client[d].pc \in {"publish", "length", "drop"} =>
             client[d].map \in Maps /\ items'[client[d].map] = items[client[d].map]
      BY <1>5, HoldsMap DEF FreeMaps, TypeOK
    <3> QED BY <3>1 DEF StoreInv, Underway
  <2> QED BY <1>3, <2>2, <2>3, <2>4, <2>5, <2>7, <2>8 DEF StoreInv
<1>6. Shape BY DEF StoreInv
<1> QED BY <1>4, <1>5, <1>6, LoadMoves

LEMMA FindPreserves ==
    ASSUME TypeOK, StoreInv, NEW c \in Clients, FindItem(c)
    PROVE  TypeOK' /\ StoreInv'
<1>1. /\ UNCHANGED <<inProgress, items, added, removed, kept>>
      /\ client[c].pc = "find" /\ client[c].map # NoMap
      /\ client[c] # Idle /\ client[c].run \in Runs /\ client[c].op = "update"
  BY IdleFields DEF TypeOK, FindItem, StoreInv, Shape
<1>2. Returns(c) \/ Moves(c, "store", client[c].map)
  BY GotoMoves, ReturnReturns DEF FindItem
<1>3. TypeOK' BY <1>1, <1>2, IdleFields DEF TypeOK, Moves, Returns
<1>4. Shape' BY <1>1, <1>2 DEF StoreInv, Shape, Moves, Returns
<1>5. Solid' BY <1>1, <1>2, IdleFields DEF StoreInv, Solid, Moves, Returns
<1>6. Alone' BY AloneStep DEF Step
<1>7. Settled' BY <1>1, <1>2, <1>3, IdleFields DEF StoreInv, Settled, Moves, Returns, TypeOK
<1>8. Gone' BY <1>1, <1>2, IdleFields DEF StoreInv, Gone, Moves, Returns
<1>9. Underway' BY <1>1, <1>2, IdleFields DEF StoreInv, Underway, Moves, Returns
<1> QED BY <1>3, <1>4, <1>5, <1>6, <1>7, <1>8, <1>9 DEF StoreInv

LEMMA StorePreserves ==
    ASSUME TypeOK, StoreInv, NEW c \in Clients, StoreItem(c)
    PROVE  TypeOK' /\ StoreInv'
<1> DEFINE m == client[c].map
           r == client[c].run
<1>1. /\ UNCHANGED <<inProgress, added, removed, kept>>
      /\ client[c].pc = "store" /\ m \in Maps /\ m # NoMap
      /\ client[c] # Idle /\ r \in Runs /\ client[c].op # "remove"
  BY HoldsMap, IdleFields DEF TypeOK, StoreItem, StoreInv, Shape
<1>2. Moves(c, "publish", m) BY GotoMoves DEF StoreItem
<1>3. /\ items' \in [Maps -> SUBSET (Runs \cup Keepers)]
      /\ \A n \in Maps : items'[n] = IF n = m THEN items[n] \cup {r} ELSE items[n]
  BY <1>1 DEF StoreItem, TypeOK
<1> HIDE DEF m, r
<1>4. TypeOK' BY <1>1, <1>2, <1>3 DEF TypeOK, Moves
<1>5. Shape' BY <1>1, <1>2 DEF StoreInv, Shape, Moves, r
<1>6. Solid' BY <1>1, <1>2, <1>3 DEF StoreInv, Solid, Moves, TypeOK, m
<1>7. Alone' BY AloneStep DEF Step
<1>8. Settled' BY <1>1, <1>2 DEF StoreInv, Settled, Moves
<1>9. Gone'
  <2>1. r \notin removed BY <1>1 DEF StoreInv, Settled, r
  <2> SUFFICES ASSUME NEW n \in Maps, n = inProgress' \/ \E d \in Clients : client'[d].map = n
      PROVE  removed \cap items'[n] = {}
    BY <1>1 DEF Gone
  <2>2. n = inProgress \/ \E d \in Clients : client[d].map = n BY <1>1, <1>2 DEF Moves, m
  <2> QED BY <1>3, <2>1, <2>2 DEF StoreInv, Gone
<1>10. Underway'
  <2> SUFFICES ASSUME NEW d \in Clients, client'[d].undisturbed
      PROVE  /\ client'[d].pc = "publish" =>
                   (client'[d].run \in items'[client'[d].map] <=> client'[d].op # "remove")
             /\ client'[d].pc \in {"length", "drop"} =>
                   /\ client'[d].run \notin items'[client'[d].map]
                   /\ inProgress = client'[d].map
    BY <1>1 DEF Underway
  <2>1. CASE d = c BY <1>1, <1>2, <1>3, <2>1 DEF Moves, r
  <2>2. CASE d # c
    <3>1. client'[d] = client[d] BY <1>2, <2>2 DEF Moves
    <3>2. CASE client[d].pc \in {"publish", "length", "drop"}
      <4>1. client[d].map \in Maps /\ client[d] # Idle BY <3>2, HoldsMap
      <4>2. client[d].op = "remove" => client[d].run # r
        BY <1>1, <2>2, <3>1, <4>1, SharedMap DEF Opposed, r
      <4>3. client[d].pc \in {"length", "drop"} => client[d].op = "remove"
        BY <4>1 DEF StoreInv, Shape
      <4> QED BY <1>3, <3>1, <4>1, <4>2, <4>3 DEF StoreInv, Underway
    <3>3. CASE client[d].pc \notin {"publish", "length", "drop"} BY <3>1, <3>3
    <3> QED BY <3>2, <3>3
  <2> QED BY <2>1, <2>2
<1> QED BY <1>4, <1>5, <1>6, <1>7, <1>8, <1>9, <1>10 DEF StoreInv

LEMMA DeletePreserves ==
    ASSUME TypeOK, StoreInv, NEW c \in Clients, DeleteItem(c)
    PROVE  TypeOK' /\ StoreInv'
<1> DEFINE m == client[c].map
           r == client[c].run
<1>1. /\ UNCHANGED <<inProgress, added, removed, kept>>
      /\ client[c].pc = "delete" /\ m \in Maps /\ m # NoMap
      /\ client[c] # Idle /\ r \in Runs /\ client[c].op = "remove"
  BY HoldsMap, IdleFields DEF TypeOK, DeleteItem, StoreInv, Shape
<1>2. Moves(c, "publish", m) BY GotoMoves DEF DeleteItem
<1>3. /\ items' \in [Maps -> SUBSET (Runs \cup Keepers)]
      /\ \A n \in Maps : items'[n] = IF n = m THEN items[n] \ {r} ELSE items[n]
  BY <1>1 DEF DeleteItem, TypeOK
<1> HIDE DEF m, r
<1>4. TypeOK' BY <1>1, <1>2, <1>3 DEF TypeOK, Moves
<1>5. Shape' BY <1>1, <1>2 DEF StoreInv, Shape, Moves, r
<1>6. Solid'
  <2>1. r \notin added \cup kept BY <1>1 DEF StoreInv, Settled, TypeOK, r
  <2> QED BY <1>1, <1>2, <1>3, <2>1 DEF StoreInv, Solid, Moves, TypeOK, m
<1>7. Alone' BY AloneStep DEF Step
<1>8. Settled' BY <1>1, <1>2 DEF StoreInv, Settled, Moves
<1>9. Gone'
  <2> SUFFICES ASSUME NEW n \in Maps, n = inProgress' \/ \E d \in Clients : client'[d].map = n
      PROVE  removed \cap items'[n] = {}
    BY <1>1 DEF Gone
  <2>2. n = inProgress \/ \E d \in Clients : client[d].map = n BY <1>1, <1>2 DEF Moves, m
  <2> QED BY <1>3, <2>2 DEF StoreInv, Gone
<1>10. Underway'
  <2> SUFFICES ASSUME NEW d \in Clients, client'[d].undisturbed
      PROVE  /\ client'[d].pc = "publish" =>
                   (client'[d].run \in items'[client'[d].map] <=> client'[d].op # "remove")
             /\ client'[d].pc \in {"length", "drop"} =>
                   /\ client'[d].run \notin items'[client'[d].map]
                   /\ inProgress = client'[d].map
    BY <1>1 DEF Underway
  <2>1. CASE d = c BY <1>1, <1>2, <1>3, <2>1 DEF Moves, r
  <2>2. CASE d # c
    <3>1. client'[d] = client[d] BY <1>2, <2>2 DEF Moves
    <3>2. CASE client[d].pc \in {"publish", "length", "drop"}
      <4>1. client[d].map \in Maps /\ client[d] # Idle BY <3>2, HoldsMap
      <4>2. client[d].op # "remove" => client[d].run # r
        BY <1>1, <2>2, <3>1, <4>1, SharedMap DEF Opposed, r
      <4> QED BY <1>3, <3>1, <4>1, <4>2 DEF StoreInv, Underway
    <3>3. CASE client[d].pc \notin {"publish", "length", "drop"} BY <3>1, <3>3
    <3> QED BY <3>2, <3>3
  <2> QED BY <2>1, <2>2
<1> QED BY <1>4, <1>5, <1>6, <1>7, <1>8, <1>9, <1>10 DEF StoreInv

LEMMA PublishPreserves ==
    ASSUME TypeOK, StoreInv, NEW c \in Clients, PublishMap(c)
    PROVE  TypeOK' /\ StoreInv'
<1> DEFINE m == client[c].map
           r == client[c].run
<1>1. /\ UNCHANGED <<items, removed, kept>> /\ inProgress' = m
      /\ client[c].pc = "publish" /\ m \in Maps /\ m # NoMap
      /\ client[c] # Idle /\ r \in Runs /\ client[c].op # "none"
  BY HoldsMap, IdleFields DEF TypeOK, PublishMap, StoreInv, Shape
<1>2. Returns(c) \/ (client[c].op = "remove" /\ Moves(c, "length", m))
  BY GotoMoves, ReturnReturns DEF PublishMap
<1>3. \/ added' = added
      \/ added' = added \cup {r} /\ client[c].op = "add" /\ client[c].undisturbed /\ Returns(c)
  BY ReturnReturns DEF PublishMap
<1> HIDE DEF m, r
<1>4. TypeOK' BY <1>1, <1>2, <1>3, IdleFields DEF TypeOK, Moves, Returns
<1>5. Shape' BY <1>1, <1>2 DEF StoreInv, Shape, Moves, Returns, r
<1>6. Solid'
  <2> SUFFICES ASSUME added' # {} \/ kept # {}
      PROVE  /\ added' \cup kept \subseteq items[m]
             /\ \A d \in Clients : client'[d].map \in {NoMap, m} /\ client'[d].pc # "drop"
    BY <1>1 DEF Solid
  <2>1. CASE added # {} \/ kept # {}
    <3>1. inProgress = m /\ added \cup kept \subseteq items[m]
      BY <1>1, <2>1 DEF StoreInv, Solid, m
    <3>2. added' # added => r \in items[m] BY <1>1, <1>3 DEF StoreInv, Underway, r, m
    <3>3. added' \cup kept \subseteq items[m] BY <1>3, <3>1, <3>2
    <3> QED BY <1>1, <1>2, <2>1, <3>1, <3>3, IdleFields DEF StoreInv, Solid, Moves, Returns
  <2>2. CASE added = {} /\ kept = {}
    <3>1. added' = {r} /\ client[c].op = "add" /\ client[c].undisturbed /\ Returns(c)
      BY <1>3, <2>2
    <3>2. r \in items[m] BY <1>1, <3>1 DEF StoreInv, Underway, r, m
    <3>3. \A d \in Clients : d # c => client[d] = Idle
      BY <1>1, <2>2, <3>1 DEF StoreInv, Alone
    <3> QED BY <2>2, <3>1, <3>2, <3>3, IdleFields DEF Returns
  <2> QED BY <2>1, <2>2
<1>7. Alone' BY AloneStep DEF Step
<1>8. Settled'
  <2>1. CASE added' = added BY <1>1, <1>2, <1>4, <2>1, IdleFields
    DEF StoreInv, Settled, Moves, Returns, TypeOK
  <2>2. CASE added' # added
    <3>1. added' = added \cup {r} /\ client[c].op = "add" /\ client[c].undisturbed /\ Returns(c)
      BY <1>3, <2>2
    <3> SUFFICES ASSUME NEW d \in Clients, d # c
        PROVE  /\ client[d].run \in added' => client[d].op # "remove"
               /\ client[d].run \in removed => client[d].op = "remove"
      BY <1>1, <1>4, <3>1, IdleFields DEF Settled, Returns, TypeOK
    <3>2. client[d].run = r => client[d].op # "remove"
      BY <1>1, <3>1, IdleFields, SharedMap DEF Opposed, r
    <3> QED BY <3>1, <3>2 DEF StoreInv, Settled
  <2> QED BY <2>1, <2>2
<1>9. Gone'
  <2> SUFFICES ASSUME NEW n \in Maps, n = m \/ \E d \in Clients : client'[d].map = n
      PROVE  removed \cap items[n] = {}
    BY <1>1 DEF Gone
  <2>1. \E d \in Clients : client[d].map = n BY <1>1, <1>2, IdleFields DEF Moves, Returns, m
  <2> QED BY <2>1 DEF StoreInv, Gone
<1>10. Underway'
  <2> SUFFICES ASSUME NEW d \in Clients, client'[d].undisturbed
      PROVE  /\ client'[d].pc = "publish" =>
                   (client'[d].run \in items[client'[d].map] <=> client'[d].op # "remove")
             /\ client'[d].pc \in {"length", "drop"} =>
                   /\ client'[d].run \notin items[client'[d].map]
                   /\ inProgress' = client'[d].map
    BY <1>1 DEF Underway
  <2>1. CASE d = c BY <1>1, <1>2, <2>1, IdleFields DEF StoreInv, Underway, Moves, Returns, r, m
  <2>2. CASE d # c
    <3>1. client'[d] = client[d] BY <1>2, <2>2 DEF Moves, Returns
    <3>2. CASE client[d].pc \in {"publish", "length", "drop"}
      <4>1. client[d] # Idle BY <3>2, HoldsMap
      <4>2. m = inProgress BY <1>1, <2>2, <3>1, <4>1, SharedMap DEF m
      <4> QED BY <1>1, <3>1, <4>2 DEF StoreInv, Underway
    <3>3. CASE client[d].pc \notin {"publish", "length", "drop"} BY <3>1, <3>3
    <3> QED BY <3>2, <3>3
  <2> QED BY <2>1, <2>2
<1> QED BY <1>4, <1>5, <1>6, <1>7, <1>8, <1>9, <1>10 DEF StoreInv

\* A removal that ends undisturbed leaves no map with the run in it: the others
\* hold the project's map, or are not in a call.
LEMMA RemovalEnds ==
    ASSUME TypeOK, StoreInv, NEW c \in Clients, client[c].undisturbed,
           client[c].pc \in {"length", "drop"}
    PROVE  /\ client[c].op = "remove" /\ client[c].run \in Runs
           /\ \A m \in Maps : m = inProgress \/ (\E d \in Clients : client[d].map = m)
                 => client[c].run \notin items[m]
           /\ \A d \in Clients : client[d].run = client[c].run => client[d].op = "remove"
<1>1. client[c] # Idle BY HoldsMap
<1>2. client[c].op = "remove" /\ client[c].run \in Runs BY <1>1 DEF StoreInv, Shape
<1>3. client[c].run \notin items[inProgress] /\ inProgress = client[c].map
  BY DEF StoreInv, Underway
<1>4. \A d \in Clients : client[d].map \in {NoMap, inProgress}
  BY <1>1, <1>3, SharedMap
<1>5. \A d \in Clients : client[d].run = client[c].run => client[d].op = "remove"
  BY <1>1, <1>2, IdleFields, SharedMap DEF Opposed
<1> QED BY <1>2, <1>3, <1>4, <1>5

LEMMA EmptyPreserves ==
    ASSUME TypeOK, StoreInv, NEW c \in Clients, CheckEmpty(c)
    PROVE  TypeOK' /\ StoreInv'
<1>1. /\ UNCHANGED <<inProgress, items, added, kept>>
      /\ client[c].pc = "length" /\ client[c].map \in Maps
      /\ client[c] # Idle /\ client[c].run \in Runs /\ client[c].op = "remove"
  BY HoldsMap, IdleFields DEF TypeOK, CheckEmpty, StoreInv, Shape
<1>2. Returns(c) \/ (items[client[c].map] = {} /\ Moves(c, "drop", client[c].map))
  BY GotoMoves, ReturnReturns DEF CheckEmpty
<1>3. \/ removed' = removed
      \/ removed' = removed \cup {client[c].run} /\ client[c].undisturbed
  BY DEF CheckEmpty
<1>4. TypeOK' BY <1>1, <1>2, <1>3, IdleFields DEF TypeOK, Moves, Returns
<1>5. Shape' BY <1>1, <1>2 DEF StoreInv, Shape, Moves, Returns
<1>6. Solid'
  <2>1. added # {} \/ kept # {} => Returns(c) BY <1>1, <1>2 DEF StoreInv, Solid, TypeOK
  <2> QED BY <1>1, <2>1, IdleFields DEF StoreInv, Solid, Returns
<1>7. Alone' BY AloneStep DEF Step
<1>8. Settled'
  <2>1. \A d \in Clients : client[d].run \in removed' => client[d].op = "remove"
    BY <1>1, <1>3, RemovalEnds DEF StoreInv, Settled
  <2> QED BY <1>1, <1>2, <1>4, <2>1, IdleFields DEF StoreInv, Settled, Moves, Returns, TypeOK
<1>9. Gone'
  <2> SUFFICES ASSUME NEW m \in Maps, m = inProgress' \/ \E d \in Clients : client'[d].map = m
      PROVE  removed' \cap items[m] = {}
    BY <1>1 DEF Gone
  <2>1. m = inProgress \/ \E d \in Clients : client[d].map = m
    BY <1>1, <1>2, IdleFields DEF Moves, Returns
  <2> QED BY <1>1, <1>3, <2>1, RemovalEnds DEF StoreInv, Gone
<1>10. Underway' BY <1>1, <1>2, IdleFields DEF StoreInv, Underway, Moves, Returns
<1> QED BY <1>4, <1>5, <1>6, <1>7, <1>8, <1>9, <1>10 DEF StoreInv

LEMMA DropPreserves ==
    ASSUME TypeOK, StoreInv, NEW c \in Clients, DropProject(c)
    PROVE  TypeOK' /\ StoreInv'
<1>1. /\ UNCHANGED <<items, added, kept>> /\ inProgress' = NoMap
      /\ client[c].pc = "drop" /\ client[c].map \in Maps
      /\ client[c] # Idle /\ client[c].run \in Runs /\ client[c].op = "remove"
  BY HoldsMap, IdleFields DEF TypeOK, DropProject, StoreInv, Shape
<1>2. Returns(c) BY ReturnReturns DEF DropProject
<1>3. \/ removed' = removed
      \/ removed' = removed \cup {client[c].run} /\ client[c].undisturbed
  BY DEF DropProject
<1>4. added = {} /\ kept = {} BY <1>1 DEF StoreInv, Solid
<1>5. TypeOK' BY <1>1, <1>2, <1>3, IdleFields DEF TypeOK, Returns
<1>6. Shape' BY <1>2 DEF StoreInv, Shape, Returns
<1>7. Solid' BY <1>1, <1>4 DEF Solid
<1>8. Alone' BY AloneStep DEF Step
<1>9. Settled'
  <2>1. \A d \in Clients : client[d].run \in removed' => client[d].op = "remove"
    BY <1>1, <1>3, RemovalEnds DEF StoreInv, Settled
  <2> QED BY <1>1, <1>2, <1>4, <1>5, <2>1, IdleFields DEF Settled, Returns, TypeOK
<1>10. Gone'
  <2> SUFFICES ASSUME NEW m \in Maps, NEW d \in Clients, client'[d].map = m
      PROVE  removed' \cap items[m] = {}
    BY <1>1 DEF Gone
  <2>1. client[d].map = m BY <1>2, IdleFields DEF Returns
  <2> QED BY <1>1, <1>3, <2>1, RemovalEnds DEF StoreInv, Gone
<1>11. Underway'
  <2> SUFFICES ASSUME NEW d \in Clients, d # c, client[d].undisturbed
      PROVE  client[d].pc = "publish" =>
                (client[d].run \in items[client[d].map] <=> client[d].op # "remove")
    <3>1. \A d \in Clients :
            d # c /\ client[d].undisturbed => client[d].pc \notin {"length", "drop"}
      BY <1>1, <1>4, HoldsMap DEF StoreInv, Alone
    <3> QED BY <1>1, <1>2, <3>1, IdleFields DEF Underway, Returns
  <2> QED BY DEF StoreInv, Underway
<1> QED BY <1>5, <1>6, <1>7, <1>8, <1>9, <1>10, <1>11 DEF StoreInv

-----------------------------------------------------------------------------
(***************************************************************************)
(* The beginning of a call, and RemoveProject, which marks what it         *)
(* disturbs.                                                               *)
(***************************************************************************)

LEMMA CallPreserves ==
    ASSUME TypeOK, StoreInv, NEW c \in Clients,
           NEW op \in {"add", "remove", "update"}, NEW r \in Runs, Call(c, op, r)
    PROVE  TypeOK' /\ StoreInv'
<1> DEFINE D == Contrary(op, r)
           call == [op |-> op, run |-> r, pc |-> "load", map |-> NoMap,
                    undisturbed |-> D = {}]
<1>1. /\ UNCHANGED <<inProgress, items, kept>> /\ client[c] = Idle
      /\ added' = (IF op = "remove" THEN added \ {r} ELSE added)
      /\ removed' = (IF op = "remove" THEN removed ELSE removed \ {r})
  BY DEF Call
<1>2. client' = [Disturb(D) EXCEPT ![c] = call] BY DEF Call
<1>3. /\ call \in ClientStates /\ call # Idle /\ call.op = op /\ call.run = r
      /\ call.pc = "load" /\ call.map = NoMap /\ call.undisturbed = (D = {})
  BY DEF ClientStates, Idle
<1>4. /\ client' \in [Clients -> ClientStates] /\ client'[c] = call
      /\ \A d \in Clients : d # c => client'[d] = Disturb(D)[d]
  BY <1>2, <1>3, DisturbMarks
<1>5. \A d \in D : d \in Clients /\ client[d] # Idle
  BY IdleFields DEF Contrary, Busy, Storing, Removing
<1>6. \A d \in Clients : d \notin D /\ client[d] # Idle => kept # {}
  <2>1. kept = {} => D = Busy BY DEF Contrary
  <2> QED BY <2>1 DEF Busy
<1>7. \A d \in Clients : d \notin D /\ client[d] # Idle /\ client[d].run = r =>
         (op = "remove" <=> client[d].op = "remove")
  <2> SUFFICES ASSUME NEW d \in Clients, d \notin D, client[d] # Idle, client[d].run = r
      PROVE  op = "remove" <=> client[d].op = "remove"
    OBVIOUS
  <2>1. kept # {} BY <1>6
  <2>2. client[d] \in ClientStates /\ client[d].op # "none" BY DEF TypeOK, StoreInv, Shape
  <2>3. client[d].op \in {"add", "update", "remove"} BY <2>2 DEF ClientStates
  <2>4. CASE op = "remove"
    <3>1. D = Storing(r) BY <2>1, <2>4 DEF Contrary
    <3> QED BY <2>3, <2>4, <3>1 DEF Storing
  <2>5. CASE op # "remove"
    <3>1. D = Removing(r) BY <2>1, <2>5 DEF Contrary
    <3> QED BY <2>3, <2>5, <3>1 DEF Removing
  <2> QED BY <2>4, <2>5
<1> HIDE DEF D, call
<1>8. \A d \in Clients : d # c =>
         /\ client'[d].op = client[d].op /\ client'[d].run = client[d].run
         /\ client'[d].pc = client[d].pc /\ client'[d].map = client[d].map
         /\ client'[d].undisturbed => client'[d] = client[d] /\ d \notin D
         /\ client[d] = Idle => client'[d] = Idle
  BY <1>4, <1>5, DisturbMarks
<1>9. \A d \in Clients : d # c => (client'[d] = Idle <=> client[d] = Idle)
  BY <1>8, IdleFields DEF StoreInv, Shape
<1>10. TypeOK'
  <2>1. \A d \in Clients : client'[d].map = NoMap <=> client'[d].pc \in {"idle", "load"}
    BY <1>3, <1>4, <1>8 DEF TypeOK
  <2>2. added' \subseteq Runs /\ removed' \subseteq Runs BY <1>1 DEF TypeOK
  <2> QED BY <1>1, <1>4, <2>1, <2>2 DEF TypeOK
<1>11. Shape' BY <1>3, <1>4, <1>8, <1>9 DEF StoreInv, Shape
<1>12. Solid'
  <2>1. added' \subseteq added BY <1>1
  <2>2. \A d \in Clients : client'[d].map \in {NoMap, client[d].map}
                          /\ (client'[d].pc = "drop" => client[d].pc = "drop")
    BY <1>3, <1>4, <1>8
  <2> QED BY <1>1, <2>1, <2>2 DEF StoreInv, Solid
<1>13. Alone'
  <2> SUFFICES ASSUME NEW d \in Clients, NEW e \in Clients, d # e,
                      client'[d].undisturbed, client'[d] # Idle, client'[e] # Idle
      PROVE  kept # {} /\ ~Opposed(client'[d], client'[e])
    BY <1>1 DEF Alone
  <2>1. CASE d = c
    <3>1. D = {} BY <1>3, <1>4, <2>1
    <3>2. client[e] # Idle BY <1>9, <2>1
    <3> QED BY <1>3, <1>4, <1>6, <1>7, <1>8, <2>1, <3>1, <3>2 DEF Opposed
  <2>2. CASE e = c
    <3>1. client'[d] = client[d] /\ d \notin D BY <1>8, <2>2
    <3> QED BY <1>3, <1>4, <1>6, <1>7, <2>2, <3>1 DEF Opposed
  <2>3. CASE d # c /\ e # c
    <3>1. client'[d] = client[d] /\ client[e] # Idle BY <1>8, <1>9, <2>3
    <3>2. kept # {} /\ ~Opposed(client[d], client[e]) BY <3>1 DEF StoreInv, Alone
    <3> QED BY <1>8, <2>3, <3>1, <3>2 DEF Opposed
  <2> QED BY <2>1, <2>2, <2>3
<1>14. Settled'
  <2> SUFFICES ASSUME NEW d \in Clients
      PROVE  /\ client'[d].run \in added' => client'[d].op # "remove"
             /\ client'[d].run \in removed' => client'[d].op = "remove"
    BY DEF Settled
  <2>1. CASE d = c BY <1>1, <1>3, <1>4, <2>1
  <2>2. CASE d # c BY <1>1, <1>8, <2>2 DEF StoreInv, Settled
  <2> QED BY <2>1, <2>2
<1>15. Gone'
  <2>1. removed' \subseteq removed BY <1>1
  <2>2. \A m \in Maps : (\E d \in Clients : client'[d].map = m)
                        => \E d \in Clients : client[d].map = m
    BY <1>3, <1>4, <1>8
  <2> QED BY <1>1, <2>1, <2>2 DEF StoreInv, Gone
<1>16. Underway'
  <2> SUFFICES ASSUME NEW d \in Clients, client'[d].undisturbed
      PROVE  /\ client'[d].pc = "publish" =>
                   (client'[d].run \in items[client'[d].map] <=> client'[d].op # "remove")
             /\ client'[d].pc \in {"length", "drop"} =>
                   /\ client'[d].run \notin items[client'[d].map]
                   /\ inProgress = client'[d].map
    BY <1>1 DEF Underway
  <2>1. CASE d = c BY <1>3, <1>4, <2>1
  <2>2. CASE d # c BY <1>8, <2>2 DEF StoreInv, Underway
  <2> QED BY <2>1, <2>2
<1> QED BY <1>10, <1>11, <1>12, <1>13, <1>14, <1>15, <1>16 DEF StoreInv

LEMMA RemoveProjectPreserves ==
    ASSUME TypeOK, StoreInv, NEW c \in Clients, RemoveProject(c)
    PROVE  TypeOK' /\ StoreInv'
<1>1. /\ items' = items /\ inProgress' = NoMap /\ added' = {} /\ kept' = {}
      /\ removed' = (IF Busy = {} THEN Runs ELSE removed)
      /\ client' = Disturb(Busy)
  BY DEF RemoveProject
<1>2. /\ client' \in [Clients -> ClientStates]
      /\ \A d \in Clients :
            /\ client'[d].op = client[d].op /\ client'[d].run = client[d].run
            /\ client'[d].pc = client[d].pc /\ client'[d].map = client[d].map
            /\ client'[d].undisturbed => client'[d] = Idle
            /\ client[d] = Idle => client'[d] = Idle
  BY <1>1, DisturbMarks DEF Busy
<1>3. removed' = removed \/ (removed' = Runs /\ \A d \in Clients : client'[d] = Idle)
  BY <1>1, <1>2 DEF Busy
<1>4. TypeOK' BY <1>1, <1>2, <1>3 DEF TypeOK
<1>5. Shape' BY <1>2 DEF StoreInv, Shape
<1>6. Solid' BY <1>1 DEF Solid
<1>7. Alone' BY <1>2 DEF Alone
<1>8. Settled' BY <1>1, <1>2, <1>3, <1>4, IdleFields DEF StoreInv, Settled, TypeOK
<1>9. Gone'
  <2> SUFFICES ASSUME NEW m \in Maps, NEW d \in Clients, client'[d].map = m
      PROVE  removed' \cap items[m] = {}
    BY <1>1 DEF Gone
  <2>1. client[d].map = m /\ client'[d] # Idle BY <1>2, IdleFields
  <2> QED BY <1>3, <2>1 DEF StoreInv, Gone
<1>10. Underway' BY <1>2, IdleFields DEF Underway
<1> QED BY <1>4, <1>5, <1>6, <1>7, <1>8, <1>9, <1>10 DEF StoreInv

-----------------------------------------------------------------------------

LEMMA StoreNext == TypeOK /\ StoreInv /\ [Next]_vars => TypeOK' /\ StoreInv'
<1> SUFFICES ASSUME TypeOK, StoreInv, [Next]_vars PROVE TypeOK' /\ StoreInv' OBVIOUS
<1>1. CASE UNCHANGED vars
  BY <1>1 DEF vars, TypeOK, StoreInv, Shape, Solid, Alone, Settled, Gone, Underway
<1>2. CASE Next
  <2>1. PICK c \in Clients :
          \/ \E op \in {"add", "remove", "update"}, r \in Runs : Call(c, op, r)
          \/ Step(c)
          \/ RemoveProject(c)
    BY <1>2 DEF Next
  <2>2. CASE Step(c)
    BY <2>2, LoadPreserves, FindPreserves, StorePreserves, DeletePreserves,
       PublishPreserves, EmptyPreserves, DropPreserves DEF Step
  <2> QED BY <2>1, <2>2, CallPreserves, RemoveProjectPreserves
<1> QED BY <1>1, <1>2

\* The inductive invariant holds of every state of the store.
THEOREM StoreCorrect == Spec => [](TypeOK /\ StoreInv)
BY StoreInit, StoreNext, PTL DEF Spec

\* Every variable keeps its type, and a client has a map exactly between the
\* load of the project and its return.
THEOREM TypeCorrect == Spec => []TypeOK
BY StoreCorrect, PTL

\* An item whose addition returned undisturbed is in the store until someone
\* calls to remove it or its project: AddLogItem.
THEOREM AddedItemsStay == Spec => []AddedStay
<1>1. TypeOK /\ StoreInv => AddedStay
  BY DEF StoreInv, Solid, AddedStay, Visible
<1> QED BY <1>1, StoreCorrect, PTL

\* An item whose removal returned undisturbed is not in the store until someone
\* calls to store it: RemoveLogItem and RemoveProject.
THEOREM RemovedItemsGone == Spec => []RemovedGone
<1>1. TypeOK /\ StoreInv => RemovedGone
  BY DEF StoreInv, Gone, RemovedGone, Visible, TypeOK
<1> QED BY <1>1, StoreCorrect, PTL

\* Items that no client works on stay in the store until the project is removed,
\* whatever the clients do with others.
THEOREM KeepersStay == Spec => []KeepersUntouched
<1>1. TypeOK /\ StoreInv => KeepersUntouched
  BY DEF StoreInv, Solid, KeepersUntouched, Visible
<1> QED BY <1>1, StoreCorrect, PTL

=============================================================================
