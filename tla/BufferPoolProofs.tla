-------------------------- MODULE BufferPoolProofs --------------------------
(***************************************************************************)
(* Proofs about BufferPool, for every finite set of goroutines and every   *)
(* pool size: the type invariant, the conservation of buffers, and the     *)
(* bound on allocation, which rests on it.  The work is in how one         *)
(* goroutine's move changes the cardinality of the set of goroutines at a  *)
(* location.                                                               *)
(***************************************************************************)
EXTENDS BufferPool, FiniteSetTheorems, TLAPS

USE PoolSizeAssumption

\* The set of goroutines at a location is finite, so its size is a number.
LEMMA AtFinite ==
    ASSUME NEW location
    PROVE  IsFiniteSet(At(location)) /\ Cardinality(At(location)) \in Nat
<1>1. At(location) \subseteq Procs BY DEF At
<1>2. IsFiniteSet(At(location)) BY <1>1, ProcsAssumption, FS_Subset
<1> QED BY <1>2, FS_CardinalityType

\* There are at most as many goroutines at a location as there are goroutines.
LEMMA AtBounded ==
    ASSUME NEW location
    PROVE  /\ Cardinality(Procs) \in Nat \ {0}
           /\ Cardinality(At(location)) <= Cardinality(Procs)
<1>1. At(location) \subseteq Procs BY DEF At
<1>2. Cardinality(Procs) # 0 BY ProcsAssumption, FS_EmptySet
<1> QED BY <1>1, <1>2, ProcsAssumption, FS_Subset, FS_CardinalityType

\* A goroutine that goes from one location to another moves from one set to
\* the other and touches no third one.
LEMMA GotoMoves ==
    ASSUME pc \in [Procs -> PCs], NEW p \in Procs,
           NEW from, NEW to \in PCs, from # to, Goto(p, from, to)
    PROVE  /\ Cardinality(At(from)') = Cardinality(At(from)) - 1
           /\ Cardinality(At(to)') = Cardinality(At(to)) + 1
           /\ \A other : other \notin {from, to} => At(other)' = At(other)
           /\ pc' \in [Procs -> PCs]
<1>1. pc' \in [Procs -> PCs] BY DEF Goto
<1>2. /\ At(from)' = At(from) \ {p}
      /\ At(to)' = At(to) \cup {p}
      /\ \A other : other \notin {from, to} => At(other)' = At(other)
      /\ p \in At(from) /\ p \notin At(to)
  BY DEF Goto, At
<1>3. Cardinality(At(from)') = Cardinality(At(from)) - 1
  <2>1. Cardinality(At(from) \ {p}) = Cardinality(At(from)) - 1
    BY <1>2, AtFinite, FS_RemoveElement, Zenon
  <2> QED BY <1>2, <2>1
<1>4. Cardinality(At(to)') = Cardinality(At(to)) + 1
  BY <1>2, AtFinite, FS_AddElement
<1> QED BY <1>1, <1>2, <1>3, <1>4

-----------------------------------------------------------------------------

\* Every reachable state of the pool is well typed; in particular the channel
\* never holds more than its capacity, whatever Get and Put do.
THEOREM TypeCorrect == Spec => []TypeOK
<1>1. Init => TypeOK BY DEF Init, TypeOK, PCs
<1>2. TypeOK /\ [Next]_vars => TypeOK'
  <2> SUFFICES ASSUME TypeOK, [Next]_vars PROVE TypeOK' OBVIOUS
  <2>1. CASE UNCHANGED vars BY <2>1 DEF TypeOK, vars
  <2>2. ASSUME NEW p \in Procs, CallGet(p) \/ Step(p) PROVE TypeOK'
    BY <2>2 DEF TypeOK, PCs, Goto, Step, CallGet, Receive, ReceiveDefault,
                CheckPoolSize, increaseCurrentSize, PushNew, CallPut, Put
  <2> QED BY <2>1, <2>2 DEF Next
<1> QED BY <1>1, <1>2, PTL DEF Spec

-----------------------------------------------------------------------------

\* Conservation with the set sizes named, so that arithmetic stays arithmetic.
LEMMA InitConserves == Init => BuffersConserved
<1> SUFFICES ASSUME Init PROVE BuffersConserved OBVIOUS
<1>1. At("push") = {} /\ At("hold") = {} /\ At("put") = {}
  BY DEF Init, At
<1> QED BY <1>1, FS_EmptySet DEF Init, BuffersConserved

LEMMA StepConserves == TypeOK /\ BuffersConserved /\ [Next]_vars => BuffersConserved'
<1> SUFFICES ASSUME TypeOK, BuffersConserved, [Next]_vars PROVE BuffersConserved'
  OBVIOUS
<1> USE DEF TypeOK, PCs
<1> DEFINE push == Cardinality(At("push"))
           hold == Cardinality(At("hold"))
           put == Cardinality(At("put"))
<1>1. push \in Nat /\ hold \in Nat /\ put \in Nat BY AtFinite
<1>2. bufferChan + push + hold + put = currentSize BY DEF BuffersConserved
<1>3. SUFFICES bufferChan' + push' + hold' + put' = currentSize'
  BY DEF BuffersConserved
<1>4. CASE UNCHANGED vars BY <1>2, <1>4 DEF vars, At
<1>5. ASSUME NEW p \in Procs, CallGet(p)
      PROVE  bufferChan' + push' + hold' + put' = currentSize'
  <2>1. Goto(p, "idle", "recv") BY <1>5 DEF CallGet
  <2>2. push' = push /\ hold' = hold /\ put' = put BY <2>1, GotoMoves
  <2> QED BY <1>2, <1>5, <2>2 DEF CallGet
<1>6. ASSUME NEW p \in Procs, Receive(p)
      PROVE  bufferChan' + push' + hold' + put' = currentSize'
  <2>1. Goto(p, "recv", "hold") BY <1>6 DEF Receive
  <2>2. push' = push /\ hold' = hold + 1 /\ put' = put BY <2>1, GotoMoves
  <2> QED BY <1>1, <1>2, <1>6, <2>2 DEF Receive
<1>7. ASSUME NEW p \in Procs, ReceiveDefault(p)
      PROVE  bufferChan' + push' + hold' + put' = currentSize'
  <2>1. Goto(p, "recv", "check") BY <1>7 DEF ReceiveDefault
  <2>2. push' = push /\ hold' = hold /\ put' = put BY <2>1, GotoMoves
  <2> QED BY <1>2, <1>7, <2>2 DEF ReceiveDefault
<1>8. ASSUME NEW p \in Procs, CheckPoolSize(p)
      PROVE  bufferChan' + push' + hold' + put' = currentSize'
  <2>1. Goto(p, "check", "grow") \/ Goto(p, "check", "recv")
    BY <1>8 DEF CheckPoolSize
  <2>2. push' = push /\ hold' = hold /\ put' = put BY <2>1, GotoMoves
  <2> QED BY <1>2, <1>8, <2>2 DEF CheckPoolSize
<1>9. ASSUME NEW p \in Procs, increaseCurrentSize(p)
      PROVE  bufferChan' + push' + hold' + put' = currentSize'
  <2>1. Goto(p, "grow", "push") BY <1>9 DEF increaseCurrentSize
  <2>2. push' = push + 1 /\ hold' = hold /\ put' = put BY <2>1, GotoMoves
  <2> QED BY <1>1, <1>2, <1>9, <2>2 DEF increaseCurrentSize
<1>10. ASSUME NEW p \in Procs, PushNew(p)
       PROVE  bufferChan' + push' + hold' + put' = currentSize'
  <2>1. Goto(p, "push", "recv") BY <1>10 DEF PushNew
  <2>2. push' = push - 1 /\ hold' = hold /\ put' = put BY <2>1, GotoMoves
  <2> QED BY <1>1, <1>2, <1>10, <2>2 DEF PushNew
<1>11. ASSUME NEW p \in Procs, CallPut(p)
       PROVE  bufferChan' + push' + hold' + put' = currentSize'
  <2>1. Goto(p, "hold", "put") BY <1>11 DEF CallPut
  <2>2. push' = push /\ hold' = hold - 1 /\ put' = put + 1 BY <2>1, GotoMoves
  <2> QED BY <1>1, <1>2, <1>11, <2>2 DEF CallPut
<1>12. ASSUME NEW p \in Procs, Put(p)
       PROVE  bufferChan' + push' + hold' + put' = currentSize'
  <2>1. Goto(p, "put", "idle") BY <1>12 DEF Put
  <2>2. push' = push /\ hold' = hold /\ put' = put - 1 BY <2>1, GotoMoves
  <2> QED BY <1>1, <1>2, <1>12, <2>2 DEF Put
<1> QED BY <1>4, <1>5, <1>6, <1>7, <1>8, <1>9, <1>10, <1>11, <1>12 DEF Next, Step

\* No interleaving of Get and Put loses a buffer or hands it to two callers.
THEOREM BuffersAreConserved == Spec => []BuffersConserved
BY InitConserves, StepConserves, TypeCorrect, PTL DEF Spec

-----------------------------------------------------------------------------

\* The size of a union of two sets without a common element.
LEMMA DisjointUnion ==
    ASSUME NEW A, NEW B, IsFiniteSet(A), IsFiniteSet(B), A \cap B = {}
    PROVE  /\ IsFiniteSet(A \cup B)
           /\ Cardinality(A \cup B) = Cardinality(A) + Cardinality(B)
<1>1. Cardinality(A) \in Nat /\ Cardinality(B) \in Nat BY FS_CardinalityType
<1>2. Cardinality(A \cap B) = 0 BY FS_EmptySet
<1>3. /\ IsFiniteSet(A \cup B)
      /\ Cardinality(A \cup B) = Cardinality(A) + Cardinality(B) - Cardinality(A \cap B)
  BY FS_Union, Zenon
<1> QED BY <1>1, <1>2, <1>3

\* A goroutine that is at "recv" is at none of the five other locations, so
\* the goroutines at these are fewer than all.
LEMMA OthersAreFewer ==
    ASSUME pc \in [Procs -> PCs], NEW p \in Procs, pc[p] = "recv"
    PROVE  Cardinality(At("push")) + Cardinality(At("hold")) + Cardinality(At("put"))
             + Cardinality(At("check")) + Cardinality(At("grow")) < Cardinality(Procs)
<1> DEFINE two == At("push") \cup At("hold")
           three == two \cup At("put")
           four == three \cup At("check")
           five == four \cup At("grow")
<1>1. /\ IsFiniteSet(two)
      /\ Cardinality(two) = Cardinality(At("push")) + Cardinality(At("hold"))
  <2>1. At("push") \cap At("hold") = {} BY DEF At
  <2> QED BY <2>1, AtFinite, DisjointUnion
<1>2. /\ IsFiniteSet(three)
      /\ Cardinality(three) = Cardinality(two) + Cardinality(At("put"))
  <2>1. two \cap At("put") = {} BY DEF At
  <2> QED BY <1>1, <2>1, AtFinite, DisjointUnion
<1>3. /\ IsFiniteSet(four)
      /\ Cardinality(four) = Cardinality(three) + Cardinality(At("check"))
  <2>1. three \cap At("check") = {} BY DEF At
  <2> QED BY <1>2, <2>1, AtFinite, DisjointUnion
<1>4. /\ IsFiniteSet(five)
      /\ Cardinality(five) = Cardinality(four) + Cardinality(At("grow"))
  <2>1. four \cap At("grow") = {} BY DEF At
  <2> QED BY <1>3, <2>1, AtFinite, DisjointUnion
<1>5. Cardinality(five) < Cardinality(Procs)
  <2>1. five \subseteq Procs /\ five # Procs BY DEF At
  <2> HIDE DEF five
  <2> QED BY <2>1, ProcsAssumption, FS_Subset, FS_CardinalityType
<1> QED BY <1>1, <1>2, <1>3, <1>4, <1>5, AtFinite

LEMMA InitAllocates == Init => AllocatesOnDemand
<1> SUFFICES ASSUME Init PROVE AllocatesOnDemand OBVIOUS
<1>1. At("check") = {} /\ At("grow") = {} BY DEF Init, At
<1> QED BY <1>1, FS_EmptySet, AtBounded DEF Init, AllocatesOnDemand

LEMMA StepAllocates ==
    TypeOK /\ BuffersConserved /\ AllocatesOnDemand /\ [Next]_vars => AllocatesOnDemand'
<1> SUFFICES ASSUME TypeOK, BuffersConserved, AllocatesOnDemand, [Next]_vars
             PROVE  AllocatesOnDemand'
  OBVIOUS
<1> USE DEF TypeOK, PCs
<1> DEFINE check == Cardinality(At("check"))
           grow == Cardinality(At("grow"))
           procs == Cardinality(Procs)
<1>1. check \in Nat /\ grow \in Nat /\ procs \in Nat BY AtFinite, AtBounded
<1>2. currentSize + check + grow <= procs BY DEF AllocatesOnDemand
<1>3. SUFFICES currentSize' + check' + grow' <= procs BY DEF AllocatesOnDemand
<1>4. CASE UNCHANGED vars BY <1>2, <1>4 DEF vars, At
<1>5. ASSUME NEW p \in Procs,
             CallGet(p) \/ Receive(p) \/ PushNew(p) \/ CallPut(p) \/ Put(p)
      PROVE  currentSize' + check' + grow' <= procs
  <2>1. \E from, to \in PCs \ {"check", "grow"} : from # to /\ Goto(p, from, to)
    BY <1>5 DEF CallGet, Receive, PushNew, CallPut, Put
  <2>2. check' = check /\ grow' = grow BY <2>1, GotoMoves
  <2>3. currentSize' = currentSize
    BY <1>5 DEF CallGet, Receive, PushNew, CallPut, Put
  <2> QED BY <1>2, <2>2, <2>3
\* The channel is empty, so every buffer is with another goroutine.
<1>6. ASSUME NEW p \in Procs, ReceiveDefault(p)
      PROVE  currentSize' + check' + grow' <= procs
  <2>1. Goto(p, "recv", "check") /\ bufferChan = 0 /\ currentSize' = currentSize
    BY <1>6 DEF ReceiveDefault
  <2>2. check' = check + 1 /\ grow' = grow BY <2>1, GotoMoves
  <2>3. pc[p] = "recv" BY <2>1 DEF Goto
  <2>4. currentSize + check + grow < procs
    BY <2>1, <2>3, OthersAreFewer, AtFinite DEF BuffersConserved
  <2> QED BY <1>1, <2>1, <2>2, <2>4
<1>7. ASSUME NEW p \in Procs, CheckPoolSize(p)
      PROVE  currentSize' + check' + grow' <= procs
  <2>1. currentSize' = currentSize BY <1>7 DEF CheckPoolSize
  <2>2. CASE currentSize < MaxPoolSize
    <3>1. Goto(p, "check", "grow") BY <1>7, <2>2 DEF CheckPoolSize
    <3>2. check' = check - 1 /\ grow' = grow + 1 BY <3>1, GotoMoves
    <3> QED BY <1>1, <1>2, <2>1, <3>2
  <2>3. CASE ~(currentSize < MaxPoolSize)
    <3>1. Goto(p, "check", "recv") BY <1>7, <2>3 DEF CheckPoolSize
    <3>2. check' = check - 1 /\ grow' = grow BY <3>1, GotoMoves
    <3> QED BY <1>1, <1>2, <2>1, <3>2
  <2> QED BY <2>2, <2>3
<1>8. ASSUME NEW p \in Procs, increaseCurrentSize(p)
      PROVE  currentSize' + check' + grow' <= procs
  <2>1. Goto(p, "grow", "push") /\ currentSize' = currentSize + 1
    BY <1>8 DEF increaseCurrentSize
  <2>2. check' = check /\ grow' = grow - 1 BY <2>1, GotoMoves
  <2> QED BY <1>1, <1>2, <2>1, <2>2
<1> QED BY <1>4, <1>5, <1>6, <1>7, <1>8 DEF Next, Step

\* Whatever the race in Get does, the pool never allocates more buffers than
\* there are goroutines that use it.
THEOREM AllocationIsOnDemand == Spec => []AllocatesOnDemand
BY InitAllocates, StepAllocates, BuffersAreConserved, TypeCorrect, PTL DEF Spec

=============================================================================
