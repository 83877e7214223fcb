----------------------------- MODULE BufferPool -----------------------------
(***************************************************************************)
(* SizedBytePool of the log collector                                      *)
(* (server/go/framework/common/bufferpool/sizedbytepool.go): a pool of     *)
(* byte buffers backed by a buffered channel.  Get polls the channel and,  *)
(* when it finds it empty, allocates a buffer unless the pool has reached  *)
(* its size; Put sends the buffer back.  The size is read and increased    *)
(* under sizeLock, but in two separate critical sections.                  *)
(*                                                                         *)
(* A buffer is only counted here: what it holds matters to its users (see  *)
(* LogReads).  Every caller puts back exactly the buffer Get gave it, so   *)
(* Put's discard of a buffer that is too small never happens.              *)
(***************************************************************************)
EXTENDS Naturals, FiniteSets

CONSTANTS
    Procs,        \* the goroutines that use the pool
    MaxPoolSize   \* poolSize: the capacity of the channel and the maximum size

ASSUME ProcsAssumption == IsFiniteSet(Procs) /\ Procs # {}
ASSUME PoolSizeAssumption == MaxPoolSize \in Nat \ {0}

VARIABLES
    pc,           \* where each goroutine is
    currentSize,  \* buffers the pool believes it has allocated
    bufferChan    \* number of buffers in the channel

vars == <<pc, currentSize, bufferChan>>

-----------------------------------------------------------------------------

(***************************************************************************)
(* "recv", "check", "grow" and "push" are the steps of Get; "hold" is the  *)
(* caller between Get and Put; "put" is the send of Put.                   *)
(***************************************************************************)
PCs == {"idle", "recv", "check", "grow", "push", "hold", "put"}

InGet == {"recv", "check", "grow", "push"}

At(location) == {p \in Procs : pc[p] = location}

Goto(p, from, to) == pc[p] = from /\ pc' = [pc EXCEPT ![p] = to]

Init ==
    /\ pc = [p \in Procs |-> "idle"]
    /\ currentSize = 0
    /\ bufferChan = 0

-----------------------------------------------------------------------------

\* A goroutine calls Get.
CallGet(p) ==
    /\ Goto(p, "idle", "recv")
    /\ UNCHANGED <<currentSize, bufferChan>>

\* case buf := <-p.bufferChan
Receive(p) ==
    /\ bufferChan > 0
    /\ Goto(p, "recv", "hold")
    /\ bufferChan' = bufferChan - 1
    /\ UNCHANGED currentSize

\* Mutant of ReceiveDefault: the channel is not polled first.
ReceiveDefaultEager(p) ==
    /\ Goto(p, "recv", "check")
    /\ UNCHANGED <<currentSize, bufferChan>>

\* default: the channel is empty
ReceiveDefault(p) ==
    /\ bufferChan = 0
    /\ Goto(p, "recv", "check")
    /\ UNCHANGED <<currentSize, bufferChan>>

\* Mutant of CheckPoolSize: the comparison is the wrong way round.
CheckPoolSizeReversed(p) ==
    /\ Goto(p, "check", IF currentSize > MaxPoolSize THEN "grow" ELSE "recv")
    /\ UNCHANGED <<currentSize, bufferChan>>

\* p.PoolSize() < p.maxPoolSize, under the lock, which is released again
CheckPoolSize(p) ==
    /\ Goto(p, "check", IF currentSize < MaxPoolSize THEN "grow" ELSE "recv")
    /\ UNCHANGED <<currentSize, bufferChan>>

increaseCurrentSize(p) ==
    /\ Goto(p, "grow", "push")
    /\ currentSize' = currentSize + 1
    /\ UNCHANGED bufferChan

\* Mutant of PushNew: a send that does not wait for room in the channel.
PushNewUnbounded(p) ==
    /\ Goto(p, "push", "recv")
    /\ bufferChan' = bufferChan + 1
    /\ UNCHANGED currentSize

\* The send of a new buffer blocks while the channel is full.
PushNew(p) ==
    /\ bufferChan < MaxPoolSize
    /\ Goto(p, "push", "recv")
    /\ bufferChan' = bufferChan + 1
    /\ UNCHANGED currentSize

\* The caller is done with its buffer and calls Put.
CallPut(p) ==
    /\ Goto(p, "hold", "put")
    /\ UNCHANGED <<currentSize, bufferChan>>

\* Mutant of Put: the buffer is dropped instead of sent back.
PutDropped(p) ==
    /\ Goto(p, "put", "idle")
    /\ UNCHANGED <<currentSize, bufferChan>>

\* The send in Put, which blocks while the channel is full as well.
Put(p) ==
    /\ bufferChan < MaxPoolSize
    /\ Goto(p, "put", "idle")
    /\ bufferChan' = bufferChan + 1
    /\ UNCHANGED currentSize

Step(p) ==
    \/ Receive(p)
    \/ ReceiveDefault(p)
    \/ CheckPoolSize(p)
    \/ increaseCurrentSize(p)
    \/ PushNew(p)
    \/ CallPut(p)
    \/ Put(p)

Next == \E p \in Procs : CallGet(p) \/ Step(p)

Spec == Init /\ [][Next]_vars

(***************************************************************************)
(* A goroutine that entered Get, holds a buffer or entered Put goes on     *)
(* when it can; nothing obliges it to call Get again.                      *)
(***************************************************************************)
Fairness == \A p \in Procs : WF_vars(Step(p))

FairSpec == Spec /\ Fairness

-----------------------------------------------------------------------------

TypeOK ==
    /\ pc \in [Procs -> PCs]
    /\ currentSize \in Nat
    /\ bufferChan \in 0..MaxPoolSize

(***************************************************************************)
(* Every buffer counted in currentSize is in exactly one place: in the     *)
(* channel, on its way into it, or with one goroutine.  No interleaving of *)
(* Get and Put loses a buffer or hands one to two callers.                 *)
(***************************************************************************)
BuffersConserved ==
    bufferChan + Cardinality(At("push")) + Cardinality(At("hold"))
        + Cardinality(At("put")) = currentSize

(***************************************************************************)
(* What Get still guarantees when its size check races: a buffer is        *)
(* allocated only for a goroutine that found every other one in use, so    *)
(* the buffers, with those about to be allocated, are never more than the  *)
(* goroutines that use the pool.                                           *)
(***************************************************************************)
AllocatesOnDemand ==
    currentSize + Cardinality(At("check")) + Cardinality(At("grow"))
        <= Cardinality(Procs)

(***************************************************************************)
(* What the comment of SizedBytePool and of its constructor promise: a     *)
(* pool "with a max size".                                                 *)
(***************************************************************************)
PoolSizeRespected == currentSize <= MaxPoolSize

(***************************************************************************)
(* When a goroutine is in Get, some goroutine eventually gets a buffer.    *)
(* (One goroutine may starve: Get polls the channel and can find it empty  *)
(* every time.)  The comment of Get says that the call blocks "until a     *)
(* buffer is available"; a goroutine that allocated one buffer too many    *)
(* blocks in its send to the full channel, with every buffer available.    *)
(***************************************************************************)
SomeoneGetsABuffer ==
    (\E p \in Procs : pc[p] \in InGet) ~> (\E p \in Procs : pc[p] = "hold")

\* A call of Put returns: the send of a buffer to the channel does not block.
PutReturns == \A p \in Procs : (pc[p] = "put") ~> (pc[p] = "idle")

(***************************************************************************)
(* Over-allocation is the only way to stall: as long as the pool respects  *)
(* its size, Get and Put make progress.                                    *)
(***************************************************************************)
NoStallWithinSize ==
    []PoolSizeRespected => SomeoneGetsABuffer /\ PutReturns

=============================================================================
