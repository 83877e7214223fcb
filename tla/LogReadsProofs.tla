--------------------------- MODULE LogReadsProofs ---------------------------
(***************************************************************************)
(* Proofs about LogReads.  For any readers, buffers and faults, no chunk   *)
(* exceeds a buffer and no answer exceeds the file.  If streams do not     *)
(* break half-way and size and offset do not overflow, an answer is as     *)
(* long as it should be, however many readers share the buffers, and to a  *)
(* single reader it is the part of the file that was asked for.            *)
(***************************************************************************)
EXTENDS LogReads, SequenceTheorems, TLAPS

USE ReadsAssumption

-----------------------------------------------------------------------------
(***************************************************************************)
(* The invariant of any readers.                                           *)
(***************************************************************************)

Bytes == (Runs \cup {"none"}) \X Int

ReaderStates ==
    [pc : {"idle", "request", "read", "send", "failed", "done", "error"},
     run : Runs, size : Sizes \cup {0}, offset : Offsets \cup {0}, end : Int,
     total : 0..MaxLen,
     slice : [buf : Buffers, len : 0..BufferSize, asked : Int],
     out : Seq(Bytes), tries : 0..MaxRetries, goal : -1..MaxLen]

Typed ==
    /\ fileSize \in [Runs -> -1..MaxLen]
    /\ buffer \in [Buffers -> [1..BufferSize -> Bytes]]
    /\ reader \in [Readers -> ReaderStates]

\* A chunk was within the file when it was read, and an error ends the tries.
Bounded ==
    \A q \in Readers :
        /\ reader[q].pc = "send" =>
              \/ reader[q].slice.len = 0
              \/ reader[q].offset + reader[q].total + reader[q].slice.len <= MaxLen
        /\ reader[q].pc # "error" => reader[q].tries < MaxRetries

ReadersInv == Typed /\ Bounded

-----------------------------------------------------------------------------
(***************************************************************************)
(* The invariant of answers.  What it says of lengths holds for any        *)
(* readers, what it says of bytes for a single one.                        *)
(***************************************************************************)

SingleReader == \A p, q \in Readers : p = q

\* A single reader has yielded what the file holds from its offset on.
Continues(q) ==
    SingleReader =>
        \A i \in 1..Len(reader[q].out) :
            reader[q].out[i] = <<reader[q].run, reader[q].offset + i - 1>>

Yielded(q) == Len(reader[q].out) = reader[q].total /\ Continues(q)

\* The end of the answer, and that the file reaches it until it is deleted.
EndFits(q) ==
    LET x == reader[q]
    IN  /\ x.size # 0 /\ x.offset < x.end
        /\ x.size > 0 => x.end <= x.offset + x.size
                         /\ (x.end >= x.goal \/ x.end = x.offset + x.size)
        /\ x.size < 0 => x.end >= x.goal
        /\ fileSize[x.run] < 0 \/ x.end <= fileSize[x.run]

\* The chunk to send is all that was asked for, and a single reader's is still in
\* its buffer.
ChunkFits(q) ==
    LET x == reader[q]
    IN  /\ x.slice.len > 0 /\ x.slice.len = x.slice.asked
        /\ x.offset + x.total + x.slice.len <= x.end
        /\ SingleReader =>
              \A i \in 1..x.slice.len :
                  buffer[x.slice.buf][i] = <<x.run, x.offset + x.total + i - 1>>

\* The file was not cut since the request came in, only deleted.
GoalFits(q) ==
    fileSize[reader[q].run] < 0 \/ reader[q].goal <= fileSize[reader[q].run]

\* The answer is the part of the file that was asked for.
AnswerFits(q) ==
    LET x == reader[q]
    IN  /\ Continues(q)
        /\ Len(x.out) >= AnswerLength(q, x.goal)
        /\ x.size > 0 => Len(x.out) <= x.size

\* A reader that starts again has yielded nothing, or its file is gone.
StartsOver(q) ==
    \/ reader[q].out = <<>>
    \/ fileSize[reader[q].run] < 0 /\ reader[q].size # 0

ReaderInv(q) ==
    LET pc == reader[q].pc
    IN  /\ pc \in {"request", "failed"} => StartsOver(q) /\ GoalFits(q)
        /\ pc \in {"read", "send"} => Yielded(q) /\ EndFits(q) /\ GoalFits(q)
        /\ pc = "read" => reader[q].offset + reader[q].total < reader[q].end
        /\ pc = "send" => ChunkFits(q)
        /\ pc = "done" => AnswerFits(q)

Answered == \A q \in Readers : ReaderInv(q)

-----------------------------------------------------------------------------
(***************************************************************************)
(* What the actions do to a reader.                                        *)
(***************************************************************************)

Becomes(q, pc, end, total, slice, out, tries) ==
    /\ reader' \in [Readers -> ReaderStates]
    /\ \A p \in Readers : p # q => reader'[p] = reader[p]
    /\ reader'[q].run = reader[q].run /\ reader'[q].size = reader[q].size
    /\ reader'[q].offset = reader[q].offset /\ reader'[q].goal = reader[q].goal
    /\ reader'[q].pc = pc /\ reader'[q].end = end /\ reader'[q].total = total
    /\ reader'[q].slice = slice /\ reader'[q].out = out /\ reader'[q].tries = tries

LEMMA RecordBecomes ==
    ASSUME Typed, NEW q \in Readers,
           NEW pc \in {"idle", "request", "read", "send", "failed", "done", "error"},
           NEW end \in Int, NEW total \in 0..MaxLen,
           NEW slice \in [buf : Buffers, len : 0..BufferSize, asked : Int],
           NEW out \in Seq(Bytes), NEW tries \in 0..MaxRetries,
           reader' = [reader EXCEPT ![q] = reader'[q]],
           reader'[q] = [pc |-> pc, run |-> reader[q].run, size |-> reader[q].size,
                         offset |-> reader[q].offset, end |-> end, total |-> total,
                         slice |-> slice, out |-> out, tries |-> tries,
                         goal |-> reader[q].goal]
    PROVE  Becomes(q, pc, end, total, slice, out, tries)
<1>1. reader[q] \in ReaderStates BY DEF Typed
<1>2. /\ reader[q].run \in Runs /\ reader[q].size \in Sizes \cup {0}
      /\ reader[q].offset \in Offsets \cup {0} /\ reader[q].goal \in -1..MaxLen
  BY <1>1 DEF ReaderStates
<1>3. reader'[q] \in ReaderStates BY <1>2 DEF ReaderStates
<1>4. reader' \in [Readers -> ReaderStates] BY <1>3 DEF Typed
<1>5. \A p \in Readers : p # q => reader'[p] = reader[p] BY DEF Typed
<1> QED BY <1>4, <1>5 DEF Becomes

LEMMA NoSliceType ==
    /\ NoSlice \in [buf : Buffers, len : 0..BufferSize, asked : Int]
    /\ NoSlice.len = 0 /\ NoSlice.buf \in Buffers
BY DEF NoSlice

LEMMA IdleType == Idle \in ReaderStates /\ Idle.pc = "idle" /\ Idle.tries = 0
<1>1. /\ (CHOOSE r \in Runs : TRUE) \in Runs /\ <<>> \in Seq(Bytes)
      /\ 0 \in 0..MaxLen /\ 0 \in 0..MaxRetries /\ 0 \in -1..MaxLen
  OBVIOUS
<1> QED BY <1>1, NoSliceType DEF Idle, ReaderStates

LEMMA ReaderFields ==
    ASSUME Typed, NEW q \in Readers
    PROVE  /\ reader[q] \in ReaderStates
           /\ reader[q].run \in Runs /\ fileSize[reader[q].run] \in -1..MaxLen
           /\ reader[q].size \in Int /\ reader[q].size <= MaxInt /\ reader[q].size >= -1
           /\ reader[q].size \in Sizes \cup {0}
           /\ reader[q].offset \in Nat /\ reader[q].offset <= MaxInt
           /\ reader[q].end \in Int /\ reader[q].total \in 0..MaxLen
           /\ reader[q].slice \in [buf : Buffers, len : 0..BufferSize, asked : Int]
           /\ reader[q].slice.buf \in Buffers /\ reader[q].slice.len \in 0..BufferSize
           /\ reader[q].slice.asked \in Int
           /\ reader[q].out \in Seq(Bytes) /\ reader[q].tries \in 0..MaxRetries
           /\ reader[q].goal \in -1..MaxLen
           /\ reader[q].pc \in {"idle", "request", "read", "send", "failed", "done", "error"}
<1>1. reader[q] \in ReaderStates BY DEF Typed
<1>2. /\ reader[q].run \in Runs /\ reader[q].size \in Sizes \cup {0}
      /\ reader[q].offset \in Offsets \cup {0} /\ reader[q].end \in Int
      /\ reader[q].total \in 0..MaxLen
      /\ reader[q].slice \in [buf : Buffers, len : 0..BufferSize, asked : Int]
      /\ reader[q].out \in Seq(Bytes) /\ reader[q].tries \in 0..MaxRetries
      /\ reader[q].goal \in -1..MaxLen
      /\ reader[q].pc \in {"idle", "request", "read", "send", "failed", "done", "error"}
  BY <1>1 DEF ReaderStates
<1>3. fileSize[reader[q].run] \in -1..MaxLen BY <1>2 DEF Typed
<1>4. reader[q].size \in -1..MaxInt /\ reader[q].offset \in 0..MaxInt
  <2>1. \A n \in Sizes \cup {0} : n \in -1..MaxInt OBVIOUS
  <2>2. \A n \in Offsets \cup {0} : n \in 0..MaxInt OBVIOUS
  <2> QED BY <1>2, <2>1, <2>2
<1>5. /\ reader[q].slice.buf \in Buffers /\ reader[q].slice.len \in 0..BufferSize
      /\ reader[q].slice.asked \in Int
  BY <1>2
<1>6. /\ reader[q].size \in Int /\ reader[q].size <= MaxInt /\ reader[q].size >= -1
      /\ reader[q].offset \in Nat /\ reader[q].offset <= MaxInt
  BY <1>4
<1> QED BY <1>1, <1>2, <1>3, <1>5, <1>6

\* A new request.
LEMMA GetLogsBegins ==
    ASSUME Typed, NEW q \in Readers, NEW r \in Runs, NEW size \in Sizes, NEW offset \in Offsets,
           get_logs(q, r, size, offset)
    PROVE  /\ reader' \in [Readers -> ReaderStates]
           /\ \A p \in Readers : p # q => reader'[p] = reader[p]
           /\ reader'[q].pc = IF fileSize[r] <= 0 THEN "done" ELSE "request"
           /\ reader'[q].run = r /\ reader'[q].size = size /\ reader'[q].offset = offset
           /\ reader'[q].goal = fileSize[r] /\ reader'[q].out = <<>> /\ reader'[q].tries = 0
<1> DEFINE pc == IF fileSize[r] <= 0 THEN "done" ELSE "request"
<1>1. /\ reader' = [reader EXCEPT ![q] = reader'[q]]
      /\ reader'[q] = [Idle EXCEPT !.pc = pc, !.run = r, !.size = size, !.offset = offset,
                                   !.goal = fileSize[r]]
  BY DEF get_logs, Typed
<1>2. pc \in {"done", "request"} OBVIOUS
<1> HIDE DEF pc
<1>3. reader'[q] = [pc |-> pc, run |-> r, size |-> size, offset |-> offset, end |-> 0,
                    total |-> 0, slice |-> NoSlice, out |-> <<>>, tries |-> 0,
                    goal |-> fileSize[r]]
  BY <1>1 DEF Idle
<1>4. fileSize[r] \in -1..MaxLen BY DEF Typed
<1>5. /\ <<>> \in Seq(Bytes) /\ 0 \in 0..MaxLen /\ 0 \in 0..MaxRetries
  OBVIOUS
<1>6. reader'[q] \in ReaderStates BY <1>2, <1>3, <1>4, <1>5, NoSliceType DEF ReaderStates
<1>7. /\ reader' \in [Readers -> ReaderStates]
      /\ \A p \in Readers : p # q => reader'[p] = reader[p]
  BY <1>1, <1>6 DEF Typed
<1> QED BY <1>3, <1>7 DEF pc

LEMMA FailsBecomes ==
    ASSUME Typed, NEW q \in Readers,
           reader' = [reader EXCEPT ![q] = reader'[q]],
           reader'[q] = [reader[q] EXCEPT !.pc = "failed"]
    PROVE  Becomes(q, "failed", reader[q].end, reader[q].total, reader[q].slice,
                   reader[q].out, reader[q].tries)
<1>1. reader[q] \in ReaderStates BY DEF Typed
<1>2. reader'[q] = [pc |-> "failed", run |-> reader[q].run, size |-> reader[q].size,
                    offset |-> reader[q].offset, end |-> reader[q].end,
                    total |-> reader[q].total, slice |-> reader[q].slice,
                    out |-> reader[q].out, tries |-> reader[q].tries,
                    goal |-> reader[q].goal]
  BY <1>1 DEF ReaderStates
<1> QED BY <1>2, ReaderFields, RecordBecomes

LEMMA RetryBecomes ==
    ASSUME ReadersInv, NEW q \in Readers, RetryGetLogs(q)
    PROVE  /\ reader[q].tries + 1 \in 0..MaxRetries
           /\ Becomes(q, IF reader[q].tries + 1 = MaxRetries THEN "error" ELSE "request",
                      reader[q].end, reader[q].total, reader[q].slice, reader[q].out,
                      reader[q].tries + 1)
<1> DEFINE pc == IF reader[q].tries + 1 = MaxRetries THEN "error" ELSE "request"
<1>1. /\ reader' = [reader EXCEPT ![q] = reader'[q]]
      /\ reader'[q] = [reader[q] EXCEPT !.tries = @ + 1, !.pc = pc]
  BY DEF ReadersInv, Typed, RetryGetLogs
<1>2. reader[q] \in ReaderStates BY DEF ReadersInv, Typed
<1>3. pc \in {"error", "request"} OBVIOUS
<1> HIDE DEF pc
<1>4. reader'[q] = [pc |-> pc, run |-> reader[q].run, size |-> reader[q].size,
                    offset |-> reader[q].offset, end |-> reader[q].end,
                    total |-> reader[q].total, slice |-> reader[q].slice,
                    out |-> reader[q].out, tries |-> reader[q].tries + 1,
                    goal |-> reader[q].goal]
  BY <1>1, <1>2 DEF ReaderStates
<1>5. reader[q].tries + 1 \in 0..MaxRetries
  <2>1. reader[q].tries \in 0..MaxRetries BY ReaderFields DEF ReadersInv
  <2>2. reader[q].tries < MaxRetries BY DEF ReadersInv, Bounded, RetryGetLogs
  <2> QED BY <2>1, <2>2
<1>6. Becomes(q, pc, reader[q].end, reader[q].total, reader[q].slice, reader[q].out,
              reader[q].tries + 1)
  <2>1. Typed BY DEF ReadersInv
  <2>2. pc \in {"idle", "request", "read", "send", "failed", "done", "error"} BY <1>3
  <2>3. /\ reader[q].end \in Int /\ reader[q].total \in 0..MaxLen
        /\ reader[q].slice \in [buf : Buffers, len : 0..BufferSize, asked : Int]
        /\ reader[q].out \in Seq(Bytes)
    BY <2>1, ReaderFields
  <2>4. reader' = [reader EXCEPT ![q] = reader'[q]] BY <1>1
  <2> QED BY <1>4, <1>5, <2>1, <2>2, <2>3, <2>4, RecordBecomes
<1> QED BY <1>5, <1>6 DEF pc

LEMMA GetLogsRecord ==
    ASSUME Typed, NEW q \in Readers, GetLogs(q)
    PROVE  LET r == reader[q].run
               pc == CASE reader[q].size = 0 -> "done"
                       [] reader[q].size # 0 /\ fileSize[r] < 0 -> "failed"
                       [] reader[q].size # 0 /\ fileSize[r] >= 0
                            /\ fileSize[r] - reader[q].offset <= 0 -> "done"
                       [] OTHER -> "read"
           IN  pc \in {"done", "failed", "read"} =>
                 Becomes(q, pc, EndIndex(reader[q].size, reader[q].offset, fileSize[r]), 0,
                         NoSlice, reader[q].out, reader[q].tries)
<1> DEFINE r == reader[q].run
           pc == CASE reader[q].size = 0 -> "done"
                   [] reader[q].size # 0 /\ fileSize[r] < 0 -> "failed"
                   [] reader[q].size # 0 /\ fileSize[r] >= 0
                        /\ fileSize[r] - reader[q].offset <= 0 -> "done"
                   [] OTHER -> "read"
           end == EndIndex(reader[q].size, reader[q].offset, fileSize[r])
<1>1. reader' = [reader EXCEPT ![q].pc = pc, ![q].end = end, ![q].total = 0,
                               ![q].slice = NoSlice]
  BY DEF GetLogs
<1>2. end \in Int BY ReaderFields DEF EndIndex, Wrap, Least
<1> SUFFICES ASSUME pc \in {"done", "failed", "read"}
    PROVE  Becomes(q, pc, end, 0, NoSlice, reader[q].out, reader[q].tries)
  OBVIOUS
<1> HIDE DEF pc, end
<1>3. /\ reader[q] \in ReaderStates /\ reader' = [reader EXCEPT ![q] = reader'[q]]
      /\ reader'[q] = [reader[q] EXCEPT !.pc = pc, !.end = end, !.total = 0,
                                        !.slice = NoSlice]
  BY <1>1 DEF Typed
<1>4. reader'[q] = [pc |-> pc, run |-> reader[q].run, size |-> reader[q].size,
                    offset |-> reader[q].offset, end |-> end, total |-> 0,
                    slice |-> NoSlice, out |-> reader[q].out, tries |-> reader[q].tries,
                    goal |-> reader[q].goal]
  BY <1>3 DEF ReaderStates
<1>5. 0 \in 0..MaxLen /\ reader[q].out \in Seq(Bytes) /\ reader[q].tries \in 0..MaxRetries
  BY ReaderFields
<1>6. pc \in {"idle", "request", "read", "send", "failed", "done", "error"} OBVIOUS
<1> QED BY <1>2, <1>3, <1>4, <1>5, <1>6, NoSliceType, RecordBecomes

\* The answer of GetLogs before its loop.
LEMMA GetLogsBecomes ==
    ASSUME Typed, NEW q \in Readers, GetLogs(q)
    PROVE  \E pc \in {"done", "failed", "read"} :
              /\ Becomes(q, pc,
                         EndIndex(reader[q].size, reader[q].offset, fileSize[reader[q].run]),
                         0, NoSlice, reader[q].out, reader[q].tries)
              /\ pc = "done" => \/ reader[q].size = 0
                                \/ /\ fileSize[reader[q].run] >= 0
                                   /\ fileSize[reader[q].run] <= reader[q].offset
              /\ pc = "failed" => reader[q].size # 0 /\ fileSize[reader[q].run] < 0
              /\ pc = "read" => /\ reader[q].size # 0
                                /\ reader[q].offset < fileSize[reader[q].run]
<1> DEFINE f == fileSize[reader[q].run]
           pc == CASE reader[q].size = 0 -> "done"
                   [] reader[q].size # 0 /\ f < 0 -> "failed"
                   [] reader[q].size # 0 /\ f >= 0 /\ f - reader[q].offset <= 0 -> "done"
                   [] OTHER -> "read"
           end == EndIndex(reader[q].size, reader[q].offset, f)
<1>1. /\ f \in Int /\ reader[q].offset \in Int /\ reader[q].size \in Int BY ReaderFields
<1>2. CASE reader[q].size = 0
  <2>1. pc = "done" BY <1>2
  <2> QED BY <1>2, <2>1, GetLogsRecord
<1>3. CASE reader[q].size # 0 /\ f < 0
  <2>1. pc = "failed" BY <1>1, <1>3
  <2> QED BY <1>3, <2>1, GetLogsRecord
<1>4. CASE reader[q].size # 0 /\ f >= 0 /\ f - reader[q].offset <= 0
  <2>1. pc = "done" BY <1>1, <1>4
  <2> QED BY <1>1, <1>4, <2>1, GetLogsRecord
<1>5. CASE reader[q].size # 0 /\ f >= 0 /\ ~(f - reader[q].offset <= 0)
  <2>1. pc = "read" BY <1>1, <1>5
  <2> QED BY <1>1, <1>5, <2>1, GetLogsRecord
<1> QED BY <1>1, <1>2, <1>3, <1>4, <1>5

Asked(q) == getChunkSize(reader[q].offset, reader[q].total, reader[q].end)

ReadSize(q) ==
    validateSize(reader[q].offset + reader[q].total, Asked(q), fileSize[reader[q].run])

\* readLogsFromFile: no more than the buffer holds, and within the file.
LEMMA ReadBounds ==
    ASSUME Typed, NEW q \in Readers
    PROVE  /\ Asked(q) \in 0..BufferSize /\ ReadSize(q) \in Int
           /\ Asked(q) > 0 =>
                 Asked(q) <= reader[q].end - reader[q].total - reader[q].offset
           /\ Asked(q) = 0 => reader[q].offset + reader[q].total >= reader[q].end
           /\ Asked(q) > 0 /\ fileSize[reader[q].run] >= 0 /\ ReadSize(q) > 0 =>
                 /\ ReadSize(q) <= BufferSize
                 /\ reader[q].offset + reader[q].total + ReadSize(q)
                       <= fileSize[reader[q].run]
           /\ Asked(q) > 0 /\ reader[q].end <= fileSize[reader[q].run] =>
                 ReadSize(q) = Asked(q)
<1> DEFINE offset == reader[q].offset
           total == reader[q].total
           end == reader[q].end
           current == fileSize[reader[q].run]
<1>1. offset \in Nat /\ total \in Nat /\ end \in Int /\ current \in Int BY ReaderFields
<1>2. /\ Asked(q) = getChunkSize(offset, total, end)
      /\ ReadSize(q) = validateSize(offset + total, Asked(q), current)
  BY DEF Asked, ReadSize
<1> HIDE DEF offset, total, end, current
<1>3. /\ Asked(q) \in 0..BufferSize
      /\ Asked(q) > 0 => Asked(q) <= end - total - offset
      /\ Asked(q) = 0 => offset + total >= end
  BY <1>1, <1>2 DEF getChunkSize, Least
<1>4. /\ ReadSize(q) \in Int
      /\ Asked(q) > 0 /\ current >= 0 /\ ReadSize(q) > 0 =>
            ReadSize(q) <= BufferSize /\ offset + total + ReadSize(q) <= current
      /\ Asked(q) > 0 /\ end <= current => ReadSize(q) = Asked(q)
  BY <1>1, <1>2, <1>3 DEF validateSize, Least
<1> QED BY <1>3, <1>4 DEF offset, total, end, current

\* Buffer b after a read at position at of the file of run r.
Filled(b, r, at) ==
    [i \in 1..BufferSize |-> IF at + i <= fileSize[r] THEN <<r, at + i - 1>> ELSE buffer[b][i]]

\* A chunk was read, or there is none to read.
LEMMA SliceBecomes ==
    ASSUME Typed, NEW q \in Readers,
           NEW slice \in [buf : Buffers, len : 0..BufferSize, asked : Int],
           reader' = [reader EXCEPT ![q] = reader'[q]],
           reader'[q] = [reader[q] EXCEPT !.pc = "send", !.slice = slice]
    PROVE  Becomes(q, "send", reader[q].end, reader[q].total, slice, reader[q].out,
                   reader[q].tries)
<1>1. reader[q] \in ReaderStates BY DEF Typed
<1>2. reader'[q] = [pc |-> "send", run |-> reader[q].run, size |-> reader[q].size,
                    offset |-> reader[q].offset, end |-> reader[q].end,
                    total |-> reader[q].total, slice |-> slice,
                    out |-> reader[q].out, tries |-> reader[q].tries,
                    goal |-> reader[q].goal]
  BY <1>1 DEF ReaderStates
<1>3. /\ reader[q].end \in Int /\ reader[q].total \in 0..MaxLen
      /\ reader[q].out \in Seq(Bytes) /\ reader[q].tries \in 0..MaxRetries
  BY ReaderFields
<1> QED BY <1>2, <1>3, RecordBecomes

LEMMA ReadBecomes ==
    ASSUME Typed, NEW q \in Readers, ReadLogsFromFile(q)
    PROVE  LET x == reader[q]
           IN  \/ /\ Asked(q) > 0 /\ fileSize[x.run] < 0
                  /\ Becomes(q, "failed", x.end, x.total, x.slice, x.out, x.tries)
                  /\ buffer' = buffer
               \/ /\ Asked(q) = 0 \/ (fileSize[x.run] >= 0 /\ ReadSize(q) = 0)
                  /\ \E slice : /\ slice.len = 0 /\ buffer' = buffer
                                /\ Becomes(q, "send", x.end, x.total, slice, x.out, x.tries)
               \/ /\ Asked(q) > 0 /\ fileSize[x.run] >= 0 /\ ReadSize(q) > 0
                  /\ \E b \in Buffers :
                        /\ Becomes(q, "send", x.end, x.total,
                                   [buf |-> b, len |-> ReadSize(q), asked |-> Asked(q)],
                                   x.out, x.tries)
                        /\ buffer' = [buffer EXCEPT ![b] =
                                        Filled(b, x.run, x.offset + x.total)]
<1> DEFINE x == reader[q]
           r == reader[q].run
           at == reader[q].offset + reader[q].total
<1>2. /\ Asked(q) \in 0..BufferSize
      /\ Asked(q) > 0 /\ fileSize[r] >= 0 /\ ReadSize(q) > 0 => ReadSize(q) \in 0..BufferSize
  BY ReadBounds
<1>3. \/ /\ Asked(q) > 0 /\ fileSize[r] < 0
         /\ reader' = [reader EXCEPT ![q].pc = "failed"] /\ buffer' = buffer
      \/ /\ Asked(q) = 0 \/ (fileSize[r] >= 0 /\ ReadSize(q) = 0)
         /\ reader' = [reader EXCEPT ![q].pc = "send",
                         ![q].slice = [NoSlice EXCEPT !.asked = Asked(q)]]
         /\ buffer' = buffer
      \/ /\ Asked(q) > 0 /\ fileSize[r] >= 0 /\ ReadSize(q) > 0
         /\ \E b \in Buffers :
               /\ reader' = [reader EXCEPT ![q].pc = "send",
                     ![q].slice = [buf |-> b, len |-> ReadSize(q), asked |-> Asked(q)]]
               /\ buffer' = [buffer EXCEPT ![b] =
                     [i \in 1..BufferSize |->
                        IF at + i <= fileSize[r] THEN <<r, at + i - 1>> ELSE @[i]]]
  BY DEF ReadLogsFromFile, Asked, ReadSize
<1> HIDE DEF r, at
<1>4. CASE /\ Asked(q) > 0 /\ fileSize[r] < 0
           /\ reader' = [reader EXCEPT ![q].pc = "failed"] /\ buffer' = buffer
  <2>1. /\ reader' = [reader EXCEPT ![q] = reader'[q]]
        /\ reader'[q] = [reader[q] EXCEPT !.pc = "failed"]
    BY <1>4 DEF Typed
  <2> QED BY <1>4, <2>1, FailsBecomes DEF r
<1>5. CASE /\ Asked(q) = 0 \/ (fileSize[r] >= 0 /\ ReadSize(q) = 0)
           /\ reader' = [reader EXCEPT ![q].pc = "send",
                           ![q].slice = [NoSlice EXCEPT !.asked = Asked(q)]]
           /\ buffer' = buffer
  <2> DEFINE slice == [NoSlice EXCEPT !.asked = Asked(q)]
  <2>1. slice \in [buf : Buffers, len : 0..BufferSize, asked : Int] /\ slice.len = 0
    BY <1>2, NoSliceType
  <2>2. reader' = [reader EXCEPT ![q].pc = "send", ![q].slice = slice] BY <1>5
  <2> HIDE DEF slice
  <2>3. /\ reader' = [reader EXCEPT ![q] = reader'[q]]
        /\ reader'[q] = [reader[q] EXCEPT !.pc = "send", !.slice = slice]
    BY <2>2 DEF Typed
  <2>4. Becomes(q, "send", x.end, x.total, slice, x.out, x.tries)
    BY <2>1, <2>3, SliceBecomes
  <2> QED BY <1>5, <2>1, <2>4 DEF r
<1>6. CASE /\ Asked(q) > 0 /\ fileSize[r] >= 0 /\ ReadSize(q) > 0
           /\ \E b \in Buffers :
                 /\ reader' = [reader EXCEPT ![q].pc = "send",
                       ![q].slice = [buf |-> b, len |-> ReadSize(q), asked |-> Asked(q)]]
                 /\ buffer' = [buffer EXCEPT ![b] =
                       [i \in 1..BufferSize |->
                          IF at + i <= fileSize[r] THEN <<r, at + i - 1>> ELSE @[i]]]
  <2>1. PICK b \in Buffers :
          /\ reader' = [reader EXCEPT ![q].pc = "send",
                ![q].slice = [buf |-> b, len |-> ReadSize(q), asked |-> Asked(q)]]
          /\ buffer' = [buffer EXCEPT ![b] =
                [i \in 1..BufferSize |->
                   IF at + i <= fileSize[r] THEN <<r, at + i - 1>> ELSE @[i]]]
    BY <1>6
  <2> DEFINE slice == [buf |-> b, len |-> ReadSize(q), asked |-> Asked(q)]
  <2>2. slice \in [buf : Buffers, len : 0..BufferSize, asked : Int] BY <1>2, <1>6
  <2>3. reader' = [reader EXCEPT ![q].pc = "send", ![q].slice = slice] BY <2>1
  <2> HIDE DEF slice
  <2>4. /\ reader' = [reader EXCEPT ![q] = reader'[q]]
        /\ reader'[q] = [reader[q] EXCEPT !.pc = "send", !.slice = slice]
    BY <2>3 DEF Typed
  <2>5. Becomes(q, "send", x.end, x.total, slice, x.out, x.tries)
    BY <2>2, <2>4, SliceBecomes
  <2>6. buffer' = [buffer EXCEPT ![b] = Filled(b, r, at)]
    BY <2>1 DEF Filled
  <2> QED BY <1>6, <2>5, <2>6 DEF slice, r, at
<1> QED BY <1>3, <1>4, <1>5, <1>6

LEMMA SendBecomes ==
    ASSUME ReadersInv, NEW q \in Readers, SendChunk(q)
    PROVE  LET x == reader[q]
               total == x.total + x.slice.len
               out == x.out \o SubSeq(buffer[x.slice.buf], 1, x.slice.len)
           IN  /\ Becomes(q, IF total + x.offset >= x.end \/ x.slice.len < x.slice.asked
                             THEN "done" ELSE "read",
                          x.end, total, NoSlice, out, x.tries)
               /\ out \in Seq(Bytes)
<1> DEFINE x == reader[q]
           total == x.total + x.slice.len
           part == SubSeq(buffer[x.slice.buf], 1, x.slice.len)
           out == x.out \o part
           pc == IF total + x.offset >= x.end \/ x.slice.len < x.slice.asked
                 THEN "done" ELSE "read"
<1>1. Typed BY DEF ReadersInv
<1>2. /\ x \in ReaderStates /\ x.offset \in Nat /\ x.total \in 0..MaxLen
      /\ x.slice.len \in 0..BufferSize /\ x.slice.buf \in Buffers
      /\ x.out \in Seq(Bytes) /\ x.end \in Int /\ x.tries \in 0..MaxRetries
  BY <1>1, ReaderFields
<1>3. total \in 0..MaxLen
  <2>1. x.slice.len = 0 \/ x.offset + x.total + x.slice.len <= MaxLen
    BY DEF ReadersInv, Bounded, SendChunk
  <2>2. x.slice.len \in Nat /\ x.total \in Nat /\ x.total <= MaxLen /\ x.offset \in Nat
    BY <1>2
  <2> HIDE DEF x
  <2> QED BY <2>1, <2>2
<1>4. out \in Seq(Bytes)
  <2>1. buffer[x.slice.buf] \in [1..BufferSize -> Bytes] BY <1>1, <1>2 DEF Typed
  <2>2. buffer[x.slice.buf] \in Seq(Bytes) /\ Len(buffer[x.slice.buf]) = BufferSize
    BY <2>1
  <2>3. part \in Seq(Bytes) BY <1>2, <2>2, SubSeqProperties
  <2> HIDE DEF part
  <2> QED BY <1>2, <2>3, ConcatProperties
<1>5. reader' = [reader EXCEPT ![q].out = out, ![q].total = total, ![q].slice = NoSlice,
                               ![q].pc = pc]
  BY DEF SendChunk
<1>6. pc \in {"idle", "request", "read", "send", "failed", "done", "error"} OBVIOUS
<1> HIDE DEF pc, out, total
<1>7. /\ reader' = [reader EXCEPT ![q] = reader'[q]]
      /\ reader'[q] = [reader[q] EXCEPT !.out = out, !.total = total, !.slice = NoSlice,
                                        !.pc = pc]
  BY <1>1, <1>5 DEF Typed
<1>8. reader'[q] = [pc |-> pc, run |-> reader[q].run, size |-> reader[q].size,
                    offset |-> reader[q].offset, end |-> reader[q].end,
                    total |-> total, slice |-> NoSlice, out |-> out,
                    tries |-> reader[q].tries, goal |-> reader[q].goal]
  BY <1>2, <1>7 DEF ReaderStates
<1>9. Becomes(q, pc, x.end, total, NoSlice, out, x.tries)
  <2>1. reader' = [reader EXCEPT ![q] = reader'[q]] BY <1>7
  <2>2. /\ NoSlice \in [buf : Buffers, len : 0..BufferSize, asked : Int]
        /\ x.end \in Int /\ x.tries \in 0..MaxRetries
    BY <1>2, NoSliceType
  <2> QED BY <1>1, <1>3, <1>4, <1>6, <1>8, <2>1, <2>2, RecordBecomes
<1> QED BY <1>4, <1>9 DEF pc, out, total

-----------------------------------------------------------------------------
(***************************************************************************)
(* Any readers: the sizes stay within the buffer and the file.             *)
(***************************************************************************)

LEMMA BecomesBounded ==
    ASSUME ReadersInv, NEW q \in Readers, NEW pc, NEW end, NEW total, NEW slice, NEW out,
           NEW tries, Becomes(q, pc, end, total, slice, out, tries),
           fileSize' \in [Runs -> -1..MaxLen],
           buffer' \in [Buffers -> [1..BufferSize -> Bytes]],
           pc = "send" =>
              slice.len = 0 \/ reader[q].offset + total + slice.len <= MaxLen,
           pc # "error" => tries < MaxRetries
    PROVE  ReadersInv'
<1>1. Typed' BY DEF Becomes, Typed
<1>2. Bounded'
  <2> SUFFICES ASSUME NEW p \in Readers
      PROVE  /\ reader'[p].pc = "send" =>
                   \/ reader'[p].slice.len = 0
                   \/ reader'[p].offset + reader'[p].total + reader'[p].slice.len <= MaxLen
             /\ reader'[p].pc # "error" => reader'[p].tries < MaxRetries
    BY DEF Bounded
  <2>1. CASE p = q BY <2>1 DEF Becomes
  <2>2. CASE p # q
    <3>1. reader'[p] = reader[p] BY <2>2 DEF Becomes
    <3> QED BY <3>1 DEF ReadersInv, Bounded
  <2> QED BY <2>1, <2>2
<1> QED BY <1>1, <1>2 DEF ReadersInv

\* Readers that do not move stay within the bounds.
LEMMA OthersBounded ==
    ASSUME ReadersInv, reader' = reader, buffer' = buffer,
           fileSize' \in [Runs -> -1..MaxLen]
    PROVE  ReadersInv'
BY DEF ReadersInv, Typed, Bounded

LEMMA ReadersInit == Init => ReadersInv
<1> SUFFICES ASSUME Init PROVE ReadersInv
  OBVIOUS
<1>1. fileSize \in [Runs -> -1..MaxLen]
  <2>1. \A n \in {-1, 0, 1} : n \in -1..MaxLen OBVIOUS
  <2> QED BY <2>1 DEF Init
<1>2. buffer \in [Buffers -> [1..BufferSize -> Bytes]]
  <2>1. \A i \in 1..BufferSize : <<"none", i>> \in Bytes BY DEF Bytes
  <2> QED BY <2>1 DEF Init
<1>3. reader \in [Readers -> ReaderStates] BY IdleType DEF Init
<1>4. Bounded BY IdleType DEF Init, Bounded
<1> QED BY <1>1, <1>2, <1>3, <1>4 DEF ReadersInv, Typed

LEMMA GetLogsCallBounded ==
    ASSUME ReadersInv, NEW q \in Readers, NEW r \in Runs, NEW size \in Sizes,
           NEW offset \in Offsets, get_logs(q, r, size, offset)
    PROVE  ReadersInv'
<1>1. Typed /\ fileSize' = fileSize /\ buffer' = buffer BY DEF ReadersInv, get_logs
<1>2. Typed' BY <1>1, GetLogsBegins DEF Typed
<1>3. Bounded'
  <2> SUFFICES ASSUME NEW p \in Readers
      PROVE  /\ reader'[p].pc = "send" =>
                   \/ reader'[p].slice.len = 0
                   \/ reader'[p].offset + reader'[p].total + reader'[p].slice.len <= MaxLen
             /\ reader'[p].pc # "error" => reader'[p].tries < MaxRetries
    BY DEF Bounded
  <2>1. CASE p = q
    <3>1. reader'[q].pc # "send" /\ reader'[q].tries = 0 BY <1>1, GetLogsBegins
    <3> QED BY <2>1, <3>1
  <2>2. CASE p # q
    <3>1. reader'[p] = reader[p] BY <1>1, <2>2, GetLogsBegins
    <3> QED BY <3>1 DEF ReadersInv, Bounded
  <2> QED BY <2>1, <2>2
<1> QED BY <1>2, <1>3 DEF ReadersInv

LEMMA ReadBounded ==
    ASSUME ReadersInv, NEW q \in Readers, ReadLogsFromFile(q)
    PROVE  ReadersInv'
<1> DEFINE x == reader[q]
<1>1. /\ Typed /\ fileSize' = fileSize /\ fileSize \in [Runs -> -1..MaxLen]
      /\ buffer \in [Buffers -> [1..BufferSize -> Bytes]]
  BY DEF ReadersInv, Typed, ReadLogsFromFile
<1>2. x.tries < MaxRetries BY DEF ReadersInv, Bounded, ReadLogsFromFile
<1>3. x.run \in Runs /\ fileSize[x.run] \in -1..MaxLen /\ x.offset \in Nat /\ x.total \in Nat
  BY <1>1, ReaderFields
<1>4. CASE /\ Becomes(q, "failed", x.end, x.total, x.slice, x.out, x.tries)
           /\ buffer' = buffer
  BY <1>1, <1>2, <1>4, BecomesBounded
<1>5. CASE \E slice : /\ slice.len = 0 /\ buffer' = buffer
                      /\ Becomes(q, "send", x.end, x.total, slice, x.out, x.tries)
  BY <1>1, <1>2, <1>5, BecomesBounded
<1>6. CASE /\ Asked(q) > 0 /\ fileSize[x.run] >= 0 /\ ReadSize(q) > 0
           /\ \E b \in Buffers :
                 /\ Becomes(q, "send", x.end, x.total,
                            [buf |-> b, len |-> ReadSize(q), asked |-> Asked(q)],
                            x.out, x.tries)
                 /\ buffer' = [buffer EXCEPT ![b] = Filled(b, x.run, x.offset + x.total)]
  <2>1. PICK b \in Buffers :
          /\ Becomes(q, "send", x.end, x.total,
                     [buf |-> b, len |-> ReadSize(q), asked |-> Asked(q)], x.out, x.tries)
          /\ buffer' = [buffer EXCEPT ![b] = Filled(b, x.run, x.offset + x.total)]
    BY <1>6
  <2>2. Filled(b, x.run, x.offset + x.total) \in [1..BufferSize -> Bytes]
    <3> DEFINE at == x.offset + x.total
    <3>1. at \in Int BY <1>3
    <3> HIDE DEF at
    <3>2. \A i \in 1..BufferSize : <<x.run, at + i - 1>> \in Bytes
      BY <1>3, <3>1 DEF Bytes
    <3>3. \A i \in 1..BufferSize : buffer[b][i] \in Bytes BY <1>1
    <3> QED BY <3>2, <3>3 DEF Filled, at
  <2>3. buffer' \in [Buffers -> [1..BufferSize -> Bytes]] BY <1>1, <2>1, <2>2
  <2>4. x.offset + x.total + ReadSize(q) <= MaxLen
    <3>1. x.offset + x.total + ReadSize(q) <= fileSize[x.run] /\ ReadSize(q) \in Int
      BY <1>1, <1>6, ReadBounds
    <3> QED BY <1>3, <3>1
  <2> DEFINE slice == [buf |-> b, len |-> ReadSize(q), asked |-> Asked(q)]
  <2>5. slice.len = ReadSize(q) OBVIOUS
  <2>6. Becomes(q, "send", x.end, x.total, slice, x.out, x.tries) BY <2>1
  <2> HIDE DEF slice
  <2> QED BY <1>1, <1>2, <2>3, <2>4, <2>5, <2>6, BecomesBounded
<1> QED BY <1>1, <1>4, <1>5, <1>6, ReadBecomes

LEMMA ReadersStep ==
    ASSUME ReadersInv, [Next]_vars
    PROVE  ReadersInv'
<1>1. Typed /\ fileSize \in [Runs -> -1..MaxLen]
      /\ buffer \in [Buffers -> [1..BufferSize -> Bytes]]
  BY DEF ReadersInv, Typed
<1>2. ASSUME NEW q \in Readers, NEW r \in Runs, NEW size \in Sizes, NEW offset \in Offsets,
             get_logs(q, r, size, offset)
      PROVE  ReadersInv'
  BY <1>2, GetLogsCallBounded
<1>3. ASSUME NEW q \in Readers, RetryGetLogs(q)
      PROVE  ReadersInv'
  <2> DEFINE pc == IF reader[q].tries + 1 = MaxRetries THEN "error" ELSE "request"
  <2>1. /\ reader[q].tries + 1 \in 0..MaxRetries
        /\ Becomes(q, pc, reader[q].end, reader[q].total, reader[q].slice, reader[q].out,
                   reader[q].tries + 1)
    BY <1>3, RetryBecomes
  <2>2. pc # "send" /\ (pc # "error" => reader[q].tries + 1 < MaxRetries) BY <2>1
  <2>3. fileSize' = fileSize /\ buffer' = buffer BY <1>3 DEF RetryGetLogs
  <2> HIDE DEF pc
  <2> QED BY <1>1, <2>1, <2>2, <2>3, BecomesBounded
<1>4. ASSUME NEW q \in Readers, GetLogs(q)
      PROVE  ReadersInv'
  <2>1. reader[q].tries < MaxRetries BY <1>4 DEF ReadersInv, Bounded, GetLogs
  <2>2. fileSize' = fileSize /\ buffer' = buffer BY <1>4 DEF GetLogs
  <2>3. PICK pc \in {"done", "failed", "read"} :
          Becomes(q, pc,
                  EndIndex(reader[q].size, reader[q].offset, fileSize[reader[q].run]),
                  0, NoSlice, reader[q].out, reader[q].tries)
    BY <1>1, <1>4, GetLogsBecomes
  <2>4. pc # "send" OBVIOUS
  <2> QED BY <1>1, <2>1, <2>2, <2>3, <2>4, BecomesBounded
<1>5. ASSUME NEW q \in Readers, ReadLogsFromFile(q)
      PROVE  ReadersInv'
  BY <1>5, ReadBounded
<1>6. ASSUME NEW q \in Readers, SendChunk(q)
      PROVE  ReadersInv'
  <2> DEFINE x == reader[q]
             total == x.total + x.slice.len
             out == x.out \o SubSeq(buffer[x.slice.buf], 1, x.slice.len)
             pc == IF total + x.offset >= x.end \/ x.slice.len < x.slice.asked
                   THEN "done" ELSE "read"
  <2>1. Becomes(q, pc, x.end, total, NoSlice, out, x.tries) BY <1>6, SendBecomes
  <2>2. pc # "send" OBVIOUS
  <2>3. fileSize' = fileSize /\ buffer' = buffer BY <1>6 DEF SendChunk
  <2>4. x.tries < MaxRetries BY <1>6 DEF ReadersInv, Bounded, SendChunk
  <2> HIDE DEF pc, total, out
  <2> QED BY <1>1, <2>1, <2>2, <2>3, <2>4, BecomesBounded
<1>7. ASSUME NEW q \in Readers, ConnectionBreaks(q)
      PROVE  ReadersInv'
  <2>1. /\ reader' = [reader EXCEPT ![q] = reader'[q]]
        /\ reader'[q] = [reader[q] EXCEPT !.pc = "failed"]
    BY <1>1, <1>7 DEF ConnectionBreaks, Typed
  <2>2. Becomes(q, "failed", reader[q].end, reader[q].total, reader[q].slice,
                reader[q].out, reader[q].tries)
    BY <1>1, <2>1, FailsBecomes
  <2>3. fileSize' = fileSize /\ buffer' = buffer BY <1>7 DEF ConnectionBreaks
  <2>4. reader[q].tries < MaxRetries BY <1>7 DEF ReadersInv, Bounded, ConnectionBreaks
  <2> QED BY <1>1, <2>2, <2>3, <2>4, BecomesBounded
<1>8. ASSUME NEW r \in Runs, LogGrows(r)
      PROVE  ReadersInv'
  <2>1. fileSize' \in [Runs -> -1..MaxLen] BY <1>1, <1>8 DEF LogGrows
  <2> QED BY <1>8, <2>1, OthersBounded DEF LogGrows
<1>9. ASSUME NEW r \in Runs, DeleteLogs(r)
      PROVE  ReadersInv'
  <2>1. fileSize' \in [Runs -> -1..MaxLen] BY <1>1, <1>9 DEF DeleteLogs
  <2> QED BY <1>9, <2>1, OthersBounded DEF DeleteLogs
<1>10. CASE UNCHANGED vars BY <1>1, <1>10, OthersBounded DEF vars
<1> QED BY <1>2, <1>3, <1>4, <1>5, <1>6, <1>7, <1>8, <1>9, <1>10 DEF Next, ReaderStep

\* GetLogs: with any readers, sizes, buffers and faults, an answer never grows past the
\* file and a chunk never past its buffer.
THEOREM ReadersCorrect == Spec => []ReadersInv
<1>1. Init => ReadersInv BY ReadersInit
<1>2. ReadersInv /\ [Next]_vars => ReadersInv' BY ReadersStep
<1> QED BY <1>1, <1>2, PTL DEF Spec

\* GetLogs: the type invariant.
THEOREM TypeCorrect == Spec => []TypeOK
<1>1. ReadersInv => TypeOK
  <2> SUFFICES ASSUME ReadersInv PROVE TypeOK
    OBVIOUS
  <2>1. Typed BY DEF ReadersInv
  <2>2. \A b \in Buffers : DOMAIN buffer[b] = 1..BufferSize BY <2>1 DEF Typed
  <2>3. fileSize \in [Runs -> -1..MaxLen] BY <2>1 DEF Typed
  <2>4. \A q \in Readers :
          /\ reader[q].pc \in {"idle", "request", "read", "send", "failed", "done",
                               "error"}
          /\ reader[q].run \in Runs /\ reader[q].size \in Sizes \cup {0}
          /\ reader[q].total \in 0..MaxLen
          /\ reader[q].slice.len \in 0..BufferSize
          /\ reader[q].tries \in 0..MaxRetries
    BY <2>1, ReaderFields
  <2> QED BY <2>2, <2>3, <2>4 DEF TypeOK
<1> QED BY <1>1, ReadersCorrect, PTL

-----------------------------------------------------------------------------
(***************************************************************************)
(* The answers.                                                            *)
(***************************************************************************)

NoOverflow == \A size \in Sizes, offset \in Offsets : size + offset <= MaxInt

\* Without an overflow the answer ends at the file's end or at what was asked for.
LEMMA EndIndexFits ==
    ASSUME NoOverflow, Typed, NEW q \in Readers, reader[q].size # 0,
           reader[q].offset < fileSize[reader[q].run]
    PROVE  LET x == reader[q]
               current == fileSize[x.run]
               end == EndIndex(x.size, x.offset, current)
           IN  /\ end \in Int /\ x.offset < end /\ end <= current
               /\ x.size > 0 => /\ end <= x.offset + x.size
                                /\ end = current \/ end = x.offset + x.size
               /\ x.size < 0 => end = current
<1> DEFINE x == reader[q]
           current == fileSize[x.run]
<1>1. x.size \in Int /\ x.offset \in Nat /\ current \in Int BY ReaderFields
<1>2. x.size > 0 => Wrap(x.size + x.offset) = x.size + x.offset
  <2>1. x.size \in Sizes \cup {0} /\ x.size <= MaxInt BY ReaderFields
  <2>2. x.offset \in Offsets \cup {0}
    <3>1. reader[q] \in ReaderStates BY DEF Typed
    <3> QED BY <3>1 DEF ReaderStates
  <2>3. x.size > 0 => x.size + x.offset <= MaxInt
    <3>1. CASE x.offset = 0 BY <1>1, <2>1, <3>1
    <3>2. CASE x.offset \in Offsets
      <4>1. CASE x.size \in Sizes BY <3>2, <4>1 DEF NoOverflow
      <4>2. CASE x.size = 0 BY <4>2
      <4> QED BY <2>1, <4>1, <4>2
    <3> QED BY <2>2, <3>1, <3>2
  <2>4. x.size + x.offset \in Int BY <1>1
  <2> QED BY <2>3, <2>4 DEF Wrap
<1>3. x.size # 0 /\ x.offset < current OBVIOUS
<1> HIDE DEF x, current
<1>4. CASE x.size > 0
  <2>1. EndIndex(x.size, x.offset, current) = Least(x.size + x.offset, current)
    BY <1>2, <1>4 DEF EndIndex
  <2> QED BY <1>1, <1>3, <1>4, <2>1 DEF Least, x, current
<1>5. CASE ~(x.size > 0)
  <2>1. EndIndex(x.size, x.offset, current) = current BY <1>5 DEF EndIndex
  <2> QED BY <1>1, <1>3, <1>5, <2>1 DEF x, current
<1> QED BY <1>4, <1>5

\* get_logs: a request for a run without logs is answered with nothing.
LEMMA GetLogsCallAnswered ==
    ASSUME Typed, NEW q \in Readers, NEW r \in Runs, NEW size \in Sizes,
           NEW offset \in Offsets, get_logs(q, r, size, offset)
    PROVE  ReaderInv(q)'
<1> DEFINE y == reader'[q]
<1>1. /\ y.pc = IF fileSize[r] <= 0 THEN "done" ELSE "request"
      /\ y.run = r /\ y.size = size /\ y.offset = offset
      /\ y.goal = fileSize[r] /\ y.out = <<>> /\ fileSize' = fileSize
  <2>1. fileSize' = fileSize BY DEF get_logs
  <2> QED BY <2>1, GetLogsBegins
<1>2. fileSize[r] \in Int BY DEF Typed
<1>3. offset \in Nat OBVIOUS
<1>4. y.pc \in {"done", "request"} BY <1>1
<1>5. y.pc = "request" => StartsOver(q)' /\ GoalFits(q)'
  BY <1>1, <1>2 DEF StartsOver, GoalFits
<1>6. y.pc = "done" => AnswerFits(q)'
  <2> SUFFICES ASSUME y.pc = "done" PROVE AnswerFits(q)'
    OBVIOUS
  <2>1. fileSize[r] <= 0 BY <1>1
  <2>2. AnswerLength(q, reader[q].goal)' = 0 BY <1>1, <1>2, <1>3, <2>1 DEF AnswerLength
  <2>3. Len(y.out) = 0 /\ (1..Len(y.out) = {}) BY <1>1
  <2> QED BY <1>1, <2>2, <2>3 DEF AnswerFits, Continues
<1> QED BY <1>4, <1>5, <1>6 DEF ReaderInv

\* A retry begins with what its failure left.
LEMMA RetryAnswered ==
    ASSUME ReadersInv, NEW q \in Readers, ReaderInv(q), RetryGetLogs(q)
    PROVE  ReaderInv(q)'
<1>1. /\ reader[q].pc = "failed" /\ fileSize' = fileSize BY DEF RetryGetLogs
<1>2. /\ reader'[q].pc \in {"error", "request"} /\ reader'[q].run = reader[q].run
      /\ reader'[q].size = reader[q].size /\ reader'[q].goal = reader[q].goal
      /\ reader'[q].out = reader[q].out
  BY RetryBecomes DEF Becomes
<1>3. StartsOver(q) /\ GoalFits(q) BY <1>1 DEF ReaderInv
<1>4. StartsOver(q)' /\ GoalFits(q)' BY <1>1, <1>2, <1>3 DEF StartsOver, GoalFits
<1> QED BY <1>2, <1>4 DEF ReaderInv

\* GetLogs, before its loop.
LEMMA GetLogsAnswered ==
    ASSUME NoOverflow, Typed, NEW q \in Readers, ReaderInv(q), GetLogs(q)
    PROVE  ReaderInv(q)'
<1> DEFINE x == reader[q]
           y == reader'[q]
           f == fileSize[x.run]
           end == EndIndex(x.size, x.offset, f)
<1>1. x.pc = "request" /\ fileSize' = fileSize /\ buffer' = buffer BY DEF GetLogs
<1>2. StartsOver(q) /\ GoalFits(q) BY <1>1 DEF ReaderInv
<1>3. PICK pc \in {"done", "failed", "read"} :
        /\ Becomes(q, pc, end, 0, NoSlice, x.out, x.tries)
        /\ pc = "done" => x.size = 0 \/ (f >= 0 /\ f <= x.offset)
        /\ pc = "failed" => x.size # 0 /\ f < 0
        /\ pc = "read" => x.size # 0 /\ x.offset < f
  BY GetLogsBecomes
<1>4. /\ y.pc = pc /\ y.run = x.run /\ y.size = x.size /\ y.offset = x.offset
      /\ y.goal = x.goal /\ y.out = x.out /\ y.end = end /\ y.total = 0
  BY <1>3 DEF Becomes
<1>5. /\ f \in Int /\ x.offset \in Nat /\ x.goal \in Int /\ x.size \in Int
      /\ x.out \in Seq(Bytes)
  BY ReaderFields
<1>6. GoalFits(q)' BY <1>1, <1>2, <1>4 DEF GoalFits
<1>7. CASE pc = "done"
  <2>1. x.out = <<>> BY <1>2, <1>3, <1>5, <1>7 DEF StartsOver
  <2>2. AnswerLength(q, reader[q].goal)' = 0
    <3>1. x.size = 0 \/ x.offset >= x.goal BY <1>2, <1>3, <1>5, <1>7 DEF GoalFits
    <3> QED BY <1>4, <3>1 DEF AnswerLength
  <2>3. Len(y.out) = 0 /\ (1..Len(y.out) = {}) BY <1>4, <2>1
  <2>4. AnswerFits(q)' BY <1>4, <1>5, <2>2, <2>3 DEF AnswerFits, Continues
  <2> QED BY <1>4, <1>7, <2>4 DEF ReaderInv
<1>8. CASE pc = "failed"
  <2>1. StartsOver(q)' BY <1>1, <1>3, <1>4, <1>8 DEF StartsOver
  <2> QED BY <1>4, <1>6, <1>8, <2>1 DEF ReaderInv
<1>9. CASE pc = "read"
  <2>1. x.size # 0 /\ x.offset < f BY <1>3, <1>9
  <2>2. x.out = <<>> BY <1>2, <1>5, <2>1 DEF StartsOver
  <2>3. Yielded(q)'
    <3>1. Len(y.out) = 0 /\ 1..Len(y.out) = {} BY <1>4, <2>2
    <3> QED BY <1>4, <3>1 DEF Yielded, Continues
  <2>4. /\ end \in Int /\ x.offset < end /\ end <= f
        /\ x.size > 0 => end <= x.offset + x.size /\ (end = f \/ end = x.offset + x.size)
        /\ x.size < 0 => end = f
    BY <2>1, EndIndexFits
  <2>5. x.goal <= f BY <1>2, <1>5, <2>1 DEF GoalFits
  <2>6. EndFits(q)'
    <3> HIDE DEF end
    <3> QED BY <1>1, <1>4, <1>5, <2>1, <2>4, <2>5 DEF EndFits
  <2>7. y.offset + y.total < y.end BY <1>4, <1>5, <2>4
  <2> QED BY <1>4, <1>6, <1>9, <2>3, <2>6, <2>7 DEF ReaderInv
<1> QED BY <1>7, <1>8, <1>9

\* readLogsFromFile: a chunk before the end is read in full, unless the file is gone.
LEMMA ReadAnswered ==
    ASSUME Typed, NEW q \in Readers, ReaderInv(q), ReadLogsFromFile(q)
    PROVE  ReaderInv(q)'
<1> DEFINE x == reader[q]
           y == reader'[q]
           f == fileSize[x.run]
           at == x.offset + x.total
<1>1. x.pc = "read" /\ fileSize' = fileSize BY DEF ReadLogsFromFile
<1>2. Yielded(q) /\ EndFits(q) /\ GoalFits(q) /\ at < x.end BY <1>1 DEF ReaderInv
<1>3. /\ x.run \in Runs /\ f \in -1..MaxLen /\ x.offset \in Nat /\ x.total \in Nat
      /\ x.end \in Int
  BY ReaderFields
<1>4. /\ Asked(q) > 0 /\ Asked(q) <= x.end - x.total - x.offset /\ Asked(q) \in Nat
      /\ f >= 0 => ReadSize(q) = Asked(q)
  <2>1. x.size # 0 /\ (f < 0 \/ x.end <= f) BY <1>2 DEF EndFits
  <2>2. /\ Asked(q) \in 0..BufferSize
        /\ Asked(q) > 0 => Asked(q) <= x.end - x.total - x.offset
        /\ Asked(q) = 0 => at >= x.end
        /\ Asked(q) > 0 /\ x.end <= f => ReadSize(q) = Asked(q)
    BY ReadBounds
  <2>3. Asked(q) > 0 BY <1>2, <1>3, <2>2
  <2> QED BY <1>3, <2>1, <2>2, <2>3
<1>5. CASE f < 0 /\ Becomes(q, "failed", x.end, x.total, x.slice, x.out, x.tries)
  <2>1. y.pc = "failed" /\ y.run = x.run /\ y.size = x.size /\ y.goal = x.goal
    BY <1>5 DEF Becomes
  <2>2. x.size # 0 BY <1>2 DEF EndFits
  <2>3. StartsOver(q)' BY <1>1, <1>5, <2>1, <2>2 DEF StartsOver
  <2>4. GoalFits(q)' BY <1>1, <1>5, <2>1 DEF GoalFits
  <2> QED BY <2>1, <2>3, <2>4 DEF ReaderInv
<1>6. CASE /\ Asked(q) > 0 /\ f >= 0 /\ ReadSize(q) > 0
           /\ \E b \in Buffers :
                 /\ Becomes(q, "send", x.end, x.total,
                            [buf |-> b, len |-> ReadSize(q), asked |-> Asked(q)],
                            x.out, x.tries)
                 /\ buffer' = [buffer EXCEPT ![b] = Filled(b, x.run, at)]
  <2>1. PICK b \in Buffers :
          /\ Becomes(q, "send", x.end, x.total,
                     [buf |-> b, len |-> ReadSize(q), asked |-> Asked(q)], x.out, x.tries)
          /\ buffer' = [buffer EXCEPT ![b] = Filled(b, x.run, at)]
    BY <1>6
  <2>2. /\ y.pc = "send" /\ y.run = x.run /\ y.size = x.size /\ y.offset = x.offset
        /\ y.goal = x.goal /\ y.out = x.out /\ y.end = x.end /\ y.total = x.total
        /\ y.slice.buf = b /\ y.slice.len = ReadSize(q) /\ y.slice.asked = Asked(q)
    BY <2>1 DEF Becomes
  <2>3. x.end <= f BY <1>2, <1>3, <1>6 DEF EndFits
  <2>4. ReadSize(q) = Asked(q) BY <1>4, <1>6
  <2>5. \A i \in 1..Asked(q) : buffer'[b][i] = <<x.run, at + i - 1>>
    <3>1. buffer'[b] = Filled(b, x.run, at) BY <2>1 DEF Typed
    <3>2. ASSUME NEW i \in 1..Asked(q)
          PROVE  i \in 1..BufferSize /\ at + i <= f
      <4>1. Asked(q) \in 0..BufferSize BY ReadBounds
      <4> QED BY <1>3, <1>4, <2>3, <4>1
    <3> HIDE DEF at, f
    <3> QED BY <3>1, <3>2 DEF Filled, f
  <2>6. ChunkFits(q)'
    <3>1. y.slice.len > 0 /\ y.slice.len = y.slice.asked BY <1>4, <2>2, <2>4
    <3>2. y.offset + y.total + y.slice.len <= y.end BY <1>3, <1>4, <2>2, <2>4
    <3>3. \A i \in 1..y.slice.len :
            buffer'[y.slice.buf][i] = <<y.run, y.offset + y.total + i - 1>>
      BY <2>2, <2>4, <2>5
    <3> QED BY <3>1, <3>2, <3>3 DEF ChunkFits
  <2>7. Yielded(q)' BY <1>2, <2>2 DEF Yielded, Continues
  <2>8. EndFits(q)' BY <1>1, <1>2, <2>2 DEF EndFits
  <2>9. GoalFits(q)' BY <1>1, <1>2, <2>2 DEF GoalFits
  <2> QED BY <2>2, <2>6, <2>7, <2>8, <2>9 DEF ReaderInv
<1>7. ~(Asked(q) = 0 \/ (f >= 0 /\ ReadSize(q) = 0)) BY <1>4
<1> QED BY <1>5, <1>6, <1>7, ReadBecomes

\* responseStream.Send: the chunk continues what was yielded, and the last one ends it.
LEMMA SendAnswered ==
    ASSUME ReadersInv, NEW q \in Readers, ReaderInv(q), SendChunk(q)
    PROVE  ReaderInv(q)'
<1> DEFINE x == reader[q]
           y == reader'[q]
           total == x.total + x.slice.len
           part == SubSeq(buffer[x.slice.buf], 1, x.slice.len)
           out == x.out \o part
           pc == IF total + x.offset >= x.end \/ x.slice.len < x.slice.asked
                 THEN "done" ELSE "read"
<1>1. Typed /\ x.pc = "send" /\ fileSize' = fileSize BY DEF ReadersInv, SendChunk
<1>2. Yielded(q) /\ EndFits(q) /\ GoalFits(q) /\ ChunkFits(q) BY <1>1 DEF ReaderInv
<1>3. /\ x.offset \in Nat /\ x.total \in Nat /\ x.end \in Int /\ x.size \in Int
      /\ x.goal \in Int /\ x.slice.len \in 0..BufferSize /\ x.slice.buf \in Buffers
      /\ x.out \in Seq(Bytes)
  BY <1>1, ReaderFields
<1>4. Becomes(q, pc, x.end, total, NoSlice, out, x.tries) BY SendBecomes
<1>5. /\ y.pc = pc /\ y.run = x.run /\ y.size = x.size /\ y.offset = x.offset
      /\ y.goal = x.goal /\ y.out = out /\ y.end = x.end /\ y.total = total
  <2> HIDE DEF pc, out, total
  <2> QED BY <1>4 DEF Becomes
<1>6. /\ x.slice.len > 0 /\ x.slice.len = x.slice.asked
      /\ x.offset + x.total + x.slice.len <= x.end
      /\ SingleReader => \A i \in 1..x.slice.len :
            buffer[x.slice.buf][i] = <<x.run, x.offset + x.total + i - 1>>
  BY <1>2 DEF ChunkFits
<1>7. /\ part \in Seq(Bytes) /\ Len(part) = x.slice.len
      /\ SingleReader => \A i \in 1..x.slice.len :
            part[i] = <<x.run, x.offset + x.total + i - 1>>
  <2> DEFINE s == buffer[x.slice.buf]
             n == x.slice.len
  <2>1. s \in [1..BufferSize -> Bytes] BY <1>1, <1>3 DEF Typed
  <2>2. \A i \in 1..n : s[i] \in Bytes BY <1>3, <2>1
  <2>3. n \in Nat /\ n > 0 BY <1>3, <1>6
  <2> HIDE DEF s, n
  <2>4. /\ SubSeq(s, 1, n) \in Seq(Bytes) /\ Len(SubSeq(s, 1, n)) = n
        /\ \A i \in 1..n : SubSeq(s, 1, n)[i] = s[i]
    BY <2>2, <2>3, SubSeqProperties
  <2> QED BY <1>6, <2>4 DEF s, n
<1> HIDE DEF part
<1>8. /\ Len(out) = Len(x.out) + Len(part)
      /\ \A i \in 1..Len(x.out) + Len(part) :
            out[i] = IF i <= Len(x.out) THEN x.out[i] ELSE part[i - Len(x.out)]
  BY <1>3, <1>7, ConcatProperties
<1> HIDE DEF out
<1>9. Yielded(q)'
  <2>1. Len(x.out) = x.total BY <1>2 DEF Yielded
  <2>2. Len(out) = total BY <1>7, <1>8, <2>1
  <2>3. ASSUME SingleReader, NEW i \in 1..total
        PROVE  out[i] = <<x.run, x.offset + i - 1>>
    <3>1. CASE i <= x.total
      <4>1. i \in 1..x.total BY <1>3, <3>1
      <4>2. out[i] = x.out[i] BY <1>7, <1>8, <2>1, <3>1
      <4> QED BY <1>2, <2>1, <2>3, <4>1, <4>2 DEF Yielded, Continues
    <3>2. CASE ~(i <= x.total)
      <4> DEFINE j == i - x.total
      <4>1. j \in 1..x.slice.len /\ x.offset + x.total + j - 1 = x.offset + i - 1
        <5> DEFINE o == x.offset
                   t == x.total
                   n == x.slice.len
        <5>1. i \in 1..(t + n) /\ ~(i <= t) /\ o \in Nat /\ t \in Nat /\ n \in Nat
          BY <1>3, <3>2
        <5> HIDE DEF o, t, n
        <5>2. i - t \in 1..n /\ o + t + (i - t) - 1 = o + i - 1 BY <5>1
        <5> QED BY <5>2 DEF o, t, n
      <4>2. out[i] = part[j] BY <1>7, <1>8, <2>1, <3>2
      <4>3. part[j] = <<x.run, x.offset + x.total + j - 1>> BY <1>7, <2>3, <4>1
      <4> QED BY <4>1, <4>2, <4>3
    <3> QED BY <3>1, <3>2
  <2> HIDE DEF total
  <2>4. SingleReader => \A i \in 1..total : out[i] = <<x.run, x.offset + i - 1>>
    BY <2>3
  <2> QED BY <1>5, <2>2, <2>4 DEF Yielded, Continues
<1>10. Len(out) = total /\ Continues(q)' BY <1>5, <1>9 DEF Yielded
<1>11. CASE pc = "done"
  <2>1. total = x.end - x.offset /\ total \in Nat
    <3> DEFINE o == x.offset
               t == x.total
               n == x.slice.len
               e == x.end
    <3>1. /\ o \in Nat /\ t \in Nat /\ n \in Nat /\ e \in Int /\ o + t + n <= e
          /\ ~(n < x.slice.asked)
      BY <1>3, <1>6
    <3>2. t + n + o >= e BY <1>11, <3>1
    <3> HIDE DEF o, t, n, e
    <3>3. t + n = e - o /\ t + n \in Nat BY <3>1, <3>2
    <3> QED BY <3>3 DEF o, t, n, e
  <2>2. x.size # 0 /\ x.offset < x.end BY <1>2 DEF EndFits
  <2>3. x.size > 0 => x.end <= x.offset + x.size
                      /\ (x.end >= x.goal \/ x.end = x.offset + x.size)
    BY <1>2 DEF EndFits
  <2>4. x.size < 0 => x.end >= x.goal BY <1>2 DEF EndFits
  <2>5. AnswerLength(q, x.goal) <= total
    <3>1. AnswerLength(q, x.goal) =
            IF x.size = 0 \/ x.offset >= x.goal THEN 0
            ELSE IF x.size < 0 THEN x.goal - x.offset
            ELSE Least(x.size, x.goal - x.offset)
      BY DEF AnswerLength
    <3> HIDE DEF total, x
    <3> QED BY <1>3, <2>1, <2>2, <2>3, <2>4, <3>1 DEF Least
  <2>6. AnswerLength(q, reader[q].goal)' = AnswerLength(q, x.goal)
    BY <1>5 DEF AnswerLength
  <2>7. x.size > 0 => total <= x.size BY <1>3, <2>1, <2>3
  <2>8. AnswerFits(q)'
    <3>1. Continues(q)' BY <1>10
    <3>2. Len(y.out) >= AnswerLength(q, reader[q].goal)' BY <1>5, <1>10, <2>5, <2>6
    <3>3. y.size > 0 => Len(y.out) <= y.size BY <1>5, <1>10, <2>7
    <3> QED BY <3>1, <3>2, <3>3 DEF AnswerFits
  <2> QED BY <1>5, <1>11, <2>8 DEF ReaderInv
<1>12. CASE pc = "read"
  <2>1. y.offset + y.total < y.end BY <1>3, <1>5, <1>12
  <2>2. EndFits(q)' BY <1>1, <1>2, <1>5 DEF EndFits
  <2>3. GoalFits(q)' BY <1>1, <1>2, <1>5 DEF GoalFits
  <2> QED BY <1>5, <1>9, <1>12, <2>1, <2>2, <2>3 DEF ReaderInv
<1> QED BY <1>11, <1>12

\* A stream that breaks has yielded nothing.
LEMMA BreakAnswered ==
    ASSUME "break" \notin Faults, Typed, NEW q \in Readers, ReaderInv(q),
           ConnectionBreaks(q)
    PROVE  ReaderInv(q)'
<1>1. /\ reader' = [reader EXCEPT ![q] = reader'[q]]
      /\ reader'[q] = [reader[q] EXCEPT !.pc = "failed"]
  BY DEF ConnectionBreaks, Typed
<1>2. Becomes(q, "failed", reader[q].end, reader[q].total, reader[q].slice,
              reader[q].out, reader[q].tries)
  BY <1>1, FailsBecomes
<1>3. /\ reader'[q].pc = "failed" /\ reader'[q].run = reader[q].run
      /\ reader'[q].goal = reader[q].goal /\ reader'[q].out = reader[q].out
  BY <1>2 DEF Becomes
<1>4. reader[q].out = <<>> /\ fileSize' = fileSize BY DEF ConnectionBreaks
<1>5. GoalFits(q) BY DEF ConnectionBreaks, ReaderInv
<1>6. StartsOver(q)' BY <1>3, <1>4 DEF StartsOver
<1>7. GoalFits(q)' BY <1>3, <1>4, <1>5 DEF GoalFits
<1> QED BY <1>3, <1>6, <1>7 DEF ReaderInv

\* A file that grows or is deleted takes nothing away from a reader.
LEMMA FileAnswered ==
    ASSUME Typed, NEW q \in Readers, ReaderInv(q), reader' = reader, buffer' = buffer,
           fileSize' \in [Runs -> -1..MaxLen],
           \A r \in Runs : \/ fileSize'[r] = -1
                           \/ fileSize[r] >= 0 /\ fileSize'[r] >= fileSize[r]
    PROVE  ReaderInv(q)'
<1> DEFINE x == reader[q]
           f == fileSize[x.run]
           g == fileSize'[x.run]
<1>1. /\ x.run \in Runs /\ f \in Int /\ x.end \in Int /\ x.goal \in Int BY ReaderFields
<1>2. g \in Int /\ (g = -1 \/ (f >= 0 /\ g >= f)) BY <1>1
<1>3. StartsOver(q) => StartsOver(q)' BY <1>1, <1>2 DEF StartsOver
<1>4. GoalFits(q) => GoalFits(q)' BY <1>1, <1>2 DEF GoalFits
<1>5. EndFits(q) => EndFits(q)' BY <1>1, <1>2 DEF EndFits
<1>6. Yielded(q)' = Yielded(q) BY DEF Yielded, Continues
<1>7. ChunkFits(q)' = ChunkFits(q) BY DEF ChunkFits
<1>8. AnswerFits(q)' = AnswerFits(q) BY DEF AnswerFits, AnswerLength, Continues
<1> QED BY <1>3, <1>4, <1>5, <1>6, <1>7, <1>8 DEF ReaderInv

\* Another reader only touches the buffers, which matter to a single reader alone.
LEMMA OtherAnswered ==
    ASSUME ~SingleReader, NEW p \in Readers, ReaderInv(p), reader'[p] = reader[p],
           fileSize' = fileSize
    PROVE  ReaderInv(p)'
<1>1. StartsOver(p)' = StartsOver(p) /\ GoalFits(p)' = GoalFits(p)
  BY DEF StartsOver, GoalFits
<1>2. Yielded(p)' = Yielded(p) /\ EndFits(p)' = EndFits(p)
  BY DEF Yielded, Continues, EndFits
<1>3. ChunkFits(p)' = ChunkFits(p) BY DEF ChunkFits
<1>4. AnswerFits(p)' = AnswerFits(p) BY DEF AnswerFits, AnswerLength, Continues
<1> QED BY <1>1, <1>2, <1>3, <1>4 DEF ReaderInv

LEMMA AnsweredInit == Init => Answered
BY IdleType DEF Init, Answered, ReaderInv

LEMMA AnsweredStep ==
    ASSUME NoOverflow, "break" \notin Faults, ReadersInv, Answered, [Next]_vars
    PROVE  Answered'
<1>1. Typed /\ \A q \in Readers : ReaderInv(q) BY DEF ReadersInv, Answered
<1>2. ASSUME NEW q \in Readers, ReaderInv(q)', fileSize' = fileSize,
             \A p \in Readers \ {q} : reader'[p] = reader[p]
      PROVE  Answered'
  <2> SUFFICES ASSUME NEW p \in Readers PROVE ReaderInv(p)'
    BY DEF Answered
  <2>1. CASE p = q BY <1>2, <2>1
  <2>2. CASE p # q
    <3>1. ~SingleReader BY <2>2 DEF SingleReader
    <3> QED BY <1>1, <1>2, <2>2, <3>1, OtherAnswered
  <2> QED BY <2>1, <2>2
<1>3. ASSUME NEW q \in Readers, NEW r \in Runs, NEW size \in Sizes, NEW offset \in Offsets,
             get_logs(q, r, size, offset)
      PROVE  Answered'
  <2>1. ReaderInv(q)' BY <1>1, <1>3, GetLogsCallAnswered
  <2>2. fileSize' = fileSize /\ \A p \in Readers \ {q} : reader'[p] = reader[p]
    BY <1>1, <1>3 DEF get_logs, Typed
  <2> QED BY <1>2, <2>1, <2>2
<1>4. ASSUME NEW q \in Readers, RetryGetLogs(q)
      PROVE  Answered'
  <2>1. ReaderInv(q)' BY <1>1, <1>4, RetryAnswered
  <2>2. fileSize' = fileSize /\ \A p \in Readers \ {q} : reader'[p] = reader[p]
    BY <1>1, <1>4 DEF RetryGetLogs, Typed
  <2> QED BY <1>2, <2>1, <2>2
<1>5. ASSUME NEW q \in Readers, GetLogs(q)
      PROVE  Answered'
  <2>1. ReaderInv(q)' BY <1>1, <1>5, GetLogsAnswered
  <2>2. fileSize' = fileSize /\ \A p \in Readers \ {q} : reader'[p] = reader[p]
    BY <1>1, <1>5 DEF GetLogs, Typed
  <2> QED BY <1>2, <2>1, <2>2
<1>6. ASSUME NEW q \in Readers, ReadLogsFromFile(q)
      PROVE  Answered'
  <2>1. ReaderInv(q)' BY <1>1, <1>6, ReadAnswered
  <2>2. fileSize' = fileSize /\ \A p \in Readers \ {q} : reader'[p] = reader[p]
    BY <1>1, <1>6 DEF ReadLogsFromFile, Typed
  <2> QED BY <1>2, <2>1, <2>2
<1>7. ASSUME NEW q \in Readers, SendChunk(q)
      PROVE  Answered'
  <2>1. ReaderInv(q)' BY <1>1, <1>7, SendAnswered
  <2>2. fileSize' = fileSize /\ \A p \in Readers \ {q} : reader'[p] = reader[p]
    BY <1>1, <1>7 DEF SendChunk, Typed
  <2> QED BY <1>2, <2>1, <2>2
<1>8. ASSUME NEW q \in Readers, ConnectionBreaks(q)
      PROVE  Answered'
  <2>1. ReaderInv(q)' BY <1>1, <1>8, BreakAnswered
  <2>2. fileSize' = fileSize /\ \A p \in Readers \ {q} : reader'[p] = reader[p]
    BY <1>1, <1>8 DEF ConnectionBreaks, Typed
  <2> QED BY <1>2, <2>1, <2>2
<1>9. ASSUME reader' = reader, buffer' = buffer,
             \A r \in Runs : \/ fileSize'[r] = -1
                             \/ fileSize[r] >= 0 /\ fileSize'[r] >= fileSize[r]
      PROVE  Answered'
  <2>1. fileSize' \in [Runs -> -1..MaxLen] BY ReadersStep DEF ReadersInv, Typed
  <2>2. \A q \in Readers : ReaderInv(q)' BY <1>1, <1>9, <2>1, FileAnswered
  <2> QED BY <2>2 DEF Answered
<1>10. ASSUME NEW r \in Runs, LogGrows(r)
       PROVE  Answered'
  <2>1. \A p \in Runs : fileSize[p] \in -1..MaxLen BY <1>1 DEF Typed
  <2>2. \A p \in Runs : \/ fileSize'[p] = -1
                        \/ fileSize[p] >= 0 /\ fileSize'[p] >= fileSize[p]
    <3> SUFFICES ASSUME NEW p \in Runs
        PROVE  \/ fileSize'[p] = -1
               \/ fileSize[p] >= 0 /\ fileSize'[p] >= fileSize[p]
      OBVIOUS
    <3>1. CASE p = r
      <4>1. fileSize[p] \in 0..MaxLen - 1 /\ fileSize'[p] = fileSize[p] + 1
        BY <1>1, <1>10, <3>1 DEF LogGrows, Typed
      <4> QED BY <4>1
    <3>2. CASE p # r
      <4>1. fileSize'[p] = fileSize[p] BY <1>1, <1>10, <3>2 DEF LogGrows, Typed
      <4> QED BY <2>1, <4>1
    <3> QED BY <3>1, <3>2
  <2>3. reader' = reader /\ buffer' = buffer BY <1>10 DEF LogGrows
  <2> QED BY <1>9, <2>2, <2>3
<1>11. ASSUME NEW r \in Runs, DeleteLogs(r)
       PROVE  Answered'
  <2>1. \A p \in Runs : fileSize[p] \in -1..MaxLen BY <1>1 DEF Typed
  <2>2. \A p \in Runs : fileSize'[p] = -1 \/ fileSize'[p] = fileSize[p]
    BY <1>1, <1>11 DEF DeleteLogs, Typed
  <2>3. \A p \in Runs : \/ fileSize'[p] = -1
                        \/ fileSize[p] >= 0 /\ fileSize'[p] >= fileSize[p]
    BY <2>1, <2>2
  <2>4. reader' = reader /\ buffer' = buffer BY <1>11 DEF DeleteLogs
  <2> QED BY <1>9, <2>3, <2>4
<1>12. CASE UNCHANGED vars
  <2>1. \A p \in Runs : fileSize[p] \in -1..MaxLen /\ fileSize'[p] = fileSize[p]
    BY <1>1, <1>12 DEF Typed, vars
  <2>2. \A p \in Runs : \/ fileSize'[p] = -1
                        \/ fileSize[p] >= 0 /\ fileSize'[p] >= fileSize[p]
    BY <2>1
  <2> QED BY <1>9, <1>12, <2>2 DEF vars
<1> QED BY <1>3, <1>4, <1>5, <1>6, <1>7, <1>8, <1>10, <1>11, <1>12 DEF Next, ReaderStep

LEMMA AnsweredContent ==
    ASSUME SingleReader, ReadersInv, Answered
    PROVE  ReadsFileContent
<1> SUFFICES ASSUME NEW q \in Readers, reader[q].pc = "done"
    PROVE  LET from == reader[q].offset
               length == Len(reader[q].out)
           IN  /\ reader[q].out = Content(reader[q].run, from, from + length)
               /\ length >= AnswerLength(q, reader[q].goal)
               /\ reader[q].size > 0 => length <= reader[q].size
  BY DEF ReadsFileContent, Finished
<1> DEFINE from == reader[q].offset
           out == reader[q].out
           length == Len(out)
<1>1. AnswerFits(q) BY DEF Answered, ReaderInv
<1>2. Typed BY DEF ReadersInv
<1>3. from \in Nat /\ out \in Seq(Bytes) BY <1>2, ReaderFields
<1>4. length \in Nat /\ out = [i \in 1..length |-> out[i]] BY <1>3, LenProperties
<1>5. \A i \in 1..length : out[i] = <<reader[q].run, from + i - 1>>
  BY <1>1 DEF AnswerFits, Continues
<1>6. out = Content(reader[q].run, from, from + length)
  <2>1. (from + length) - from = length BY <1>3, <1>4
  <2> HIDE DEF out, from, length
  <2>2. Content(reader[q].run, from, from + length)
          = [i \in 1..length |-> <<reader[q].run, from + i - 1>>]
    BY <2>1 DEF Content
  <2> QED BY <1>4, <1>5, <2>2
<1> QED BY <1>1, <1>6 DEF AnswerFits

LEMMA AnswersCorrect ==
    ASSUME NoOverflow, "break" \notin Faults
    PROVE  Spec => [](ReadersInv /\ Answered)
<1>1. Init => ReadersInv /\ Answered BY ReadersInit, AnsweredInit
<1>2. ReadersInv /\ Answered /\ [Next]_vars => ReadersInv' /\ Answered'
  BY ReadersStep, AnsweredStep
<1> QED BY <1>1, <1>2, PTL DEF Spec

(***************************************************************************)
(* Requests that share the buffers may get each other's bytes, but not     *)
(* more or fewer than they should: the count of what was sent does not     *)
(* depend on the buffers.                                                  *)
(***************************************************************************)
AnswersHaveLength ==
    \A q \in Readers : Finished(q) =>
        LET length == Len(reader[q].out)
        IN  /\ length >= AnswerLength(q, reader[q].goal)
            /\ reader[q].size > 0 => length <= reader[q].size

\* GetLogs: however many readers share the buffers, an answer is no shorter than what was
\* there of the requested part when the request came in, and no longer than its size.  The
\* two conditions are what the code needs: a retry after a chunk was yielded repeats it,
\* and the sum of size and offset wraps around.
THEOREM AnswersKeepLength ==
    ASSUME NoOverflow, "break" \notin Faults
    PROVE  Spec => []AnswersHaveLength
<1>1. ReadersInv /\ Answered => AnswersHaveLength
  BY DEF Answered, ReaderInv, AnswerFits, AnswersHaveLength, Finished
<1> QED BY <1>1, AnswersCorrect, PTL

\* GetLogs: an answer to a single reader is the part of the run's file that was asked
\* for, however the file grows, is deleted or the client retries.  With two readers a
\* chunk can be overwritten in the pooled buffer.
THEOREM AnswersAreContent ==
    ASSUME SingleReader, NoOverflow, "break" \notin Faults
    PROVE  Spec => []ReadsFileContent
<1>1. ReadersInv /\ Answered => ReadsFileContent BY AnsweredContent
<1> QED BY <1>1, AnswersCorrect, PTL

=============================================================================
