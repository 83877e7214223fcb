------------------------------ MODULE LogReads ------------------------------
(***************************************************************************)
(* Reading logs: get_logs of the API's log collector client                *)
(* (server/py/framework/utils/clients/log_collector.py), which retries,    *)
(* and GetLogs of the log collector (server.go), which sends a run's log   *)
(* file, or a part of it, in chunks that fit a pooled buffer.              *)
(*                                                                         *)
(* Byte i of the log of run r is the pair <<r, i>>; a log grows while it   *)
(* is read, and may be deleted.  readLogsFromFile returns a slice of its   *)
(* buffer and its deferred Put gives the buffer back to the pool at once,  *)
(* so what GetLogs sends is what the buffer holds by then.  An int64 is an *)
(* integer of -MaxInt-1..MaxInt that wraps around.                         *)
(***************************************************************************)
EXTENDS Integers, Sequences, FiniteSets

CONSTANTS
    Readers,     \* concurrent get_logs requests
    Runs,        \* runs with a log file
    Buffers,     \* buffers of getLogsBufferPool
    BufferSize,  \* getLogsBufferSizeBytes
    MaxLen,      \* bound: length of a log file
    MaxInt,      \* the largest int64
    Sizes,       \* sizes of the requests
    Offsets,     \* offsets of the requests
    MaxRetries,  \* log_collector.get_logs.max_retries
    Faults       \* "connect": a stream fails before its first chunk; "break": later
                 \* ones do as well; "deletion": a log is deleted

ASSUME ReadsAssumption ==
    /\ BufferSize \in Nat \ {0} /\ MaxLen \in Nat \ {0} /\ MaxRetries \in Nat \ {0}
    /\ MaxInt \in Nat /\ MaxInt >= MaxLen + BufferSize
    /\ Sizes \subseteq -1..MaxInt /\ Offsets \subseteq 0..MaxInt
    /\ Buffers # {} /\ Runs # {}

VARIABLES
    fileSize,    \* size of each log file, -1 if there is none
    buffer,      \* content of each buffer
    reader       \* the requests: client and server side

vars == <<fileSize, buffer, reader>>

-----------------------------------------------------------------------------

\* Arithmetic of int64.
Wrap(n) == IF n > MaxInt THEN n - 2 * (MaxInt + 1) ELSE n

Least(a, b) == IF a < b THEN a ELSE b

Content(r, from, to) == [i \in 1..(to - from) |-> <<r, from + i - 1>>]

NoSlice == [buf |-> CHOOSE b \in Buffers : TRUE, len |-> 0, asked |-> 0]

(***************************************************************************)
(* size, offset: the request.  end: endIndex.  total: totalLogsSize.       *)
(* slice: the chunk that was read, and the size that was asked for.  out:  *)
(* what the client has yielded.  goal: where the file ended at the         *)
(* client's first GetLogs (history).                                       *)
(***************************************************************************)
Idle == [pc |-> "idle", run |-> CHOOSE r \in Runs : TRUE, size |-> 0, offset |-> 0,
         end |-> 0, total |-> 0, slice |-> NoSlice, out |-> <<>>, tries |-> 0,
         goal |-> 0]

Init ==
    /\ fileSize \in [Runs -> {-1, 0, 1}]
    /\ buffer = [b \in Buffers |-> [i \in 1..BufferSize |-> <<"none", i>>]]
    /\ reader = [q \in Readers |-> Idle]

-----------------------------------------------------------------------------
\* The client.

\* get_logs: a run without logs has nothing to read.
get_logs(q, r, size, offset) ==
    /\ reader[q].pc = "idle"
    /\ reader' = [reader EXCEPT ![q] =
          [Idle EXCEPT !.pc = IF fileSize[r] <= 0 THEN "done" ELSE "request",
                       !.run = r, !.size = size, !.offset = offset,
                       !.goal = fileSize[r]]]
    /\ UNCHANGED <<fileSize, buffer>>

\* Mutant of RetryGetLogs: the tries are not counted.
RetryGetLogsForever(q) ==
    /\ reader[q].pc = "failed"
    /\ reader' = [reader EXCEPT ![q].pc = "request"]
    /\ UNCHANGED <<fileSize, buffer>>

\* Any error of the stream is retried with the same request.
RetryGetLogs(q) ==
    /\ reader[q].pc = "failed"
    /\ reader' = [reader EXCEPT
          ![q].tries = @ + 1,
          ![q].pc = IF reader[q].tries + 1 = MaxRetries THEN "error" ELSE "request"]
    /\ UNCHANGED <<fileSize, buffer>>

-----------------------------------------------------------------------------
\* The server.

\* Mutant of EndIndex: the end of a request is not moved by its offset.
EndIndexNoOffset(size, offset, current) ==
    IF size > 0 THEN Least(size, current) ELSE current

EndIndex(size, offset, current) ==
    IF size > 0 THEN Least(Wrap(size + offset), current) ELSE current

\* Mutant of getChunkSize: the chunk may exceed the buffer.
getChunkSizeUnbounded(offset, total, end) == end - total - offset

getChunkSize(offset, total, end) ==
    IF total + offset >= end THEN 0 ELSE Least(end - total - offset, BufferSize)

\* validateOffsetAndSize: the size to read at offset of a file of size current.
validateSize(offset, size, current) ==
    LET allowed == IF size <= 0 \/ size > current
                   THEN Least(current, BufferSize) ELSE size
    IN  IF offset > current THEN 0 ELSE Least(allowed, current - offset)

(***************************************************************************)
(* GetLogs up to its loop: an empty answer when nothing is asked for or    *)
(* the offset is past the end, an error when there is no file.             *)
(***************************************************************************)
GetLogs(q) ==
    LET r == reader[q].run
        answer == CASE reader[q].size = 0 -> "done"
                    [] reader[q].size # 0 /\ fileSize[r] < 0 -> "failed"
                    [] reader[q].size # 0 /\ fileSize[r] >= 0
                         /\ fileSize[r] - reader[q].offset <= 0 -> "done"
                    [] OTHER -> "read"
    IN  /\ reader[q].pc = "request"
        /\ reader' = [reader EXCEPT
              ![q].pc = answer,
              ![q].end = EndIndex(reader[q].size, reader[q].offset, fileSize[r]),
              ![q].total = 0,
              ![q].slice = NoSlice]
        /\ UNCHANGED <<fileSize, buffer>>

(***************************************************************************)
(* readLogsFromFile: a buffer is taken, filled from the file as far as the *)
(* file goes, and put back.  The rest of the buffer keeps what it held.    *)
(***************************************************************************)
ReadLogsFromFile(q) ==
    LET r == reader[q].run
        at == reader[q].offset + reader[q].total
        asked == getChunkSize(reader[q].offset, reader[q].total, reader[q].end)
        size == validateSize(at, asked, fileSize[r])
    IN  /\ reader[q].pc = "read"
        /\ \/ /\ asked > 0 /\ fileSize[r] < 0
              /\ reader' = [reader EXCEPT ![q].pc = "failed"]
              /\ UNCHANGED buffer
           \/ /\ asked = 0 \/ (fileSize[r] >= 0 /\ size = 0)
              /\ reader' = [reader EXCEPT ![q].pc = "send",
                              ![q].slice = [NoSlice EXCEPT !.asked = asked]]
              /\ UNCHANGED buffer
           \/ /\ asked > 0 /\ fileSize[r] >= 0 /\ size > 0
              /\ \E b \in Buffers :
                    /\ reader' = [reader EXCEPT ![q].pc = "send",
                          ![q].slice = [buf |-> b, len |-> size, asked |-> asked]]
                    /\ buffer' = [buffer EXCEPT ![b] =
                          [i \in 1..BufferSize |->
                             IF at + i <= fileSize[r] THEN <<r, at + i - 1>> ELSE @[i]]]
        /\ UNCHANGED fileSize

(***************************************************************************)
(* responseStream.Send encodes the slice, the client yields it, and the    *)
(* loop ends when all is sent or the file has ended early.                 *)
(***************************************************************************)
SendChunk(q) ==
    LET slice == reader[q].slice
        total == reader[q].total + slice.len
    IN  /\ reader[q].pc = "send"
        /\ reader' = [reader EXCEPT
              ![q].out = @ \o SubSeq(buffer[slice.buf], 1, slice.len),
              ![q].total = total,
              ![q].slice = NoSlice,
              ![q].pc = IF total + reader[q].offset >= reader[q].end
                           \/ slice.len < slice.asked
                        THEN "done" ELSE "read"]
        /\ UNCHANGED <<fileSize, buffer>>

-----------------------------------------------------------------------------
\* The environment.

\* The stream breaks before the client has all of it, or any of it.
ConnectionBreaks(q) ==
    /\ "break" \in Faults \/ ("connect" \in Faults /\ reader[q].out = <<>>)
    /\ reader[q].pc \in {"read", "send"}
    /\ reader' = [reader EXCEPT ![q].pc = "failed"]
    /\ UNCHANGED <<fileSize, buffer>>

\* The streaming goroutine of the run appends to the log.
LogGrows(r) ==
    /\ fileSize[r] \in 0..MaxLen - 1
    /\ fileSize' = [fileSize EXCEPT ![r] = @ + 1]
    /\ UNCHANGED <<buffer, reader>>

DeleteLogs(r) ==
    /\ "deletion" \in Faults
    /\ fileSize' = [fileSize EXCEPT ![r] = -1]
    /\ UNCHANGED <<buffer, reader>>

ReaderStep(q) ==
    \/ RetryGetLogs(q)
    \/ GetLogs(q)
    \/ ReadLogsFromFile(q)
    \/ SendChunk(q)

Next ==
    \/ \E q \in Readers :
          \/ \E r \in Runs, size \in Sizes, offset \in Offsets :
                get_logs(q, r, size, offset)
          \/ ReaderStep(q)
          \/ ConnectionBreaks(q)
    \/ \E r \in Runs : LogGrows(r) \/ DeleteLogs(r)

Spec == Init /\ [][Next]_vars

\* A handler and a client coroutine go on when they can.
FairSpec == Spec /\ \A q \in Readers : WF_vars(ReaderStep(q))

-----------------------------------------------------------------------------

TypeOK ==
    /\ fileSize \in [Runs -> -1..MaxLen]
    /\ \A b \in Buffers : DOMAIN buffer[b] = 1..BufferSize
    /\ \A q \in Readers :
          /\ reader[q].pc \in {"idle", "request", "read", "send", "failed", "done",
                               "error"}
          /\ reader[q].run \in Runs /\ reader[q].size \in Sizes \cup {0}
          /\ reader[q].total \in 0..MaxLen
          /\ reader[q].slice.len \in 0..BufferSize
          /\ reader[q].tries \in 0..MaxRetries

Finished(q) == reader[q].pc = "done"

\* The length of the answer, for a file that ended at size current.
AnswerLength(q, current) ==
    IF reader[q].size = 0 \/ reader[q].offset >= current THEN 0
    ELSE IF reader[q].size < 0 THEN current - reader[q].offset
    ELSE Least(reader[q].size, current - reader[q].offset)

(***************************************************************************)
(* "GetLogs returns the log file contents of length size from an offset,   *)
(* for a given run id; if the size is negative, the entire log file        *)
(* available is returned": what the client has yielded when it is done is  *)
(* that part of that run's file, no less than was there when the request   *)
(* came in and no more than was asked for.  It holds for a single request  *)
(* whose stream does not break half-way; concurrent requests can get each  *)
(* other's buffers.                                                        *)
(***************************************************************************)
ReadsFileContent ==
    \A q \in Readers : Finished(q) =>
        LET from == reader[q].offset
            length == Len(reader[q].out)
        IN  /\ reader[q].out = Content(reader[q].run, from, from + length)
            /\ length >= AnswerLength(q, reader[q].goal)
            /\ reader[q].size > 0 => length <= reader[q].size

\* Every request ends, in an answer or an error; no chunk is read for ever.
RequestsEnd ==
    \A q \in Readers :
        (reader[q].pc # "idle") ~> (reader[q].pc \in {"done", "error"})

=============================================================================
