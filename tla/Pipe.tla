-------------------------------- MODULE Pipe --------------------------------
(***************************************************************************)
(* The in-memory pipe of the ringbuff crate (ringbuff/src/pipe.rs): a ring *)
(* buffer between a reader and a writer, each with one waker slot.  Every  *)
(* operation runs under the pipe's spin lock and is one step.              *)
(*                                                                         *)
(* The two ends are owned by tasks.  A task whose poll returned Pending    *)
(* does nothing until its waker is called; both ends also have the         *)
(* blocking-free std::io operations, which never wait.                     *)
(***************************************************************************)
EXTENDS RingBuf

CONSTANT BufLen     \* the lengths of the buffers that callers pass

ASSUME BufLenAssumption == BufLen \subseteq 0 .. MaxBuf

VARIABLES
    reader,     \* whether the reader's waker is stored
    writer,     \* whether the writer's waker is stored
    closed,
    rtask,      \* the task at the read end: ready, waiting to be woken, or gone
    wtask,      \* the task at the write end
    eof         \* history: the reader was told that the pipe is closed

pipeVars == <<reader, writer, closed, rtask, wtask, eof>>

vars == <<ringVars, pipeVars>>

Task == {"ready", "waiting", "gone"}

(* Faulty: the waker is taken and not called. *)
Woken_Forgets(task, waker) == task

(* waker.take() and wake() *)
Woken(task, waker) == IF waker /\ task = "waiting" THEN "ready" ELSE task

PipeInit ==
    /\ RingInit
    /\ reader = FALSE
    /\ writer = FALSE
    /\ closed = FALSE
    /\ rtask = "ready"
    /\ wtask = "ready"
    /\ eof = FALSE

(* Faulty: the writer is not woken. *)
TakeBytes_NoWake(len) ==
    /\ rtask = "ready"
    /\ Read(len)
    /\ UNCHANGED <<writer, wtask, closed>>
    /\ eof' = (eof \/ (ReadSize(len) = 0 /\ closed))

(* Faulty: a closed pipe is at its end whatever it holds. *)
TakeBytes_EofEarly(len) ==
    /\ rtask = "ready"
    /\ Read(len)
    /\ writer' = FALSE
    /\ wtask' = Woken(wtask, writer)
    /\ eof' = (eof \/ closed)
    /\ UNCHANGED closed

(* read and poll_read take from the buffer and wake the writer; they       *)
(* differ in what they do about an empty buffer.                           *)
TakeBytes(len) ==
    /\ rtask = "ready"
    /\ Read(len)
    /\ writer' = FALSE
    /\ wtask' = Woken(wtask, writer)
    /\ eof' = (eof \/ (ReadSize(len) = 0 /\ closed))
    /\ UNCHANGED closed

SyncRead(len) == TakeBytes(len) /\ UNCHANGED <<reader, rtask>>

PollRead(len) ==
    LET pending == ReadSize(len) = 0 /\ ~closed
    IN  /\ TakeBytes(len)
        /\ reader' = (reader \/ pending)
        /\ rtask' = IF pending THEN "waiting" ELSE rtask

(* write and poll_write put into the buffer and wake the reader; on a      *)
(* closed pipe they do nothing.                                            *)
PutBytes(buf) ==
    /\ wtask = "ready"
    /\ ~closed
    /\ Write(buf)
    /\ reader' = FALSE
    /\ rtask' = Woken(rtask, reader)
    /\ UNCHANGED <<closed, eof>>

SyncWrite(buf) == PutBytes(buf) /\ UNCHANGED <<writer, wtask>>

PollWrite(buf) ==
    /\ PutBytes(buf)
    /\ writer' = (writer \/ WriteSize(buf) = 0)
    /\ wtask' = IF WriteSize(buf) = 0 THEN "waiting" ELSE wtask

(* Faulty: only the writer is woken. *)
Close_WriterOnly(rt, wt) ==
    /\ closed' = TRUE
    /\ writer' = FALSE
    /\ rtask' = rt
    /\ wtask' = Woken(wt, writer)
    /\ UNCHANGED <<ringVars, eof, reader>>

(* close, by either end: both wakers are taken and called. *)
Close(rt, wt) ==
    /\ closed' = TRUE
    /\ reader' = FALSE
    /\ writer' = FALSE
    /\ rtask' = Woken(rt, reader)
    /\ wtask' = Woken(wt, writer)
    /\ UNCHANGED <<ringVars, eof>>

(* poll_close of the write end *)
PollClose == wtask = "ready" /\ Close(rtask, wtask)

(* An end is dropped, its pending operation with it. *)
DropReader == rtask # "gone" /\ Close("gone", wtask)

DropWriter == wtask # "gone" /\ Close(rtask, "gone")

Input == {buf \in Buf : Len(buf) \in BufLen}

PipeNext ==
    \/ \E len \in BufLen : SyncRead(len) \/ PollRead(len)
    \/ \E buf \in Input : SyncWrite(buf) \/ PollWrite(buf)
    \/ PollClose \/ DropReader \/ DropWriter

PipeSpec == PipeInit /\ [][PipeNext]_vars

(* The reader is a task that polls again whenever it is woken. *)
ReaderPolls == \E len \in BufLen : PollRead(len)

FairPipeSpec == PipeSpec /\ WF_vars(ReaderPolls)

-----------------------------------------------------------------------------
PipeTypeOK ==
    /\ RingTypeOK
    /\ reader \in BOOLEAN /\ writer \in BOOLEAN /\ closed \in BOOLEAN /\ eof \in BOOLEAN
    /\ rtask \in Task /\ wtask \in Task

(* No wake-up is lost: a waiting reader has its waker stored and nothing   *)
(* to read on an open pipe, a waiting writer has its waker stored and no   *)
(* room on an open pipe.  In particular the two never wait for each other. *)
NoLostWakeup ==
    /\ rtask = "waiting" => reader /\ ~closed /\ readable = 0
    /\ wtask = "waiting" => writer /\ ~closed /\ writable = 0

(* The end of the stream is reported only when the pipe is closed and      *)
(* every byte written before that was read.                                *)
EofAfterData == eof => closed /\ readable = 0

(* A writer that waits for room is woken, because the reader reads on or   *)
(* is dropped.                                                             *)
WriterResumes == wtask = "waiting" ~> wtask # "waiting"

(* Once the pipe is closed its reader comes to the end of the stream, or   *)
(* is dropped; it does not stay suspended with nobody left to wake it.     *)
ReaderEnds == closed ~> (eof \/ rtask = "gone")
=============================================================================
