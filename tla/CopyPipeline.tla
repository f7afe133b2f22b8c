---------------------------- MODULE CopyPipeline ----------------------------
(***************************************************************************)
(* copyFileThreaded of fs.cpp: one thread reads the source file into       *)
(* buffers, another writes the buffers to the destination, and two         *)
(* LockingQueues carry the buffers round: `read` holds the free ones and   *)
(* `write` the filled ones.  A buffer of length 0 is the end marker.       *)
(*                                                                         *)
(* A critical section of LockingQueue::guard is one step; the notify_one   *)
(* that push calls after it has released the guard is a step of its own.   *)
(* A unit of data is named by its position in the source, so the source    *)
(* file is 1, 2, ..., FileLen.  `dst` is what the destination stream has   *)
(* accepted: the flush of its stdio buffer belongs to copyFile, the caller.*)
(***************************************************************************)
EXTENDS Integers, Sequences

CONSTANTS NumBuffers,   \* buffers[16]
          BufSize,      \* bufferSize, in units
          FileLen,      \* the length of the source file, in units
          ReadFaults,   \* may fread set the source's error flag?
          WriteFaults   \* may fwrite fall short?

ASSUME CopyAssumption ==
  /\ NumBuffers \in Nat \ {0}
  /\ BufSize \in Nat \ {0}
  /\ FileLen \in Nat
  /\ ReadFaults \in BOOLEAN
  /\ WriteFaults \in BOOLEAN

VARIABLES
  read, write,     \* LockingQueue<file_buffer>: free buffers, filled buffers
  mem,             \* the memory behind file_buffer::buf, shared by all copies
  rpc, rbuf,       \* readThread: where it is, its currentBuffer
  wpc, wbuf,       \* writeThread: where it is, its currentBuffer
  bytes_written,   \* what writeThread's last fwrite returned
  pos, srcErr,     \* srcFile: units read, ferror
  dst, dstErr,     \* dstFile: units accepted, ferror
  mpc, success     \* copyFileThreaded itself

readerVars == <<rpc, rbuf>>
writerVars == <<wpc, wbuf, bytes_written>>
srcVars    == <<pos, srcErr>>
dstVars    == <<dst, dstErr>>
mainVars   == <<mpc, success>>
vars == <<read, write, mem, readerVars, writerVars, srcVars, dstVars, mainVars>>

Buffers == 1..NumBuffers
Memory  == [1..BufSize -> 0..FileLen]      \* 0: never filled
file_buffer == [buf : Buffers, len : 0..BufSize]

-----------------------------------------------------------------------------
(* readThread: waitAndPop(ready = read); fread; push(done = write) ...       *)

\* waitAndPop, under the guard: take the front or go to sleep in `signal`.
\* The wait gives up the guard as it falls asleep, so no push comes between.
ReaderPop ==
  /\ rpc = "pop"
  /\ \/ /\ read # <<>>
        /\ rbuf' = Head(read)
        /\ read' = Tail(read)
        /\ rpc' = "fread"
     \/ /\ read = <<>>
        /\ rpc' = "asleep"
        /\ UNCHANGED <<rbuf, read>>
  /\ UNCHANGED <<write, mem, writerVars, srcVars, dstVars, mainVars>>

\* fread stores n units; it returns fewer than it was asked for, and than the
\* file has left, only with the error flag set.  The flag is sticky, and a
\* short count does not end the loop: only 0 does.
FreadInto(b, n) ==
  mem' = [mem EXCEPT ![b] = [i \in 1..BufSize |-> IF i <= n THEN pos + i ELSE @[i]]]

Available == IF FileLen - pos < BufSize THEN FileLen - pos ELSE BufSize

ReaderFread ==
  /\ rpc = "fread"
  /\ \E n \in 0..Available :
       /\ \/ n = Available /\ UNCHANGED srcErr
          \/ ReadFaults /\ n < BufSize /\ srcErr' = TRUE
       /\ rbuf' = [rbuf EXCEPT !.len = n]
       /\ FreadInto(rbuf.buf, n)
       /\ pos' = pos + n
  /\ rpc' = "push"
  /\ UNCHANGED <<read, write, writerVars, dstVars, mainVars>>

ReaderPush ==
  /\ rpc = "push"
  /\ write' = Append(write, rbuf)
  /\ rpc' = "notify"
  /\ UNCHANGED <<read, mem, rbuf, writerVars, srcVars, dstVars, mainVars>>

\* Mutant: push forgets notify_one.
ReaderNotify_Silent ==
  /\ rpc = "notify"
  /\ rpc' = IF rbuf.len > 0 THEN "pop" ELSE "done"
  /\ UNCHANGED <<read, write, mem, rbuf, writerVars, srcVars, dstVars, mainVars>>

\* notify_one, after the guard is released; a sleeper goes back to its test.
\* The buffer pushed outside the loop is the one of length 0.
ReaderNotify ==
  /\ rpc = "notify"
  /\ wpc' = IF wpc = "asleep" THEN "pop" ELSE wpc
  /\ rpc' = IF rbuf.len > 0 THEN "pop" ELSE "done"
  /\ UNCHANGED <<read, write, mem, rbuf, wbuf, bytes_written,
                 srcVars, dstVars, mainVars>>

\* A condition variable may wake for no reason.
ReaderSpuriousWakeup ==
  /\ rpc = "asleep"
  /\ rpc' = "pop"
  /\ UNCHANGED <<read, write, mem, rbuf, writerVars, srcVars, dstVars, mainVars>>

ReaderStep == ReaderPop \/ ReaderFread \/ ReaderPush \/ ReaderNotify

-----------------------------------------------------------------------------
(* writeThread: waitAndPop(ready = write); fwrite; push(done = read) ...     *)

\* Mutant: a stack instead of a queue.
WriterPop_Lifo ==
  /\ wpc = "pop"
  /\ \/ /\ write # <<>>
        /\ wbuf' = write[Len(write)]
        /\ write' = SubSeq(write, 1, Len(write) - 1)
        /\ wpc' = "fwrite"
     \/ /\ write = <<>>
        /\ wpc' = "asleep"
        /\ UNCHANGED <<wbuf, write>>
  /\ UNCHANGED <<read, mem, bytes_written, readerVars, srcVars, dstVars, mainVars>>

WriterPop ==
  /\ wpc = "pop"
  /\ \/ /\ write # <<>>
        /\ wbuf' = Head(write)
        /\ write' = Tail(write)
        /\ wpc' = "fwrite"
     \/ /\ write = <<>>
        /\ wpc' = "asleep"
        /\ UNCHANGED <<wbuf, write>>
  /\ UNCHANGED <<read, mem, bytes_written, readerVars, srcVars, dstVars, mainVars>>

\* The loop test: no fwrite for the end marker, and a short count, which sets
\* the error flag, is the other way out of the loop.
WriterFwrite ==
  /\ wpc = "fwrite"
  /\ \/ /\ wbuf.len = 0
        /\ UNCHANGED <<bytes_written, dstVars>>
     \/ /\ wbuf.len > 0
        /\ \E n \in 0..wbuf.len :
             /\ \/ n = wbuf.len /\ UNCHANGED dstErr
                \/ WriteFaults /\ n < wbuf.len /\ dstErr' = TRUE
             /\ bytes_written' = n
             /\ dst' = dst \o [i \in 1..n |-> mem[wbuf.buf][i]]
  /\ wpc' = "push"
  /\ UNCHANGED <<read, write, mem, wbuf, readerVars, srcVars, mainVars>>

\* Mutant: the writer leaves at a failed fwrite without giving its buffer back.
WriterPush_DropOnError ==
  /\ wpc = "push"
  /\ read' = IF bytes_written < wbuf.len THEN read ELSE Append(read, wbuf)
  /\ wpc' = "notify"
  /\ UNCHANGED <<write, mem, wbuf, bytes_written, readerVars, srcVars, dstVars,
                 mainVars>>

WriterPush ==
  /\ wpc = "push"
  /\ read' = Append(read, wbuf)
  /\ wpc' = "notify"
  /\ UNCHANGED <<write, mem, wbuf, bytes_written, readerVars, srcVars, dstVars,
                 mainVars>>

\* Mutant: the count is compared with the size of the buffer, not its length.
WriterGoesOn_BufSize == wbuf.len > 0 /\ bytes_written = BufSize

WriterGoesOn == wbuf.len > 0 /\ bytes_written = wbuf.len

\* Mutant: push forgets notify_one.
WriterNotify_Silent ==
  /\ wpc = "notify"
  /\ wpc' = IF WriterGoesOn THEN "pop" ELSE "done"
  /\ UNCHANGED <<read, write, mem, readerVars, wbuf, bytes_written,
                 srcVars, dstVars, mainVars>>

WriterNotify ==
  /\ wpc = "notify"
  /\ rpc' = IF rpc = "asleep" THEN "pop" ELSE rpc
  /\ wpc' = IF WriterGoesOn THEN "pop" ELSE "done"
  /\ UNCHANGED <<read, write, mem, rbuf, wbuf, bytes_written,
                 srcVars, dstVars, mainVars>>

WriterSpuriousWakeup ==
  /\ wpc = "asleep"
  /\ wpc' = "pop"
  /\ UNCHANGED <<read, write, mem, wbuf, bytes_written, readerVars, srcVars,
                 dstVars, mainVars>>

WriterStep == WriterPop \/ WriterFwrite \/ WriterPush \/ WriterNotify

-----------------------------------------------------------------------------
(* copyFileThreaded: two std::async with launch::async, then the futures.    *)

LaunchReader ==
  /\ mpc = "launch_read"
  /\ rpc' = "pop"
  /\ mpc' = "launch_write"
  /\ UNCHANGED <<read, write, mem, rbuf, writerVars, srcVars, dstVars, success>>

LaunchWriter ==
  /\ mpc = "launch_write"
  /\ wpc' = "pop"
  /\ mpc' = "get_read"
  /\ UNCHANGED <<read, write, mem, wbuf, bytes_written, readerVars, srcVars,
                 dstVars, success>>

\* readFut.get() && ... : a failed read decides the result on its own.
GetRead ==
  /\ mpc = "get_read"
  /\ rpc = "done"
  /\ mpc' = IF srcErr THEN "destroy" ELSE "get_write"
  /\ UNCHANGED <<read, write, mem, readerVars, writerVars, srcVars, dstVars, success>>

\* Mutant: the result of writeThread is not looked at.
GetWrite_Ignored ==
  /\ mpc = "get_write"
  /\ wpc = "done"
  /\ success' = TRUE
  /\ mpc' = "destroy"
  /\ UNCHANGED <<read, write, mem, readerVars, writerVars, srcVars, dstVars>>

GetWrite ==
  /\ mpc = "get_write"
  /\ wpc = "done"
  /\ success' = ~dstErr
  /\ mpc' = "destroy"
  /\ UNCHANGED <<read, write, mem, readerVars, writerVars, srcVars, dstVars>>

\* Leaving the scope runs ~future of writeFut and readFut, which wait for a
\* thread nobody has joined; ~LockingQueue of `write` and `read` runs after.
Destroy ==
  /\ mpc = "destroy"
  /\ rpc = "done"
  /\ wpc = "done"
  /\ mpc' = "returned"
  /\ UNCHANGED <<read, write, mem, readerVars, writerVars, srcVars, dstVars, success>>

MainStep == LaunchReader \/ LaunchWriter \/ GetRead \/ GetWrite \/ Destroy

-----------------------------------------------------------------------------
Init ==
  /\ read = [i \in 1..NumBuffers |-> [buf |-> i, len |-> 0]]
  /\ write = <<>>
  /\ mem = [b \in Buffers |-> [i \in 1..BufSize |-> 0]]
  /\ rpc = "idle" /\ rbuf = [buf |-> 1, len |-> 0]
  /\ wpc = "idle" /\ wbuf = [buf |-> 1, len |-> 0]
  /\ bytes_written = 0
  /\ pos = 0 /\ srcErr = FALSE
  /\ dst = <<>> /\ dstErr = FALSE
  /\ mpc = "launch_read" /\ success = FALSE

\* copyFileThreaded has returned to copyFile: nothing of it runs any more.
Returned == mpc = "returned" /\ UNCHANGED vars

Next ==
  \/ ReaderStep \/ ReaderSpuriousWakeup
  \/ WriterStep \/ WriterSpuriousWakeup
  \/ MainStep
  \/ Returned

Spec == Init /\ [][Next]_vars

\* Every thread is scheduled; nothing promises a spurious wakeup.
FairSpec == Spec /\ WF_vars(ReaderStep) /\ WF_vars(WriterStep) /\ WF_vars(MainStep)

-----------------------------------------------------------------------------
(* Properties.                                                               *)

ReaderHolds == rpc \in {"fread", "push"}
WriterHolds == wpc \in {"fwrite", "push"}

\* Every variable keeps its type: the queues carry file_buffers, the
\* source is never read beyond its end, the threads are where the code can be.
TypeOK ==
  /\ read \in Seq(file_buffer)
  /\ write \in Seq(file_buffer)
  /\ mem \in [Buffers -> Memory]
  /\ rpc \in {"idle", "pop", "asleep", "fread", "push", "notify", "done"}
  /\ rbuf \in file_buffer
  /\ wpc \in {"idle", "pop", "asleep", "fwrite", "push", "notify", "done"}
  /\ wbuf \in file_buffer
  /\ bytes_written \in 0..BufSize
  /\ pos \in 0..FileLen
  /\ srcErr \in BOOLEAN
  /\ dst \in Seq(0..FileLen)
  /\ dstErr \in BOOLEAN
  /\ mpc \in {"launch_read", "launch_write", "get_read", "get_write",
              "destroy", "returned"}
  /\ success \in BOOLEAN

\* The memory of a buffer is never reachable from two places at once, though
\* file_buffers are passed by value and the memory behind `buf` is not: so
\* fread never fills what fwrite is sending.
SinglePlace ==
  /\ \A i, j \in 1..Len(read) : i # j => read[i].buf # read[j].buf
  /\ \A i, j \in 1..Len(write) : i # j => write[i].buf # write[j].buf
  /\ \A i \in 1..Len(read), j \in 1..Len(write) : read[i].buf # write[j].buf
  /\ ReaderHolds =>
       /\ \A i \in 1..Len(read) : read[i].buf # rbuf.buf
       /\ \A i \in 1..Len(write) : write[i].buf # rbuf.buf
  /\ WriterHolds =>
       /\ \A i \in 1..Len(read) : read[i].buf # wbuf.buf
       /\ \A i \in 1..Len(write) : write[i].buf # wbuf.buf
  /\ ReaderHolds /\ WriterHolds => rbuf.buf # wbuf.buf

\* No buffer is dropped, on the error paths either: the pool is always whole.
NoBufferLost ==
  Len(read) + Len(write) + (IF ReaderHolds THEN 1 ELSE 0)
                         + (IF WriterHolds THEN 1 ELSE 0) = NumBuffers

\* Each buffer of the pool is in one place at any moment: in a queue or with the
\* thread that works on it (fs.cpp:185-216).
BuffersAccounted == SinglePlace /\ NoBufferLost

\* The destination is a prefix of the source at every moment, whatever the
\* interleaving, the reuse of buffers and the failures so far.
InOrder == \A i \in 1..Len(dst) : dst[i] = i

\* push notifies after it has released the guard, yet no consumer sleeps
\* beside a queue with something in it unless the notify is still to come.
NoLostWakeup ==
  /\ rpc = "asleep" /\ read # <<>> => wpc = "notify"
  /\ wpc = "asleep" /\ write # <<>> => rpc = "notify"

\* The reader waits for a free buffer and the writer, gone, will free no more.
Starved == rpc \in {"pop", "asleep"} /\ read = <<>> /\ wpc = "done"

\* The reader starves only behind a failed fwrite, and then every buffer of
\* the pool is in the queue the writer has stopped reading.
StarvesOnlyAfterWriteError == Starved => dstErr /\ Len(write) = NumBuffers

\* The copy returns to its caller, under fair scheduling of the threads.
CopyEnds == <>(mpc = "returned")

\* With failing writes, the copy either returns or ends up Starved: there is
\* no other way for the two threads to wait on each other.
CopyEndsOrStarves == <>(mpc = "returned" \/ Starved)

\* The promise of StreamCopy: units in order, and "ok" only for all of them
\* with no error on either stream.
SC == INSTANCE StreamCopy WITH
        out <- dst,
        fault <- srcErr \/ dstErr,
        result <- IF mpc # "returned" THEN "none"
                  ELSE IF success THEN "ok" ELSE "failed"

CopiesStream == SC!Spec
-----------------------------------------------------------------------------
(* The inductive invariant behind InOrder and CopiesStream.                  *)

Carries(x, at) == \A i \in 1..x.len : mem[x.buf][i] = at + i

Unsent   == IF wpc = "fwrite" THEN wbuf.len ELSE 0    \* popped, not yet written
Unqueued == IF rpc = "push" THEN rbuf.len ELSE 0      \* read, not yet pushed

\* at[j] is the file position at which the j-th filled buffer starts: the
\* buffers follow each other, the last ends where the reader is, and the
\* first starts where the writer is, unless the writer has given up.
Chained(at) ==
  /\ \A j \in 1..Len(write) :
        at[j + 1] = at[j] + write[j].len /\ Carries(write[j], at[j])
  /\ at[Len(write) + 1] = pos - Unqueued
  /\ Len(dst) + Unsent <= at[1]
  /\ ~dstErr => at[1] = Len(dst) + Unsent

ReaderFinished == rpc \in {"notify", "done"} /\ rbuf.len = 0
MarkerTaken    == wpc \in {"fwrite", "push", "notify", "done"} /\ wbuf.len = 0

\* What has been read and not yet written is in flight, in file order.
InFlight ==
  /\ \E at \in [1..(Len(write) + 1) -> 0..pos] : Chained(at)
  /\ rpc = "push" => Carries(rbuf, pos - rbuf.len)
  /\ wpc = "fwrite" => Carries(wbuf, Len(dst))

\* The end marker is the last thing pushed and the last thing popped, the
\* writer's exits are told apart by dstErr, and the futures see it so.
Control ==
  /\ \A j \in 1..Len(write) : write[j].len = 0 => j = Len(write) /\ ReaderFinished
  /\ MarkerTaken => write = <<>> /\ ReaderFinished
  /\ dstErr <=> /\ wpc \in {"push", "notify", "done"}
                /\ wbuf.len > 0 /\ bytes_written # wbuf.len
  /\ wpc = "done" => ~WriterGoesOn
  /\ rpc \in {"push", "notify", "done"} /\ rbuf.len = 0 => pos = FileLen \/ srcErr
  /\ rpc = "done" => rbuf.len = 0
  /\ mpc = "launch_read" => rpc = "idle"
  /\ mpc \in {"launch_read", "launch_write"} => wpc = "idle"
  /\ mpc = "get_write" => rpc = "done" /\ ~srcErr
  /\ mpc \in {"destroy", "returned"} =>
       /\ rpc = "done"
       /\ \/ srcErr /\ ~success
          \/ ~srcErr /\ wpc = "done" /\ success = ~dstErr
  /\ mpc = "returned" => wpc = "done"
  /\ success => mpc \in {"destroy", "returned"}

\* Between them: what is on its way is exactly what the destination lacks.
CopyInv == InFlight /\ Control
=============================================================================
