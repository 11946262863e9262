---------------------------- MODULE BinaryLogger ----------------------------
(***************************************************************************)
(* BinaryLogger of src/logger.h: a writer thread (the owner, which calls   *)
(* log, log_batch and finally the destructor) and the flush thread started *)
(* by the constructor, handing two MessageBuffers back and forth through   *)
(* the flush_pending_ flag.                                                *)
(*                                                                         *)
(*  - The writer appends to *write_buffer_; when it is full, trigger_flush *)
(*    spins until flush_pending_ is clear, swaps the two buffer pointers   *)
(*    and sets flush_pending_.                                             *)
(*  - The flush thread polls running_ and flush_pending_, writes           *)
(*    *flush_buffer_ to fd_, resets it and clears flush_pending_.          *)
(*                                                                         *)
(* The release/acquire pairs on flush_pending_ order the buffer accesses,  *)
(* so the two threads interleave as in a sequentially consistent run.      *)
(* BUFFER_CAPACITY is Cap; messages are numbered 1, 2, ... in the order    *)
(* they are logged.  The file is a sequence of half-records <<n, h>>, h  *)
(* in 1..2, the FileHeader being record 0, so that a short write can end  *)
(* inside a record.  FdOk is the result of the constructor's two          *)
(* open() calls; with WriteFaults some behaviours run on a faulty disk, on *)
(* which a write() may persist only a prefix of its buffer (short write,   *)
(* ENOSPC, EIO), whose rest the code drops.                                *)
(*                                                                         *)
(* A BinaryLogReader opens the file once the logger is destroyed (a replay *)
(* of the session) and reads it with read, read_batch and rewind.          *)
(***************************************************************************)
EXTENDS Naturals, Sequences

CONSTANTS
  Cap,          \* BUFFER_CAPACITY
  MaxMsgs,      \* bound on the messages the writer logs
  MaxBatch,     \* largest count passed to log_batch
  LogOps,       \* subset of {"log", "log_batch"} the writer calls
  FdOk,         \* open() succeeded: fd_ >= 0
  WriteFaults,  \* the disk may fail: some behaviours have short writes
  MaxReadBatch  \* largest max_count passed to read_batch

ASSUME Cap \in Nat \ {0} /\ MaxMsgs \in Nat /\ MaxBatch \in Nat \ {0}
ASSUME FdOk \in BOOLEAN /\ WriteFaults \in BOOLEAN

Buffers == {"a", "b"}       \* buffer_a_, buffer_b_
Other(b) == IF b = "a" THEN "b" ELSE "a"

VARIABLES
  bufs,      \* the messages in buffer_a_ / buffer_b_ (count = Len)
  wb,        \* write_buffer_; flush_buffer_ is Other(wb)
  pending,   \* flush_pending_
  running,   \* running_
  file,      \* what reached the file
  wpc,       \* writer: "idle", "batch", "trigger", "sync", "stop",
             \*         "signal", "join", "done"
  ret,       \* where trigger_flush returns to ("idle" or "batch")
  left,      \* log_batch: messages still to copy
  fpc,       \* flush thread: "loop", "check", "work", "final", "exited"
  logged,    \* messages handed to log / log_batch so far
  faulty,    \* this behaviour's write() calls may persist only a prefix
  rstate,    \* reader: "none" (not constructed), "open" (fd_ >= 0), "failed"
  rpos,      \* reader: file offset, in half-records
  mread,     \* reader: messages_read_
  got        \* ghost: the records read since the last rewind, as unit pairs

readerVars == <<rstate, rpos, mread, got>>
vars == <<bufs, wb, pending, running, file, wpc, ret, left, fpc, logged,
          faulty, readerVars>>

Range1(lo, hi) == [i \in 1 .. hi - lo + 1 |-> lo + i - 1]   \* <<lo, ..., hi>>

\* The bytes of records s: two half-records each.
Units(s) == [i \in 1 .. 2 * Len(s) |-> <<s[(i + 1) \div 2], 2 - (i % 2)>>]

\* FileHeader::create(), written first by the constructor; its 56 bytes
\* are one record here (is_valid holds for it).
HeaderUnits == Units(<<0>>)

\* What one ::write(fd_, data, count * sizeof(OutputMsg)) leaves in the
\* file: all of it, or on a faulty disk any prefix, the result unchecked.
Persisted(s) ==
  IF faulty THEN {SubSeq(Units(s), 1, k) : k \in 0 .. 2 * Len(s)}
  ELSE {Units(s)}

Init ==
  /\ bufs = [b \in Buffers |-> <<>>]
  /\ wb = "a"
  /\ pending = FALSE /\ running = TRUE
  /\ wpc = "idle" /\ ret = "idle" /\ left = 0
  /\ fpc = "loop"
  /\ logged = 0
  /\ faulty \in IF WriteFaults THEN BOOLEAN ELSE {FALSE}
  /\ file \in IF FdOk
              THEN {SubSeq(HeaderUnits, 1, k) :
                      k \in IF faulty THEN 0 .. 2 ELSE {2}}
              ELSE {<<>>}
  /\ rstate = "none" /\ rpos = 0 /\ mread = 0 /\ got = <<>>

(***************************************************************************)
(* Writer thread.                                                          *)
(***************************************************************************)
\* (mutant) is_full() tested as count > BUFFER_CAPACITY.
LogCallFullStrict ==
  /\ wpc = "idle" /\ "log" \in LogOps /\ logged < MaxMsgs
  /\ bufs' = [bufs EXCEPT ![wb] = Append(@, logged + 1)]
  /\ logged' = logged + 1
  /\ IF Len(bufs'[wb]) > Cap
       THEN wpc' = "trigger" /\ ret' = "idle"
       ELSE UNCHANGED <<wpc, ret>>
  /\ UNCHANGED <<faulty, wb, pending, running, file, left, fpc, readerVars>>

\* log(msg): data[count++] = msg, then trigger_flush if is_full().
LogCall ==
  /\ wpc = "idle" /\ "log" \in LogOps /\ logged < MaxMsgs
  /\ bufs' = [bufs EXCEPT ![wb] = Append(@, logged + 1)]
  /\ logged' = logged + 1
  /\ IF Len(bufs'[wb]) >= Cap
       THEN wpc' = "trigger" /\ ret' = "idle"
       ELSE UNCHANGED <<wpc, ret>>
  /\ UNCHANGED <<faulty, wb, pending, running, file, left, fpc, readerVars>>

\* log_batch(msgs, count) entered with count = n.
LogBatchCall(n) ==
  /\ wpc = "idle" /\ "log_batch" \in LogOps /\ logged + n <= MaxMsgs
  /\ wpc' = "batch" /\ left' = n
  /\ UNCHANGED <<faulty, bufs, wb, pending, running, file, ret, fpc, logged, readerVars>>

\* (mutant) count -= to_copy is missing.
LogBatchCopyNoDecrement ==
  LET cnt    == Len(bufs[wb])
      toCopy == IF cnt > Cap THEN left
                ELSE IF left < Cap - cnt THEN left ELSE Cap - cnt
  IN  /\ wpc = "batch" /\ left > 0
      /\ bufs' = [bufs EXCEPT ![wb] = @ \o Range1(logged + 1, logged + toCopy)]
      /\ logged' = logged + toCopy
      /\ UNCHANGED left
      /\ IF cnt + toCopy >= Cap
           THEN wpc' = "trigger" /\ ret' = "batch"
           ELSE UNCHANGED <<wpc, ret>>
      /\ UNCHANGED <<faulty, wb, pending, running, file, fpc, readerVars>>

\* One iteration of the while (count > 0) loop: space = remaining(), which
\* wraps to a huge size_t once count > BUFFER_CAPACITY; copy, trigger if full.
LogBatchCopy ==
  LET cnt    == Len(bufs[wb])
      toCopy == IF cnt > Cap THEN left
                ELSE IF left < Cap - cnt THEN left ELSE Cap - cnt
  IN  /\ wpc = "batch" /\ left > 0
      /\ bufs' = [bufs EXCEPT ![wb] = @ \o Range1(logged + 1, logged + toCopy)]
      /\ logged' = logged + toCopy
      /\ left' = left - toCopy
      /\ IF cnt + toCopy >= Cap
           THEN wpc' = "trigger" /\ ret' = "batch"
           ELSE UNCHANGED <<wpc, ret>>
      /\ UNCHANGED <<faulty, wb, pending, running, file, fpc, readerVars>>

\* The loop test fails: log_batch returns.
LogBatchDone ==
  /\ wpc = "batch" /\ left = 0
  /\ wpc' = "idle"
  /\ UNCHANGED <<faulty, bufs, wb, pending, running, file, ret, left, fpc, logged, readerVars>>

\* trigger_flush: the spin on flush_pending_ ends, swap, flush_pending_ = true.
TriggerFlush ==
  /\ wpc = "trigger" /\ ~pending
  /\ wb' = Other(wb) /\ pending' = TRUE
  /\ wpc' = ret
  /\ UNCHANGED <<faulty, bufs, running, file, ret, left, fpc, logged, readerVars>>

\* ~BinaryLogger(): flush_sync() only if the write buffer holds messages.
Destroy ==
  /\ wpc = "idle"
  /\ wpc' = IF Len(bufs[wb]) > 0 THEN "sync" ELSE "stop"
  /\ UNCHANGED <<faulty, bufs, wb, pending, running, file, ret, left, fpc, logged, readerVars>>

\* (mutant) flush_sync() does not wait for the pending flush.
FlushSyncNoWait ==
  /\ wpc = "sync"
  /\ IF FdOk THEN \E s \in Persisted(bufs[wb]) : file' = file \o s
             ELSE UNCHANGED file
  /\ bufs' = [bufs EXCEPT ![wb] = <<>>]
  /\ wpc' = "stop"
  /\ UNCHANGED <<faulty, wb, pending, running, ret, left, fpc, logged, readerVars>>

\* flush_sync(): spin until flush_pending_ is clear, write if fd_ >= 0, reset.
FlushSync ==
  /\ wpc = "sync" /\ ~pending
  /\ IF FdOk THEN \E s \in Persisted(bufs[wb]) : file' = file \o s
             ELSE UNCHANGED file
  /\ bufs' = [bufs EXCEPT ![wb] = <<>>]
  /\ wpc' = "stop"
  /\ UNCHANGED <<faulty, wb, pending, running, ret, left, fpc, logged, readerVars>>

\* (mutant) the destructor only raises flush_pending_, running_ stays true.
StopRunningSkip ==
  /\ wpc = "stop"
  /\ wpc' = "signal"
  /\ UNCHANGED <<faulty, bufs, wb, pending, running, file, ret, left, fpc, logged, readerVars>>

\* running_ = false;
StopRunning ==
  /\ wpc = "stop"
  /\ running' = FALSE /\ wpc' = "signal"
  /\ UNCHANGED <<faulty, bufs, wb, pending, file, ret, left, fpc, logged, readerVars>>

\* flush_pending_ = true;
Signal ==
  /\ wpc = "signal"
  /\ pending' = TRUE /\ wpc' = "join"
  /\ UNCHANGED <<faulty, bufs, wb, running, file, ret, left, fpc, logged, readerVars>>

\* flush_thread_.join(), then fsync and close.
Join ==
  /\ wpc = "join" /\ fpc = "exited"
  /\ wpc' = "done"
  /\ UNCHANGED <<faulty, bufs, wb, pending, running, file, ret, left, fpc, logged, readerVars>>

(***************************************************************************)
(* Flush thread (flush_thread_func).                                       *)
(***************************************************************************)
\* while (running_.load(relaxed))
FlushCheckRunning ==
  /\ fpc = "loop"
  /\ fpc' = IF running THEN "check" ELSE "final"
  /\ UNCHANGED <<faulty, bufs, wb, pending, running, file, wpc, ret, left, logged, readerVars>>

\* if (!flush_pending_.load(acquire)) { sleep; continue; }
FlushCheckPending ==
  /\ fpc = "check"
  /\ fpc' = IF pending THEN "work" ELSE "loop"
  /\ UNCHANGED <<faulty, bufs, wb, pending, running, file, wpc, ret, left, logged, readerVars>>

\* (mutant) the flushed buffer is not reset.
FlushWorkNoReset ==
  LET fb == Other(wb) IN
  /\ fpc = "work"
  /\ IF Len(bufs[fb]) > 0 /\ FdOk
       THEN \E s \in Persisted(bufs[fb]) : file' = file \o s
       ELSE UNCHANGED file
  /\ pending' = FALSE /\ fpc' = "loop"
  /\ UNCHANGED <<faulty, bufs, wb, running, wpc, ret, left, logged, readerVars>>

\* Write and reset *flush_buffer_ only if it is non-empty and fd_ >= 0;
\* then flush_pending_.store(false, release).
FlushWork ==
  LET fb == Other(wb) IN
  /\ fpc = "work"
  /\ IF Len(bufs[fb]) > 0 /\ FdOk
       THEN /\ \E s \in Persisted(bufs[fb]) : file' = file \o s
            /\ bufs' = [bufs EXCEPT ![fb] = <<>>]
       ELSE UNCHANGED <<bufs, file>>
  /\ pending' = FALSE /\ fpc' = "loop"
  /\ UNCHANGED <<faulty, wb, running, wpc, ret, left, logged, readerVars>>

\* After the loop: write what is left in *flush_buffer_ if fd_ >= 0.
FlushFinal ==
  LET fb == Other(wb) IN
  /\ fpc = "final"
  /\ IF Len(bufs[fb]) > 0 /\ FdOk
       THEN \E s \in Persisted(bufs[fb]) : file' = file \o s
       ELSE UNCHANGED file
  /\ fpc' = "exited"
  /\ UNCHANGED <<faulty, bufs, wb, pending, running, wpc, ret, left, logged, readerVars>>

(***************************************************************************)
(* BinaryLogReader, constructed on the file once the logger is destroyed.  *)
(***************************************************************************)
MinOf(a, b) == IF a < b THEN a ELSE b

\* The records in units u, two half-records each; a trailing half is left.
Records(u) == [j \in 1 .. Len(u) \div 2 |-> <<u[2 * j - 1], u[2 * j]>>]

\* The constructor: open(O_RDONLY) and a read of sizeof(header_); a
\* missing file, a short header or one that fails is_valid() (magic,
\* version, msg_size) leaves fd_ = -1.
ReaderOpen ==
  /\ rstate = "none" /\ wpc = "done"
  /\ IF FdOk /\ SubSeq(file, 1, MinOf(Len(file), 2)) = HeaderUnits
       THEN rstate' = "open" /\ rpos' = Len(HeaderUnits)
       ELSE rstate' = "failed" /\ rpos' = MinOf(Len(file), Len(HeaderUnits))
  /\ UNCHANGED <<mread, got>>

\* read(msg): one ::read of sizeof(msg); a short read moves the offset
\* but returns false without counting.
ReaderRead ==
  /\ rstate = "open"
  /\ LET n == MinOf(2, Len(file) - rpos)
     IN  /\ rpos' = rpos + n
         /\ IF n = 2
              THEN /\ got' = Append(got, <<file[rpos + 1], file[rpos + 2]>>)
                   /\ mread' = mread + 1
              ELSE UNCHANGED <<got, mread>>
  /\ UNCHANGED rstate

\* read_batch(msgs, max_count): one ::read of max_count records, counting
\* n / sizeof(OutputMsg) of them; a trailing partial record is consumed.
ReaderReadBatch(k) ==
  /\ rstate = "open"
  /\ LET n == MinOf(2 * k, Len(file) - rpos)
     IN  /\ n > 0
         /\ got' = got \o Records(SubSeq(file, rpos + 1, rpos + n))
         /\ mread' = mread + n \div 2
         /\ rpos' = rpos + n
  /\ UNCHANGED rstate

\* (mutant) rewind seeks to offset 0, before the header.
ReaderRewindToStart ==
  /\ rstate = "open"
  /\ rpos' = 0 /\ mread' = 0 /\ got' = <<>>
  /\ UNCHANGED rstate

\* rewind(): lseek to sizeof(FileHeader) and messages_read_ = 0.
ReaderRewind ==
  /\ rstate = "open"
  /\ rpos' = Len(HeaderUnits) /\ mread' = 0 /\ got' = <<>>
  /\ UNCHANGED rstate

ReaderStep ==
  \/ ReaderOpen \/ ReaderRead \/ ReaderRewind
  \/ \E k \in 1 .. MaxReadBatch : ReaderReadBatch(k)

(***************************************************************************)
(* Specification.                                                          *)
(***************************************************************************)
\* The owner starting a call or destroying the logger: not forced to happen.
WriterCall == LogCall \/ \E n \in 1 .. MaxBatch : LogBatchCall(n) \/ Destroy

\* The rest of a call in progress, run by the owner's thread.
WriterStep ==
  \/ LogBatchCopy \/ LogBatchDone \/ TriggerFlush
  \/ FlushSync \/ StopRunning \/ Signal \/ Join

FlushStep ==
  FlushCheckRunning \/ FlushCheckPending \/ FlushWork \/ FlushFinal

\* The reader's calls, like the owner's, are not forced to happen.
Next ==
  \/ WriterCall \/ WriterStep \/ FlushStep
  \/ ReaderStep /\ UNCHANGED <<bufs, wb, pending, running, file, wpc, ret,
                               left, fpc, logged, faulty>>

\* Both threads are scheduled: a call in progress keeps running (its spins
\* yield, they do not block), and the flush thread keeps polling.
Spec == Init /\ [][Next]_vars /\ WF_vars(WriterStep) /\ WF_vars(FlushStep)

(***************************************************************************)
(* Properties.                                                             *)
(***************************************************************************)
\* Type invariant.
TypeOK ==
  /\ bufs \in [Buffers -> Seq(1 .. MaxMsgs)] /\ wb \in Buffers
  /\ pending \in BOOLEAN /\ running \in BOOLEAN
  /\ file \in Seq((0 .. MaxMsgs) \X {1, 2})
  /\ wpc \in {"idle", "batch", "trigger", "sync", "stop", "signal", "join",
              "done"}
  /\ ret \in {"idle", "batch"} /\ left \in 0 .. MaxBatch
  /\ fpc \in {"loop", "check", "work", "final", "exited"}
  /\ logged \in 0 .. MaxMsgs /\ faulty \in BOOLEAN
  /\ rstate \in {"none", "open", "failed"} /\ rpos \in 0 .. Len(file)
  /\ mread \in Nat /\ got \in Seq(((0 .. MaxMsgs) \X {1, 2}) \X ((0 .. MaxMsgs) \X {1, 2}))

\* log() and log_batch() never store past data[BUFFER_CAPACITY - 1]: the
\* buffer the writer gets back from a swap has always been reset by the
\* flush thread, however the two threads interleave.
BufferNeverOverrun == \A b \in Buffers : Len(bufs[b]) <= Cap

\* With the file open and every write() complete, the file followed by the
\* buffer handed to the flush thread (until that thread has exited; its
\* last write does not reset it) and then the write buffer is exactly the
\* messages logged, in order: the swap, the flush and the destructor's
\* flush_sync lose, duplicate and reorder nothing.
NothingLostOrReordered ==
  LET unflushed == IF fpc = "exited" THEN <<>> ELSE bufs[Other(wb)]
  IN  (FdOk /\ ~faulty) =>
        file = HeaderUnits \o Units(Range1(1, Len(file) \div 2 - 1)) /\
        Range1(1, Len(file) \div 2 - 1) \o unflushed \o bufs[wb] =
          Range1(1, logged)

\* Even when write() persists only part of a buffer, what the file holds
\* is in the order it was logged: flush_sync in the destructor waits for
\* the flush thread's pending buffer before writing the newer messages.
FileInLogOrder ==
  \A i \in 1 .. Len(file) - 1 :
    \/ file[i][1] < file[i + 1][1]
    \/ file[i][1] = file[i + 1][1] /\ file[i][2] < file[i + 1][2]

\* A replay on a healthy disk gives back the log: the records read since
\* the constructor or the last rewind are messages 1, 2, ... whole and in
\* order, messages_read() counts them, and once the reader is at the end
\* of the file it has returned every message logged.  Reader and writer
\* agree on the header's size and the record layout, and the destructor
\* left nothing in the buffers.
ReplayReturnsLog ==
  (FdOk /\ ~faulty /\ rstate = "open") =>
    /\ got = Records(Units(Range1(1, Len(got))))
    /\ mread = Len(got)
    /\ rpos = Len(file) => Len(got) = logged

\* Every log, log_batch and destructor call returns: trigger_flush's and
\* flush_sync's spins on flush_pending_ end, and join() ends because the
\* flush thread sees running_ = false.
CallsReturn == (wpc \notin {"idle", "done"}) ~> (wpc \in {"idle", "done"})

=============================================================================
