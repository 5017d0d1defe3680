-------------------------------- MODULE Trace --------------------------------
(***************************************************************************)
(* The per-thread trace ring buffers of src/src/anamnesis_trace.c.  Each   *)
(* thread of Threads has its own tls_buffer; g_trace_ctx.active and        *)
(* next_thread_id are shared.  A record stores an entry at head & mask,    *)
(* flushes when more than three quarters of the ring is in use, and counts *)
(* an overflow when head - tail reaches the capacity.  A flush appends the *)
(* entries from tail to head to trace_thread_<tid>.bin and sets tail to    *)
(* head; fopen may fail, and the flush then changes nothing; an fwrite    *)
(* may write short, and the flush sets tail to head all the same.        *)
(*                                                                         *)
(* An entry is abstracted to the thread that stored it and the number of  *)
(* that thread's record call (<<t, 1>>, <<t, 2>>, ...); Zeroed is the    *)
(* entry calloc leaves.  Timestamp, slot, generation and op type are     *)
(* data no property tells apart.  head and tail are uint32 counters that  *)
(* stay below MaxRecords, so their wrap at 2^32 is not reached.            *)
(* g_trace_ctx.active is a plain bool; each read of it is one step and     *)
(* sees the last value written.  get_buffer's read of it and the buffer   *)
(* creation that follows are one step: a shutdown between them touches    *)
(* only the caller's own buffer, so it leads to the same states.          *)
(***************************************************************************)
EXTENDS Naturals, Sequences, Functions

CONSTANTS
  Threads,      \* the threads that trace
  Capacity,     \* buffer_size given to anam_trace_init
  MaxRecords,   \* bound on the records each thread stores
  FlushFails,   \* TRUE: fopen and fwrite in a flush may fail
  MaxCalls      \* bound on calls of flush_thread, shutdown and init

VARIABLES
  ctx_active,      \* g_trace_ctx.active
  next_thread_id,  \* g_trace_ctx.next_thread_id
  has_buf,         \* tls_buffer != NULL, by thread
  buf,             \* *tls_buffer by thread: head, tail, entries, overflow, tid
  files,           \* trace_thread_<tid>.bin, by thread id
  recs,            \* records each thread has stored so far (auxiliary)
  lost,            \* records given up by an overflow or failed I/O (auxiliary)
  calls,           \* lifecycle calls made so far (auxiliary)
  io_failed,       \* some fopen or fwrite of a flush has failed (auxiliary)
  done             \* the thread has made its last flush_thread and exited

vars == <<ctx_active, next_thread_id, has_buf, buf, files, recs, lost, calls,
          io_failed, done>>

Mask == Capacity - 1
Tids == 0..255
\* The all-zero entry of a calloc'd ring.
Zeroed == <<>>

IsPowerOfTwo(n) == \E k \in 0..n : 2^k = n

(***************************************************************************)
(* Possible outcomes of the flush's I/O: whether fopen(filename, "ab")     *)
(* succeeds, and whether each of the two fwrite calls writes its whole     *)
(* chunk or, short, nothing of it (a full disk).  A failed fclose, whose   *)
(* result the code ignores, loses what fwrite buffered: the same states    *)
(* as a short fwrite, without the message on stderr.                       *)
(***************************************************************************)
IoResults ==
  IF FlushFails
    THEN {[open |-> FALSE, w1 |-> FALSE, w2 |-> FALSE]}
         \cup [open : {TRUE}, w1 : BOOLEAN, w2 : BOOLEAN]
    ELSE {[open |-> TRUE, w1 |-> TRUE, w2 |-> TRUE]}

\* anam_trace_buffer_create: calloc'd entries, head = tail = 0, and the
\* thread id fetched from next_thread_id.
Fresh(id) == [head |-> 0, tail |-> 0, entries |-> [p \in 0..Mask |-> Zeroed],
              overflow |-> 0, tid |-> id]

\* anam_trace_init(dir, Capacity) has run; a size that is not a power of
\* two leaves tracing inactive.  No thread has a buffer yet.
Init ==
  /\ ctx_active = (Capacity > 0 /\ IsPowerOfTwo(Capacity))
  /\ next_thread_id = 0
  /\ has_buf = [t \in Threads |-> FALSE]
  /\ buf = [t \in Threads |-> Fresh(0)]
  /\ files = [t \in Tids |-> <<>>]
  /\ recs = [t \in Threads |-> 0]
  /\ lost = {}
  /\ calls = 0
  /\ io_failed = FALSE
  /\ done = [t \in Threads |-> FALSE]

----------------------------------------------------------------------------
(* anam_trace_buffer_flush *)

\* count = (head - tail) & mask, or the whole ring when it is 0 after an
\* overflow.
FlushCount(b) ==
  LET c == (b.head - b.tail) % Capacity
  IN IF c = 0 /\ b.overflow > 0 THEN Capacity ELSE c

\* Mutant: a wrapped flush writes only the chunk from tail_idx to the end.
FlushChunksNoWrap(b) ==
  LET t == b.tail % Capacity
      h == b.head % Capacity
      c == FlushCount(b)
  IN IF t < h THEN <<[i \in 1..c |-> b.entries[t + i - 1]], <<>>>>
     ELSE <<[i \in 1..(Capacity - t) |-> b.entries[t + i - 1]], <<>>>>

\* Mutant: a wrapped flush writes the chunk from the start first.
FlushChunksSwapped(b) ==
  LET t == b.tail % Capacity
      h == b.head % Capacity
      c == FlushCount(b)
      first == Capacity - t
  IN IF t < h THEN <<[i \in 1..c |-> b.entries[t + i - 1]], <<>>>>
     ELSE <<[i \in 1..(c - first) |-> b.entries[i - 1]],
            [i \in 1..first |-> b.entries[t + i - 1]]>>

\* The entries the two fwrite calls are given: one block from tail_idx
\* when tail_idx < head_idx, otherwise tail_idx to the end and then
\* count - first_chunk entries from the start.
FlushChunks(b) ==
  LET t == b.tail % Capacity
      h == b.head % Capacity
      c == FlushCount(b)
      first == Capacity - t
  IN IF t < h THEN <<[i \in 1..c |-> b.entries[t + i - 1]], <<>>>>
     ELSE <<[i \in 1..first |-> b.entries[t + i - 1]],
            [i \in 1..(c - first) |-> b.entries[i - 1]]>>

\* What reaches the file: each chunk, unless its fwrite wrote short.
FlushBlock(b, io) ==
  (IF io.w1 THEN FlushChunks(b)[1] ELSE <<>>)
  \o (IF io.w2 THEN FlushChunks(b)[2] ELSE <<>>)

\* The flush writes when head != tail, fopen succeeds and count != 0.
FlushWrites(b, io) == b.head # b.tail /\ io.open /\ FlushCount(b) # 0

\* The flush's fopen failed, or one of its fwrite calls wrote short.
IoFailed(b, io) ==
  \/ b.head # b.tail /\ ~io.open
  \/ FlushWrites(b, io) /\ FlushBlock(b, io) # FlushChunks(b)[1] \o FlushChunks(b)[2]

\* tail = head after the writes, whatever fwrite returned.
AfterFlush(b, io) ==
  IF FlushWrites(b, io) THEN [b EXCEPT !.tail = b.head] ELSE b

\* The records waiting in the ring of buffer b, from tail to head.
RingOf(b) ==
  {b.entries[(b.tail + j) % Capacity] : j \in 0..(b.head - b.tail - 1)} \ {Zeroed}

\* The records a flush gives up: those of a short fwrite, whose slots
\* tail = head frees.  (A buffer destroyed after a failed fopen takes its
\* records with it; see Dropped.)
ShortLost(b, io) ==
  IF FlushWrites(b, io)
    THEN (Range(FlushChunks(b)[1]) \cup Range(FlushChunks(b)[2]))
         \ Range(FlushBlock(b, io))
    ELSE {}

Dropped(b, io) == IF FlushWrites(b, io) THEN ShortLost(b, io) ELSE RingOf(b)

FilesAfter(b, io) ==
  IF FlushWrites(b, io) THEN [files EXCEPT ![b.tid] = @ \o FlushBlock(b, io)]
  ELSE files

----------------------------------------------------------------------------
(* anam_trace_record, reached from anam_trace_alloc, _release and _get *)

\* anam_trace_get_buffer: the thread's buffer, created on first use while
\* tracing is active; creating it is a fetch_add of next_thread_id.
Current(t) == IF has_buf[t] THEN buf[t] ELSE Fresh(next_thread_id)

\* The entry at head & mask is overwritten; it is lost when it was stored
\* since the last flush.
Overwritten(b) ==
  IF b.head - b.tail >= Capacity THEN {b.entries[b.head % Capacity]} ELSE {}

\* Store the entry, head++, flush when used > capacity * 3 / 4, then count
\* an overflow when head - tail >= capacity.  A call with no buffer and
\* tracing inactive returns at once and changes nothing.
Record(t) ==
  /\ ~done[t] /\ recs[t] < MaxRecords
  /\ has_buf[t] \/ ctx_active
  /\ \E io \in IoResults :
       LET b == Current(t)
           s == [b EXCEPT !.entries[b.head % Capacity] = <<t, recs[t] + 1>>,
                          !.head = @ + 1]
           full == (s.head - s.tail) % Capacity > (Capacity * 3) \div 4
           f == IF full THEN AfterFlush(s, io) ELSE s
       IN /\ buf' = [buf EXCEPT ![t] = IF f.head - f.tail >= Capacity
                                       THEN [f EXCEPT !.overflow = @ + 1]
                                       ELSE f]
          /\ files' = IF full THEN FilesAfter(s, io) ELSE files
          /\ lost' = lost \cup Overwritten(b)
                   \cup (IF full THEN ShortLost(s, io) ELSE {})
          /\ io_failed' = (io_failed \/ (full /\ IoFailed(s, io)))
  /\ has_buf' = [has_buf EXCEPT ![t] = TRUE]
  /\ next_thread_id' = IF has_buf[t] THEN next_thread_id
                       ELSE (next_thread_id + 1) % 256
  /\ recs' = [recs EXCEPT ![t] = @ + 1]
  /\ UNCHANGED <<ctx_active, calls, done>>

----------------------------------------------------------------------------
(* anam_trace_flush_thread, anam_trace_shutdown, anam_trace_init *)

\* Mutant: flush_thread flushes only while g_trace_ctx.active is set, and
\* destroys the buffer either way.
FlushThreadBodyCtx(t) ==
  /\ IF ctx_active
       THEN \E io \in IoResults :
              /\ files' = FilesAfter(buf[t], io)
              /\ lost' = lost \cup Dropped(buf[t], io)
              /\ io_failed' = (io_failed \/ IoFailed(buf[t], io))
       ELSE UNCHANGED <<files, lost, io_failed>>
  /\ has_buf' = [has_buf EXCEPT ![t] = FALSE]
  /\ buf' = [buf EXCEPT ![t] = Fresh(0)]

\* flush_thread on a thread that has a buffer: buf->active is still set,
\* so the buffer is flushed, then destroyed and tls_buffer cleared.  The
\* freed buffer's contents are no longer state (Fresh(0) stands for it).
FlushThreadBody(t) ==
  /\ \E io \in IoResults :
       /\ files' = FilesAfter(buf[t], io)
       /\ lost' = lost \cup Dropped(buf[t], io)
       /\ io_failed' = (io_failed \/ IoFailed(buf[t], io))
  /\ has_buf' = [has_buf EXCEPT ![t] = FALSE]
  /\ buf' = [buf EXCEPT ![t] = Fresh(0)]

\* No buffer: flush_thread does nothing.
NoBuffer == UNCHANGED <<files, lost, io_failed, has_buf, buf>>

FlushThread(t) ==
  /\ ~done[t] /\ has_buf[t] /\ calls < MaxCalls
  /\ FlushThreadBody(t)
  /\ calls' = calls + 1
  /\ UNCHANGED <<ctx_active, next_thread_id, recs, done>>

\* Mark tracing inactive, then flush_thread.  Only the caller's buffer is
\* flushed; the other threads keep theirs.
Shutdown(t) ==
  /\ ~done[t] /\ ctx_active /\ calls < MaxCalls
  /\ ctx_active' = FALSE
  /\ IF has_buf[t] THEN FlushThreadBody(t) ELSE NoBuffer
  /\ calls' = calls + 1
  /\ UNCHANGED <<next_thread_id, recs, done>>

\* A later anam_trace_init with the same size: tracing active again and
\* thread ids restarting at 0.  As anamnesis_trace.h asks, it is called
\* while no thread holds a trace buffer.
TraceInit(t) ==
  /\ ~done[t] /\ calls < MaxCalls
  /\ ~ctx_active \/ next_thread_id # 0
  /\ \A u \in Threads : ~has_buf[u]
  /\ ctx_active' = TRUE
  /\ next_thread_id' = 0
  /\ calls' = calls + 1
  /\ UNCHANGED <<has_buf, buf, files, recs, lost, io_failed, done>>

\* A thread's last call before it exits: anamnesis_trace.h asks every
\* thread to call flush_thread before pthread_exit.
Exit(t) ==
  /\ ~done[t]
  /\ IF has_buf[t] THEN FlushThreadBody(t) ELSE NoBuffer
  /\ done' = [done EXCEPT ![t] = TRUE]
  /\ UNCHANGED <<ctx_active, next_thread_id, recs, calls>>

Terminated == (\A t \in Threads : done[t]) /\ UNCHANGED vars

Next ==
  \/ \E t \in Threads :
       Record(t) \/ FlushThread(t) \/ Shutdown(t) \/ TraceInit(t) \/ Exit(t)
  \/ Terminated

\* Every thread eventually makes its last flush_thread and exits.
Spec == Init /\ [][Next]_vars /\ \A t \in Threads : WF_vars(Exit(t))

----------------------------------------------------------------------------
(* Properties *)

\* Every record stored, every record written to a file, and every record
\* still waiting in a ring.
Recorded == {r \in Threads \X (1..MaxRecords) : r[2] <= recs[r[1]]}
Written == UNION {Range(files[i]) : i \in Tids}
Pending == UNION {RingOf(buf[t]) : t \in {u \in Threads : has_buf[u]}}

(***************************************************************************)
(* No record is lost (anamnesis_trace.h: "Automatic flush on buffer        *)
(* fill"): while every fopen and fwrite succeeds, each record a thread   *)
(* stored is in a file or still waiting in that thread's ring, because    *)
(* the 75% flush in anam_trace_record empties the ring before head laps   *)
(* tail.                                                                   *)
(***************************************************************************)
TraceIntact == ~io_failed => Recorded \subseteq Written \cup Pending

(***************************************************************************)
(* Overflow loses only the oldest entries (the comment at the overflow     *)
(* check in anam_trace_record): a record missing from the files and the   *)
(* rings is one a later record overwrote before any flush wrote it, or one *)
(* a buffer took with it when flush_thread destroyed it after a failed     *)
(* fopen, or one a short fwrite left out (reported on stderr).  No flush   *)
(* that opened its file leaves behind a record still in the ring.          *)
(***************************************************************************)
OnlyOldestLost == Recorded \subseteq Written \cup Pending \cup lost

(***************************************************************************)
(* Each trace file holds distinct records, no zeroed entry, and the        *)
(* records of each thread in the order that thread stored them: the two    *)
(* fwrite calls of a wrapped flush put the ring's entries out in order,    *)
(* and tail = head keeps a later flush from writing them again.            *)
(***************************************************************************)
FileOrdered ==
  \A i \in Tids :
    \A n \in 1..Len(files[i]) :
      /\ files[i][n] # Zeroed
      /\ \A m \in 1..(n - 1) :
           /\ files[i][m] # files[i][n]
           /\ files[i][m][1] = files[i][n][1] => files[i][m][2] < files[i][n][2]

(***************************************************************************)
(* Every record reaches a file (anamnesis_trace.h: shutdown "flush[es] all *)
(* buffers", the other threads calling flush_thread before they exit):     *)
(* while every fopen and fwrite succeeds, once the threads have made      *)
(* their last flush_thread each record any of them stored is in a trace   *)
(* file.  This covers the threads that keep recording into their buffers *)
(* after another thread's shutdown cleared g_trace_ctx.active.            *)
(***************************************************************************)
TraceDrained == <>[](~io_failed => Recorded \subseteq Written)

=============================================================================
