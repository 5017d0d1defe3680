# TLA+ models of Anamnesis

This directory holds TLA+ models of the Anamnesis library and the TLC
configurations that check them. Anamnesis is a lock-free pool of
generation-tagged handles (`src/src/anamnesis.c`), a Michael–Scott queue built
on that pool (`src/anamnesis_queue.c`), and a per-thread trace ring buffer
(`src/src/anamnesis_trace.c`). Every module is translated from the C source;
`PROJECT.json` maps each definition to the lines it models.

## The system and how its parts interact

| Part | Source | State | Operations |
|---|---|---|---|
| Handle | `anamnesis.h`, `encode_handle` | 64-bit `[gen 16 \| addr 45 \| state 3]`, null = 0 | encode, decode |
| Pool | `anamnesis.c` | `free_head` (Treiber stack), per slot `SlotHeader.next` and `.generation`, counters `slots_free`, `alloc_count`, `release_count`, `anamnesis_count`, `generation_max` | create, alloc, release, get, validate, stats, foreach, destroy |
| Queue | `anamnesis_queue.c` | private pool of `capacity+1` nodes, `head`, `tail`, node `next` handles, `length`, statistics | create, push, pop, peek, empty, length, stats, destroy |
| Trace buffer | `anamnesis_trace.c` | global `g_trace_ctx` (active, next thread id), a thread-local ring `head`/`tail`/`entries`/`overflow_count` | init, record (alloc/release/get), flush, flush_thread, shutdown, get_stats |
| C++ wrappers | `anamnesis.h`, `anamnesis_queue.h` | none of their own | forward to the C API |

The queue's links and its `head` and `tail` are pool handles. A node is
resolved with `anam_get`, and a popped dummy goes back with `anam_release`.
So the queue depends on the pool's promise that a stale handle never
authenticates. The trace buffer is independent: no library function calls it.
It is compiled only with `ANAM_TRACE_ENABLED`, and each thread owns its
ring.

What makes the code hard to get right:

- Every operation of the pool and the queue is a retry loop of separate
  atomic accesses, which other threads interleave.
- A release checks a generation and then stores a new one, in two steps.
- Statistics counters are updated after the CAS that made the change.
- The queue reads the tail, resolves it, reads its `next`, and CASes.
  Between any two of those steps, nodes can be popped, released and
  reallocated.
- In the trace buffer, fopen can fail and fwrite can write short, and
  masked ring arithmetic has to cope with head lapping tail.

## Modules

| Module | Models | State (VARIABLES) | Actions |
|---|---|---|---|
| `PoolAbstract` | what the pool promises: an atomic LIFO of free slots with per-slot generations | `free`, `gen` | `Alloc(s)`, `Release(s)` |
| `Pool` | `anam_pool_create` (Init), `anam_alloc`, `anam_release`, `anam_get`/`anam_validate`, one action per atomic access | `free_head`, `hdr_next`, `hdr_gen`, the five counters, per-thread `pc` and locals, client `held`/`issued`/`ops` | `AllocLoad`, `AllocNext`, `AllocCas`, `AllocGen`, `AllocFin`, `RelCheck`, `RelStore`, `RelLink`, `RelCas`, `RelCount`, `Get`, `CallAlloc`, `CallRelease` |
| `MCPool` | `Pool` for TLC | | |
| `QueueAbstract` | a FIFO: push appends, pop removes the front and records it | `q`, `deq` | `Push(v)`, `Pop` |
| `Queue` | `anam_queue_create` (Init), `anam_queue_push`, `anam_queue_pop`, `anam_queue_peek`, `anam_queue_empty`, `anam_queue_length`, one action per atomic access, over `PoolAbstract` as the private pool | `pool_free`, `node_gen`, `node_next`, `node_val`, `head`, `tail`, `length`, per-thread `pc`, `item`, `new_h`, `tail_h`, `next_h`, `head_h`, `out`; auxiliary `calls`, `popped` | `PushAlloc` … `PushSwingCas`, `PopHead` … `PopRelease`, `PeekHead` … `PeekCopy`, `EmptyHead`, `EmptyGet`, `EmptyNext`, `Length`, `CallPush`, `CallPop`, `CallObserve` |
| `MCQueue` | `Queue` for TLC (no symmetry: the runs check temporal properties) | | |
| `Trace` | the shared trace context and one ring buffer per thread | `ctx_active`, `next_thread_id`, per thread `has_buf`, `buf`, `done`; `files`; auxiliary `recs`, `lost`, `calls`, `io_failed` | `Record(t)`, `FlushThread(t)`, `Shutdown(t)`, `TraceInit(t)`, `Exit(t)` |
| `Layout` | `anam_pool_create`'s early returns and slot layout, `in_pool`, `anam_queue_create`'s node size, the constructors of `anam::Pool<T>` and `anam::Queue<T>`; `encode_handle` and its decoders as operators | `cfg` (the configuration passed), `status`, `pool` (the layout fields create sets) | `AnamPoolCreate`, `AnamQueueCreate` |
| `MCLayout` | `Layout` for TLC | | |

How the models correspond to the code:

- **Pool.** A thread's `pc` names the atomic access it performs next, and
  each action is one access. For example, `AllocCas` is the
  `compare_exchange` at anamnesis.c:222. A failed CAS returns the thread to
  the load, as the `do … while` does.
  - A handle is the record `[gen, slot, state]`. The address is abstracted
    to the slot number, and `GenMod = 65536` keeps the 16-bit wrap.
  - The counter updates are folded into the step that precedes them in the
    code. `RelCount` is the two `fetch_add`s after the push CAS.
  - The client is a thread that, while idle, calls alloc, release or get,
    up to `MaxOps` calls in all. It releases its own handles and stale
    handles. With `SharedRelease` it may release any handle it has seen.
- **Queue.** Each numbered step of the push and pop loops is an action. For
  example, `PushCheck` is the tail recheck at line 117, `PushLink` is the
  CAS at line 120, and `PushSwing`/`PushSwingCas` are the reload and CAS at
  129-132.
  - The private pool is `PoolAbstract` (`P!Alloc`, `P!Release`), which is
    sound because `Pool` refines `PoolAbstract` (run `pool`) and
    the queue releases each old head exactly once.
  - A `memcpy` from a node that was released after its `anam_get` reads
    bytes a pusher may be writing, so `PopCopy` then returns any item.
  - The statistics counters are left out.
  - An observer thread calls `peek`, `empty` or `length`. Each load and
    each `anam_get` of those functions is one action. `PeekCopy` is the
    `memcpy` at line 187. If the node is still valid, or was released and
    is still free, the copy gets the node's item, because the queue's pool
    does not zero on release. If a push has allocated the node again since
    the `anam_get`, that push's `memcpy` wrote the node, and the copy may
    have overlapped it: the result is then the new item or `Torn`, bytes
    that are no item. This is how the model treats that data race.
- **Trace.** `Record` is the whole of `anam_trace_record`: it creates the
  buffer on first use, stores at `head & mask`, increments head, flushes
  when `used > capacity*3/4`, and counts an overflow.
  - A flush (`FlushCount`, `FlushChunks`, `FlushBlock`, `AfterFlush`,
    `FilesAfter`) is part of the action that calls it. Its I/O outcome
    (`IoResults`) is chosen nondeterministically: fopen fails, or each of
    the two fwrite calls writes its whole chunk or nothing of it. A failed
    `fclose`, whose result the code ignores, loses the buffered entries and
    leads to the same states as a short fwrite. Either way the code sets
    `tail = head`; the records left out go to the auxiliary `lost`, and
    `io_failed` is set.
  - Threads are a set of model values. Each has its own `buf`/`has_buf`
    (the `__thread` pointer); `ctx_active`, `next_thread_id` (kept modulo
    256, as the `uint8_t` cast does) and the files are shared.
  - `get_buffer` reads `g_trace_ctx.active` without synchronisation
    (line 185). The read and the buffer creation are one step of `Record`:
    a `Shutdown` in between touches only the shutting-down thread's own
    buffer, so no interleaving of the two is lost.
  - `Exit(t)` is the `anam_trace_flush_thread` the header asks every
    thread to call before `pthread_exit` (anamnesis_trace.h 110-116).
  - An entry is `<<thread, n>>` for the thread's n-th record call.
    Timestamps and payload fields are abstracted away; a zeroed slot is
    `Zeroed`.
- **Layout.** Addresses are integers. The 64-bit handle is four 16-bit
  limbs (bits 63..48 first), so that `encode_handle`'s shift by 48 and
  the masks `ANAM_ADDR_MASK` and `ANAM_STATE_MASK` keep their width;
  `decode_addr`, `decode_gen`, `anam_state` and `anam_is_null` are the
  code's masks and shifts on those limbs. `align_up` is the code's
  `(value + alignment - 1) & ~(alignment - 1)`, with `&` from the community
  module `Bitwise`. The 64-bit `~` is taken in `WordBits` = 10 bits, which
  gives the same result because every value stays below 2^10. `PoolCreate`
  follows `anam_pool_create` line by line:
  - the early returns (zero size or count, alignment 0 becomes 8, not a
    power of two, below 8);
  - the header, user and stride sizes;
  - the stride mask;
  - the total size, and `slots_base = align_up(memory + 16, alignment)`.

  The address `aligned_alloc` returns is chosen among small multiples of
  the alignment, or NULL. `AnamQueueCreate` computes
  `node_size = (8 + item_size + 7) & ~7` and creates the pool with
  `capacity + 1` slots. `CppPool(T, n)` and `CppQueue(T, c)` are the
  configurations the C++ constructors pass.

## Abstract specifications and refinement

- `Pool` implements `PoolAbstract` under the mapping `free <- AbsFree` (the
  slots of the free chain from `free_head`) and `gen <- AbsGen` (header
  generations, minus one while the releasing thread has not yet pushed).
  The push CAS of a release is the abstract `Release`, and the pop CAS of
  an alloc is the abstract `Alloc`. Checked as property `RefinesAbstract`.
- `Queue` implements `QueueAbstract` under `q <- QueueItems` (the items of
  the chain after the dummy head) and `deq <- popped`. The link CAS is the
  abstract `Push`, and the head CAS is the abstract `Pop`. Checked as
  property `RefinesQueue`, which states FIFO per producer (spec.md §8.5)
  and that no item is popped twice or popped without being pushed (§8.6).
  A push whose item is lost maps to a stutter, so loss is not caught by
  `RefinesQueue`; `NodesAccounted` catches it.

## Properties

Pool:

- `OwnershipExclusive`: no slot is claimed twice. A slot can be in the free
  chain, with an allocator between its CAS and its return, with a releaser
  between its check and its push, or held by a client as a current handle.
  The free chain has no cycle.
- `FreeListGenerations`: every handle in the free chain carries its slot's
  current generation (spec.md §3.3).
- `CounterfeitExposed`: every issued handle that is no longer held fails to
  authenticate, unless a thread is in the middle of releasing it (§8.2).
- `Conservation`: at quiescent points, `slots_free` equals the length of the
  free chain, `alloc_count - release_count` equals `SlotCount - slots_free`,
  and that equals the number of held handles (§8.4).
- `ForeachExact`: at a quiescent point (anam_foreach says it is not
  thread-safe), the handles `anam_foreach` passes to its callback,
  rebuilt from the free-list snapshot and the header generations
  (`FreeSnapshot`, `ForeachHandles`), are exactly the handles clients
  hold. A leaked or doubly-pushed slot, or a stale generation, breaks it.
- `SlotsFreeInRange`: `slots_free` never leaves `0..SlotCount`.
- `OpsComplete`: every call returns (lock-freedom under weak fairness).
- `RefinesAbstract`: the refinement described above.

Queue:

- `HeadTailValid`: head and tail authenticate, and the tail is reachable
  from the head (§4.2).
- `NodesAccounted`: each node is in exactly one of these places: the free
  stack, the head, the chain, a pusher's unlinked node, or a popped old head
  awaiting release. The chain has no cycle.
- `LengthAccounted`: in every state, `length` equals the items in the
  chain, minus the pushes between their link CAS and `length++`, plus the
  pops between their head CAS and `length--`. So it is exact at
  quiescent points, and it goes below zero (`anam_queue_length` then
  returns `2^64 - 1`) only while a pop has overtaken the push of its
  item. That state is reachable in `queue_spmc`.
- `RefinesQueue`: the refinement described above.
- `OpsComplete`: with one producer, every call returns: every retry of
  pop's loop (stale head, lagging tail it helps) and of push's is caused
  by another thread's step. This is lock-freedom for single-producer use
  only. With two producers it does not hold (finding 3), so no passing run
  claims it there.

Trace:

- `TraceIntact`: while every fopen and fwrite succeeds, every record is
  in a file or still in its ring.
- `OnlyOldestLost`: a record is missing only when a later record
  overwrote it, when its buffer was destroyed after a failed flush, or
  when a short fwrite left it out.
- `FileOrdered`: each file holds distinct records, each thread's in
  increasing order, and no zeroed entry, also after fopen failures and
  short writes.
- `TraceDrained`: once every thread has exited, every record is in a
  file, while every fopen and fwrite succeeds. `anam_trace_shutdown` flushes only the calling
  thread's buffer (line 260), so this rests on the header's contract that
  other threads call `flush_thread`; a thread may also go on recording
  after another thread's shutdown, into a buffer it already has.

Queue observers:

- `EmptyFalseSound`: when `anam_queue_empty` answers false, the queue was
  non-empty when the call began or a push linked a node during the call.
  The answer comes from `next` of a possibly stale head node (line 196);
  the model checks that a recycled node's `next` is never taken as a
  sign of items.
- `EmptyTrueExplained`: when `anam_queue_empty` answers true, the queue
  was empty when the call began or a pop's head CAS fell during the call.
  A stale `head_h` (line 195) answers true on a queue that held items, and
  only a pop makes `head_h` stale.
- `PeekIntact`: the `data_out` of a peek is an item some push wrote, never
  bytes torn by a concurrent write. spec.md §4.2 says peek is "guaranteed
  never to return corrupted bytes".

Layout:

- `AlignUpExact`: for the alignment of the configuration, `align_up` equals
  the reference definition `((v + a - 1) \div a) * a` for every value below
  2^9.
- `SlotsWellPlaced`: every slot of a created pool has these properties:
  - its user pointer is a multiple of the alignment and of 8, so the
    handle's address mask loses nothing;
  - its `SlotHeader` lies inside the allocation;
  - the bytes its user writes end inside the allocation and before the
    next slot's header (for a queue, the node's `next` and item);
  - the size passed to `aligned_alloc` is a multiple of the alignment.
- `HandleFaithful`: for every slot of a created pool, generations 0, 1
  and 65535, and the tags FREE and LIVE, the packed handle is not
  `ANAM_NULL` and decodes to exactly the slot's pointer, generation and
  tag. `Pool` and `Queue` compare handles as `(gen, slot, state)`
  records; this shows that this is the comparison the CASes make on the
  packed words.
- `InPoolExact`: in a strict build (`ANAM_STRICT_VALIDATION`), `in_pool`
  accepts exactly the slots' user pointers, on both the stride-mask path
  and the modulo path.

`Pool` has a type invariant `TypeOK`, checked in run `pool`.

## Runs

| Run | Config | Expect | Checks | Bounds |
|---|---|---|---|---|
| `pool` | `MCPool.cfg` | pass | `TypeOK`, `OwnershipExclusive`, `FreeListGenerations`, `CounterfeitExposed`, `Conservation`, `ForeachExact`, `RefinesAbstract`, `OpsComplete` | 3 threads, 2 slots, 2 calls each (152,947 states) |
| `pool_double_release` | `MCPoolDoubleRelease.cfg` | violation | `OwnershipExclusive` | 2 threads, 1 slot, shared release |
| `pool_slots_free` | `MCPoolStats.cfg` | violation | `SlotsFreeInRange` | 2 threads, 1 slot |
| `queue_spmc` | `MCQueueSPMC.cfg` | pass | `HeadTailValid`, `NodesAccounted`, `LengthAccounted`, `RefinesQueue`, `OpsComplete` | 1 producer × 3 pushes, 2 consumers × 2 pops, capacity 2 (364,865 states) |
| `queue_mpmc` | `MCQueueMPMC.cfg` | pass | `NodesAccounted`, `EmptyFalseSound`, `EmptyTrueExplained`, `RefinesQueue` | 2 producers × 1 push, 1 consumer × 2 pops, 1 observer × 1 call, capacity 2 (574,054 states) |
| `queue_tail_regression` | `MCQueueTail.cfg` | violation | `HeadTailValid` | 2 producers × 1 push, 1 consumer × 2 pops, capacity 2 |
| `queue_next_aba` | `MCQueueNextABA.cfg` | violation | `NodesAccounted` | 2 producers × 2 pushes, 1 consumer × 2 pops, capacity 2 |
| `queue_peek` | `MCQueuePeek.cfg` | violation | `PeekIntact` | 1 producer × 3 pushes, 1 consumer × 2 pops, 1 observer × 1 call, capacity 2 |
| `trace` | `MCTrace.cfg` | pass | `TraceIntact`, `FileOrdered`, `TraceDrained` | 2 threads, capacity 8, 9 records each, 1 lifecycle call, fopen and fwrite may fail (76,088 states) |
| `trace_small_ring` | `MCTraceSmall.cfg` | violation | `TraceIntact` | 1 thread, capacity 4, 6 records |
| `trace_silent_loss` | `MCTraceLoss.cfg` | violation | `OnlyOldestLost` | 1 thread, capacity 8, 12 records, fopen and fwrite may fail |
| `layout` | `MCLayout.cfg` | pass | `AlignUpExact`, `SlotsWellPlaced`, `InPoolExact`, `HandleFaithful` | generations 0, 1, 65535; slot sizes 1..24, counts 0..3, alignments 0, 4, 8, 12, 16, 32, item sizes 0..12, capacities 0..2, six C++ types, two allocation addresses |

Why these bounds are enough:

- **Pool.** Two slots and three threads let one thread's pop race another's
  pop and a third thread's release of the slot being popped. That is the
  Treiber ABA. Two calls per thread reach it: every mutant of `Pool`
  listed in `PROJECT.json`, the ABA-prone plain-store CAS among them, is
  caught in this run. Three calls per thread with liveness checking is
  beyond a few minutes of TLC.
- **Queue.**
  - Capacity 2 gives three nodes. That is the smallest pool in which the
    dummy can be released and reused while another node is still queued.
  - Two consumers race on the head CAS and on helping the tail.
  - Two producers race on the link CAS and on helping the tail. Producers
    help the tail only in `queue_mpmc`, so that run exercises `PushHelp`.
  - A torn peek needs the peeked node to be popped twice over (as front, then
    as dummy) and refilled while the peek is between its `anam_get` and its
    copy: three pushes and two pops on capacity 2.
- **Trace.**
  - Capacity 8 is the smallest ring for which the 75% flush is reachable.
  - Nine records per thread pass the 75% mark and wrap the ring, so
    flushes of both the contiguous and the wrapped kind happen, and with
    fopen allowed to fail head also laps tail. Two threads with one
    lifecycle call let a shutdown, a re-init or a `flush_thread` fall
    between the other thread's records, and put both threads' entries in
    one file when a re-init reuses thread id 0.
  - `TraceIntact` is conditioned on `io_failed`, so it is checked in the
    same run as `FileOrdered`, along every behaviour until the first
    failure.
- **Layout.** The sizes cover strides that are powers of two (mask path)
  and strides that are not (modulo path). They also cover sizes below,
  at, and above each alignment, and every early return of create. The
  arithmetic repeats with period `alignment`, so larger sizes add no new
  case.

Deadlock is checked for the pool and the queue. An explicit `Terminated`
step lets a behaviour stop once every thread has made all its calls. In `trace`
every thread ends with `Exit`, and `Terminated` stutters afterwards; the
two violation cfgs of the trace say `CHECK_DEADLOCK FALSE`, since only the
reached invariant violation matters there.

## Fairness

`Spec` of `Pool` and of `Queue` has weak fairness on each thread's `Step`
(the next atomic access of a call in progress). A thread that is inside a
call is not descheduled forever (spec.md §5: threads run in parallel, and
no operation blocks). Calling the library is not forced: clients may stop
at any time. For the trace, each thread has weak fairness on `Exit(t)` only: the
header requires every thread to call `anam_trace_flush_thread` before it
exits, and nothing else is forced (a thread may stop recording at any
time).

## Findings

Each finding is a violation run:

1. **Concurrent double release** (`pool_double_release`). The generation
   check (anamnesis.c:262) and the store (270) are not one atomic step. Two
   releases of the same handle both succeed, so the slot is pushed twice
   and later owned twice. This contradicts spec.md §8.3 and the §1 claim
   to defend against double-free.
2. **`slots_free` wraps below zero** (`pool_slots_free`). An alloc can
   decrement `slots_free` (233) between a release's push CAS (282) and its
   increment (286). The spec only mentions "observation skew" (§3.3).
3. **Tail regression** (`queue_tail_regression`). Push reloads the tail
   after the link CAS and swings it to its node unconditionally (129-132).
   The tail can move back onto a node that has been popped and released,
   which breaks §4.2. From that state every later push, and every pop that
   finds head == tail, retries `anam_get(tail)` forever. The same model
   with two pushes per producer violates `OpsComplete` this way. So the
   code is not lock-free (§5).
4. **ABA on `tail->next`** (`queue_next_aba`). The link CAS (line 120)
   compares a null `next` on a node found by the address of a possibly
   stale `tail_h`. A recycled node has a null `next` again, so a producer
   links its item to a node outside the queue, and the item is lost. This
   contradicts the claim of §4.2 that every CAS is ABA-immune, and §8.7.
5. **Automatic flush never fires for small rings** (`trace_small_ring`).
   For capacities 1, 2 and 4, the masked `used` never exceeds
   `capacity*3/4` (anamnesis_trace.c:211-212).
6. **Silent loss after a failed flush** (`trace_silent_loss`). After a
   failed fopen, head can lap tail. The next flush writes only
   `(head - tail) & mask` entries (136) and sets `tail = head`, dropping
   records still in the ring.
7. **peek returns torn bytes** (`queue_peek`). `anam_queue_peek` validates
   `next` (line 185) and then copies its payload (187) without checking
   again. The counterexample runs like this:
   - the observer validates node 2, the front;
   - the consumer pops item 1, then pops item 2, which releases node 2;
   - the producer's third push reallocates node 2 and copies item 3 into
     it;
   - the peek's copy overlaps that write.

   This contradicts spec.md §4.2, which says peek "re-validates head and
   next through get and aborts on any staleness".

Other observations made while modelling, not model-checking questions:

- `anam::Pool<T>` passes `alignof(T)` as the alignment. `anam_pool_create`
  rejects alignments below 8. So `anam::Pool<int>` and `anam::Pool<char>`
  get a NULL pool, and every `alloc` of theirs returns a null handle. In
  `layout` these configurations end in `status = "null"`.
- `anam_queue_empty` returns true when its `head_h` has gone stale (line
  195), even if the queue held items throughout the call. spec.md makes no
  promise about `empty` under concurrent pops. Its false answers are
  sound (`EmptyFalseSound`), and a wrong true answer needs a concurrent
  pop (`EmptyTrueExplained`).
- `anam_queue_length` can return `(size_t)-1` while a pop's `length--`
  has overtaken the `length++` of the push of the same item. spec.md only
  calls `length` "eventually consistent"; `LengthAccounted` bounds the
  skew by the calls in flight.
- A short fwrite in a flush is reported on stderr, and a failed `fclose`
  is not checked; in both cases the flush sets `tail = head` and the
  records are gone. A wrapped flush can leave the second chunk in the
  file without the first.

## Mutants

`PROJECT.json` lists, for every property of every passing run, a mutant of
the code that breaks it. Each mutant is an operator defined just before the
definition it replaces, named after the bug. Examples:

- `AllocCasStore`: a plain store instead of the CAS.
- `RelStoreSame`: the generation is not incremented.
- `PushLinkStore`: the link is a store instead of a CAS from null.
- `PopCheckNoLag`: a lagging tail is not helped.
- `FlushChunksSwapped`: the two chunks of a wrapped write come out in the
  wrong order.
- `FlushThreadBodyCtx`: `flush_thread` writes only while the context is
  active, so a shutdown by another thread loses this thread's records.
- `EmptyNextLength`: `empty` answers from `length` instead of `next`.
- `decode_addrNoState`: `decode_addr` masks with `0xFFFFFFFFFFFF`,
  keeping the state bits in the pointer.
- `SlotStrideRawUser`: the user region is not rounded up to the alignment.
- `StrideMaskFull`: the strict-validation mask is the stride itself, not
  `stride - 1`.

## Not modelled, and why

- **Handle addresses above 2^31.** The limbs hold any 64-bit value, but
  the addresses `Layout` chooses are small integers (TLC's integers are
  32-bit, and `WordBits` keeps `align_up` checkable), so the upper address
  limbs are always 0.
- **`anam_pool_destroy`, `anam_queue_destroy`.** Single-threaded teardown
  that frees the pool's memory; any later call on the pool or queue is a
  use after free, so no state after it can be checked. The queue's drain
  before it is a sequence of single-threaded pops.
- **Short writes of part of a chunk.** An fwrite that writes some but not
  all of its entries is left out; writing all or none of each chunk
  already separates the two chunks of a wrapped flush.
  **`anam_pool_stats`, `anam_queue_stats`, `anam_trace_get_stats`.** They
  only read counters, which are `size_t` and wrap at 2^64, beyond TLC's
  integers. **`anam_foreach`** only reads; it is the operator
  `ForeachHandles`, evaluated at quiescent points.
- **Queue statistics and weak-CAS spurious failure.** A spurious failure is
  the same as a retry after a delay, which the interleavings already cover.
- **Trace thread-id wrap and counter wrap.** `next_thread_id` is kept
  modulo 256, but two live buffers share a file only after 256 buffer
  creations, out of reach with the files in the state. Head and tail
  wrap at 2^32 is also out of reach.
- **Generation wrap at 2^16.** spec.md §3.1 accepts it as a documented
  limit.
- **The rest of the C++ wrappers, and the benchmark.** The wrapper methods
  other than the constructors and `Queue<T>::peek/empty/length` forward one
  call each. The benchmark is a timing harness.

## Plan for later work

1. A composed model in which the queue runs on the step-by-step `Pool`
   instead of `PoolAbstract`.
2. `generation_max`'s CAS loop as separate steps, with enough releases
   that two allocs of different generations above the maximum race.
