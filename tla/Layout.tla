------------------------------- MODULE Layout -------------------------------
(***************************************************************************)
(* The slot layout anam_pool_create (src/src/anamnesis.c) computes, the    *)
(* in_pool check anam_get and anam_release make of a decoded address, and  *)
(* the node size anam_queue_create (src/anamnesis_queue.c) asks the pool   *)
(* for.  Addresses are integers; the address aligned_alloc returns is      *)
(* chosen among small multiples of the alignment, or NULL (0).             *)
(*                                                                         *)
(* align_up's ~(alignment - 1) is a 64-bit mask; every value here stays    *)
(* below 2^WordBits, so taking the complement in WordBits bits gives the   *)
(* same result of the &.                                                   *)
(*                                                                         *)
(* The last section packs a slot's pointer, a generation and a state into *)
(* the 64-bit AnamHandle the way encode_handle does, and decodes it.      *)
(***************************************************************************)
EXTENDS Naturals, Bitwise

CONSTANTS
  SlotSizes,            \* AnamPoolConfig.slot_size values given to create
  SlotCounts,           \* AnamPoolConfig.slot_count values
  Alignments,           \* AnamPoolConfig.alignment values (0 means default)
  ItemSizes,            \* AnamQueueConfig.item_size values
  Capacities,           \* AnamQueueConfig.capacity values
  CppTypes,             \* <<sizeof(T), alignof(T)>> of C++ element types
  Pages,                \* aligned_alloc returns alignment * p, p \in Pages
  WordBits,             \* width in which ~ is taken
  STRICT_VALIDATION,    \* the build defines ANAM_STRICT_VALIDATION
  Generations           \* uint16_t generations a slot's handle may carry

ASSUME \A p \in Pages : p > 0

VARIABLES
  cfg,      \* the configuration passed to anam_pool_create or _queue_create
  status,   \* "start", "created" or "null" (create returned NULL)
  pool      \* the AnamPool fields create set

vars == <<cfg, status, pool>>

NULL == 0
Compl(x) == 2^WordBits - 1 - x
SizeofSlotHeader == 16   \* _Atomic uint64 next; _Atomic uint16 generation
SizeofQueueNode == 8     \* _Atomic(AnamHandle) next

\* Mutant: rounds up without the - 1, so an aligned value moves on.
align_upNoBias(value, alignment) ==
  (value + alignment) & Compl(alignment - 1)

align_up(value, alignment) == (value + alignment - 1) & Compl(alignment - 1)

\* The pool a queue creates: node_size = (sizeof(QueueNode) + item + 7) & ~7
\* bytes per slot, capacity + 1 slots, alignment left 0.
QueuePoolConfig(c) ==
  [slot_size |-> (SizeofQueueNode + c.item_size + 7) & Compl(7),
   slot_count |-> c.capacity + 1, alignment |-> 0]

PoolConfigs ==
  [kind : {"pool"}, slot_size : SlotSizes, slot_count : SlotCounts,
   alignment : Alignments]
QueueConfigs ==
  [kind : {"queue"}, item_size : ItemSizes, capacity : Capacities]

\* anam::Pool<T>(count) passes sizeof(T), count and alignof(T);
\* anam::Queue<T>(capacity) passes sizeof(T) and capacity.
CppPool(T, count) ==
  [kind |-> "pool", slot_size |-> T[1], slot_count |-> count, alignment |-> T[2]]
CppQueue(T, capacity) ==
  [kind |-> "queue", item_size |-> T[1], capacity |-> capacity]

Init ==
  /\ cfg \in PoolConfigs \cup QueueConfigs
             \cup {CppPool(T, n) : T \in CppTypes, n \in SlotCounts}
             \cup {CppQueue(T, c) : T \in CppTypes, c \in Capacities}
  /\ status = "start"
  /\ pool = [memory |-> NULL]

\* Mutant: the user region is not rounded to the alignment.
SlotStrideRawUser(slot_size, a) ==
  align_up(align_up(SizeofSlotHeader, a) + slot_size, 8)

\* The stride: the header and the user region, each rounded up to the
\* alignment, together rounded up to 8.
SlotStride(slot_size, a) ==
  align_up(align_up(SizeofSlotHeader, a) + align_up(slot_size, a), 8)

\* Mutant: the stride mask is the stride itself.
StrideMaskFull(stride) == IF (stride & (stride - 1)) = 0 THEN stride ELSE 0

\* stride - 1 when the stride is a power of two, otherwise 0.
StrideMask(stride) == IF (stride & (stride - 1)) = 0 THEN stride - 1 ELSE 0

\* anam_pool_create(c) with aligned_alloc returning address m: the early
\* returns, then the stride, its mask, the total size and the base of
\* slot 0.
PoolCreate(c, m) ==
  LET a == IF c.alignment = 0 THEN 8 ELSE c.alignment
      stride == SlotStride(c.slot_size, a)
  IN IF \/ c.slot_size = 0 \/ c.slot_count = 0
        \/ (a & (a - 1)) # 0 \/ a < 8 \/ m = NULL
     THEN [memory |-> NULL]
     ELSE [memory |-> m, total |-> align_up(stride * c.slot_count + a, a),
           slot_size |-> c.slot_size, slot_stride |-> stride,
           slot_stride_mask |-> StrideMask(stride),
           slot_count |-> c.slot_count, alignment |-> a,
           slots_base |-> align_up(m + SizeofSlotHeader, a)]

\* Addresses aligned_alloc(alignment, total) may return, NULL included.
AllocResults(c) ==
  {NULL} \cup {(IF c.alignment = 0 THEN 8 ELSE c.alignment) * p : p \in Pages}

Finish(p) ==
  /\ pool' = p
  /\ status' = IF p.memory = NULL THEN "null" ELSE "created"
  /\ UNCHANGED cfg

AnamPoolCreate ==
  /\ status = "start" /\ cfg.kind = "pool"
  /\ \E m \in AllocResults(cfg) : Finish(PoolCreate(cfg, m))

\* anam_queue_create: a zero item_size or capacity returns NULL; otherwise
\* the node pool is created (its dummy node allocation is in Queue).
AnamQueueCreate ==
  /\ status = "start" /\ cfg.kind = "queue"
  /\ IF cfg.item_size = 0 \/ cfg.capacity = 0
       THEN Finish([memory |-> NULL])
       ELSE \E m \in AllocResults(QueuePoolConfig(cfg)) :
              Finish(PoolCreate(QueuePoolConfig(cfg), m))

Next == AnamPoolCreate \/ AnamQueueCreate

Spec == Init /\ [][Next]_vars

----------------------------------------------------------------------------
(* Address arithmetic of the created pool *)

slot_from_index(i) == pool.slots_base + i * pool.slot_stride
get_header(user_ptr) == user_ptr - SizeofSlotHeader

\* in_pool(pool, p): p lies in [base, base + count * stride) and, in a
\* strict build, is a whole number of strides from base.
in_pool(p) ==
  LET base == pool.slots_base
      off == p - base
  IN /\ base <= p /\ p < base + pool.slot_count * pool.slot_stride
     /\ STRICT_VALIDATION =>
          IF pool.slot_stride_mask # 0
            THEN (off & pool.slot_stride_mask) = 0
            ELSE off % pool.slot_stride = 0

----------------------------------------------------------------------------
(* The 64-bit handle of anamnesis.c, as four 16-bit limbs, bits 63..48     *)
(* first, so that the shifts and masks keep their width in TLC's integers. *)

\* A pointer or a small constant (below 2^31) widened to uint64_t.
Limbs(x) == <<0, 0, (x \div 65536) % 65536, x % 65536>>

And64(x, y) == [i \in 1..4 |-> x[i] & y[i]]
Or64(x, y) == [i \in 1..4 |-> x[i] | y[i]]

ANAM_ADDR_MASK == <<0, 65535, 65535, 65528>>    \* 0x0000FFFFFFFFFFF8
ANAM_STATE_MASK == <<0, 0, 0, 7>>               \* 0x0000000000000007
ANAM_NULL == <<0, 0, 0, 0>>
ANAM_STATE_FREE == 0
ANAM_STATE_LIVE == 1

\* ((uint64_t)gen << 48) | (addr & ANAM_ADDR_MASK) | (state & ANAM_STATE_MASK)
encode_handle(gen, addr, state) ==
  Or64(Or64(<<gen, 0, 0, 0>>, And64(Limbs(addr), ANAM_ADDR_MASK)),
       And64(Limbs(state), ANAM_STATE_MASK))

\* Mutant: the address mask keeps the three state bits.
decode_addrNoState(handle) == And64(handle, <<0, 65535, 65535, 65535>>)

decode_addr(handle) == And64(handle, ANAM_ADDR_MASK)
decode_gen(handle) == handle[1]                  \* (uint16_t)(handle >> 48)
anam_state(handle) == handle[4] & 7              \* (uint8_t)(handle & 0x7)
anam_is_null(handle) == handle = ANAM_NULL

----------------------------------------------------------------------------
(* Properties *)

\* The least multiple of a power of two a that is not below v.
AlignUpRef(v, a) == ((v + a - 1) \div a) * a

(***************************************************************************)
(* align_up's mask arithmetic rounds every value below half the word up   *)
(* to the next multiple of the alignment the configuration asks for, when *)
(* create accepts that alignment (a power of two of at least 8).           *)
(***************************************************************************)
AlignUpExact ==
  LET a == IF cfg.kind = "pool" /\ cfg.alignment # 0 THEN cfg.alignment ELSE 8
  IN (a >= 8 /\ (a & (a - 1)) = 0) =>
       \A v \in 0..(2^(WordBits - 1)) : align_up(v, a) = AlignUpRef(v, a)

(***************************************************************************)
(* Every slot of a created pool is placed so that its users cannot clobber *)
(* each other or run off the allocation: each user pointer is aligned (so *)
(* encode_handle's address mask loses no bit of it), its SlotHeader lies   *)
(* in the allocation, the bytes its user writes (slot_size, or a queue     *)
(* node's next link and item) end inside the allocation and before the    *)
(* next slot's header, and the size given aligned_alloc is a multiple of   *)
(* the alignment as C11 requires.                                          *)
(***************************************************************************)
SlotsWellPlaced ==
  status = "created" =>
    LET extent == IF cfg.kind = "queue" THEN SizeofQueueNode + cfg.item_size
                  ELSE pool.slot_size
        last == pool.slot_count - 1
    IN /\ pool.total % pool.alignment = 0
       /\ \A i \in 0..last :
            LET u == slot_from_index(i)
            IN /\ u % pool.alignment = 0 /\ u % 8 = 0
               /\ pool.memory <= get_header(u)
               /\ u + extent <= pool.memory + pool.total
               /\ i < last => u + extent <= get_header(slot_from_index(i + 1))

(***************************************************************************)
(* In a strict build, in_pool accepts exactly the slots' user pointers:    *)
(* the stride-mask fast path and the modulo path agree with the slot       *)
(* positions for every address around the allocation.                     *)
(***************************************************************************)
InPoolExact ==
  status = "created" /\ STRICT_VALIDATION =>
    \A p \in (pool.memory - 8)..(pool.memory + pool.total + 8) :
      in_pool(p) <=> \E i \in 0..(pool.slot_count - 1) : p = slot_from_index(i)

(***************************************************************************)
(* The handle of every slot of a created pool, with any generation and    *)
(* the FREE or LIVE tag alloc and release give it, is never ANAM_NULL and *)
(* decodes to exactly the slot's user pointer, generation and state.      *)
(* Pool and Queue compare handles as (generation, slot, state) records;   *)
(* this is what makes that the comparison the CASes make on the packed    *)
(* 64-bit words.                                                           *)
(***************************************************************************)
HandleFaithful ==
  status = "created" =>
    \A i \in 0..(pool.slot_count - 1), g \in Generations,
       st \in {ANAM_STATE_FREE, ANAM_STATE_LIVE} :
      LET u == slot_from_index(i)
          h == encode_handle(g, u, st)
      IN /\ ~anam_is_null(h)
         /\ decode_addr(h) = Limbs(u)
         /\ decode_gen(h) = g /\ anam_state(h) = st

=============================================================================
