-------------------------------- MODULE Pool --------------------------------
(***************************************************************************)
(* The lock-free fixed-capacity pool of src/src/anamnesis.c.               *)
(*                                                                         *)
(* Slots are the numbers 1..SlotCount; a handle is a record of generation, *)
(* slot and state tag, and the null handle (value 0 in the code) is the    *)
(* record with slot 0.  The free list is a Treiber stack whose head        *)
(* free_head and whose links hdr_next are handles.  Every thread runs the  *)
(* code of anam_alloc, anam_release and anam_get one atomic access at a    *)
(* time; pc[t] names the access the thread performs next.  The client of   *)
(* the pool is a loop that invokes at most MaxOps operations per thread.   *)
(***************************************************************************)
EXTENDS Integers, Sequences, FiniteSets

CONSTANTS
  Threads,        \* the threads calling the pool
  SlotCount,      \* slot_count of the AnamPoolConfig
  GenMod,         \* 2^16: generations are uint16_t
  MaxOps,         \* operations each thread invokes (bound of the model)
  SharedRelease   \* TRUE: a client may pass any handle it has seen to release

ASSUME SlotCount \in Nat \ {0} /\ GenMod \in Nat \ {0} /\ MaxOps \in Nat
ASSUME SharedRelease \in BOOLEAN

Slots == 1..SlotCount

\* State tags of anamnesis.h
FREE == 0
LIVE == 1

\* A handle packs (gen, address, state); the address is the slot number.
Handle == [gen : 0..GenMod-1, slot : 0..SlotCount, state : {FREE, LIVE}]
Null   == [gen |-> 0, slot |-> 0, state |-> FREE]

\* anam_is_null
IsNull(h) == h = Null

VARIABLES
  free_head,        \* AnamPool.free_head
  hdr_next,         \* SlotHeader.next of every slot
  hdr_gen,          \* SlotHeader.generation of every slot
  slots_free, alloc_count, release_count, anamnesis_count, generation_max,
  pc,               \* next atomic access of each thread
  l_old,            \* local old_head (alloc and release)
  l_new,            \* local new_head read from the header in alloc
  l_h,              \* handle argument of release
  l_gen,            \* local gen (alloc) or true_gen (release)
  ops,              \* operations invoked so far by each thread
  held,             \* handles each client thread owns (returned by alloc)
  issued            \* every handle alloc ever returned (client knowledge)

pool_vars == <<free_head, hdr_next, hdr_gen>>
stat_vars == <<slots_free, alloc_count, release_count, anamnesis_count,
               generation_max>>
local_vars == <<pc, l_old, l_new, l_h, l_gen>>
client_vars == <<ops, held, issued>>
vars == <<pool_vars, stat_vars, local_vars, client_vars>>

PCs == {"idle", "a_load", "a_next", "a_cas", "a_gen", "a_fin",
        "r_check", "r_store", "r_link", "r_cas", "r_count"}

(***************************************************************************)
(* anam_pool_create: every slot has generation 0 and is pushed in reverse  *)
(* index order, so slot 1 is at the head and links to 2, ..., SlotCount.   *)
(***************************************************************************)
FreeHandle(g, s) == [gen |-> g, slot |-> s, state |-> FREE]

Init ==
  /\ free_head = FreeHandle(0, 1)
  /\ hdr_next = [s \in Slots |-> IF s = SlotCount THEN Null
                                 ELSE FreeHandle(0, s + 1)]
  /\ hdr_gen = [s \in Slots |-> 0]
  /\ slots_free = SlotCount
  /\ alloc_count = 0 /\ release_count = 0 /\ anamnesis_count = 0
  /\ generation_max = 0
  /\ pc = [t \in Threads |-> "idle"]
  /\ l_old = [t \in Threads |-> Null]
  /\ l_new = [t \in Threads |-> Null]
  /\ l_h = [t \in Threads |-> Null]
  /\ l_gen = [t \in Threads |-> 0]
  /\ ops = [t \in Threads |-> 0]
  /\ held = [t \in Threads |-> {}]
  /\ issued = {}

Goto(t, to) == pc' = [pc EXCEPT ![t] = to]

(***************************************************************************)
(* The checks shared by anam_release and anam_get: not null, state LIVE,   *)
(* inside the slot region, and the claimed generation is the header's.     *)
(***************************************************************************)
Authentic(h) ==
  /\ ~IsNull(h)
  /\ h.state = LIVE
  /\ h.slot \in Slots
  /\ h.gen = hdr_gen[h.slot]

----------------------------------------------------------------------------
(* anam_alloc *)

\* old_head = load(free_head); if null return ANAM_NULL.
AllocLoad(t) ==
  /\ pc[t] = "a_load"
  /\ IF IsNull(free_head)
       THEN Goto(t, "idle") /\ UNCHANGED l_old
       ELSE Goto(t, "a_next") /\ l_old' = [l_old EXCEPT ![t] = free_head]
  /\ UNCHANGED <<pool_vars, stat_vars, l_new, l_h, l_gen, client_vars>>

\* new_head = load_relaxed(header->next)
AllocNext(t) ==
  /\ pc[t] = "a_next"
  /\ l_new' = [l_new EXCEPT ![t] = hdr_next[l_old[t].slot]]
  /\ Goto(t, "a_cas")
  /\ UNCHANGED <<pool_vars, stat_vars, l_old, l_h, l_gen, client_vars>>

\* Mutant: the pop is a load and a plain store, not a CAS.
AllocCasStore(t) ==
  /\ pc[t] = "a_cas"
  /\ free_head' = l_new[t]
  /\ Goto(t, "a_gen")
  /\ UNCHANGED <<hdr_next, hdr_gen, stat_vars, l_old, l_new, l_h, l_gen,
                 client_vars>>

\* Mutant: a failed CAS retries with the stale old_head, never reloading.
AllocCasNoReload(t) ==
  /\ pc[t] = "a_cas"
  /\ IF free_head = l_old[t]
       THEN free_head' = l_new[t] /\ Goto(t, "a_gen")
       ELSE UNCHANGED free_head /\ Goto(t, "a_cas")
  /\ UNCHANGED <<hdr_next, hdr_gen, stat_vars, l_old, l_new, l_h, l_gen,
                 client_vars>>

\* CAS(free_head, old_head, new_head); on failure the do-while reloads.
AllocCas(t) ==
  /\ pc[t] = "a_cas"
  /\ IF free_head = l_old[t]
       THEN free_head' = l_new[t] /\ Goto(t, "a_gen")
       ELSE UNCHANGED free_head /\ Goto(t, "a_load")
  /\ UNCHANGED <<hdr_next, hdr_gen, stat_vars, l_old, l_new, l_h, l_gen,
                 client_vars>>

\* gen = load(header->generation); raise generation_max by its CAS loop.
AllocGen(t) ==
  LET g == hdr_gen[l_old[t].slot] IN
  /\ pc[t] = "a_gen"
  /\ l_gen' = [l_gen EXCEPT ![t] = g]
  /\ generation_max' = IF g > generation_max THEN g ELSE generation_max
  /\ Goto(t, "a_fin")
  /\ UNCHANGED <<pool_vars, slots_free, alloc_count, release_count,
                 anamnesis_count, l_old, l_new, l_h, client_vars>>

\* Mutant: the handle is encoded with ANAM_STATE_QUARANTINE instead of LIVE.
AllocFinQuarantine(t) ==
  LET h == [gen |-> l_gen[t], slot |-> l_old[t].slot, state |-> 2] IN
  /\ pc[t] = "a_fin"
  /\ hdr_next' = [hdr_next EXCEPT ![l_old[t].slot] = Null]
  /\ slots_free' = slots_free - 1
  /\ alloc_count' = alloc_count + 1
  /\ held' = [held EXCEPT ![t] = @ \cup {h}]
  /\ issued' = issued \cup {h}
  /\ Goto(t, "idle")
  /\ UNCHANGED <<free_head, hdr_gen, release_count, anamnesis_count,
                 generation_max, l_old, l_new, l_h, l_gen, ops>>

\* header->next = NULL; slots_free--; alloc_count++; return (gen, LIVE).
AllocFin(t) ==
  LET h == [gen |-> l_gen[t], slot |-> l_old[t].slot, state |-> LIVE] IN
  /\ pc[t] = "a_fin"
  /\ hdr_next' = [hdr_next EXCEPT ![l_old[t].slot] = Null]
  /\ slots_free' = slots_free - 1
  /\ alloc_count' = alloc_count + 1
  /\ held' = [held EXCEPT ![t] = @ \cup {h}]
  /\ issued' = issued \cup {h}
  /\ Goto(t, "idle")
  /\ UNCHANGED <<free_head, hdr_gen, release_count, anamnesis_count,
                 generation_max, l_old, l_new, l_h, l_gen, ops>>

----------------------------------------------------------------------------
(* anam_release *)

\* The argument checks and the generation comparison; a counterfeit is
\* counted in anamnesis_count and the call returns false.
RelCheck(t) ==
  LET h == l_h[t] IN
  /\ pc[t] = "r_check"
  /\ IF Authentic(h)
       THEN /\ l_gen' = [l_gen EXCEPT ![t] = hdr_gen[h.slot]]
            /\ Goto(t, "r_store")
            /\ UNCHANGED anamnesis_count
       ELSE /\ anamnesis_count' = anamnesis_count + 1
            /\ Goto(t, "idle")
            /\ UNCHANGED l_gen
  /\ UNCHANGED <<pool_vars, slots_free, alloc_count, release_count,
                 generation_max, l_old, l_new, l_h, client_vars>>

\* Mutant: the generation is not advanced on release.
RelStoreSame(t) ==
  /\ pc[t] = "r_store"
  /\ hdr_gen' = [hdr_gen EXCEPT ![l_h[t].slot] = l_gen[t]]
  /\ Goto(t, "r_link")
  /\ UNCHANGED <<free_head, hdr_next, stat_vars, l_old, l_new, l_h, l_gen,
                 client_vars>>

\* store(header->generation, true_gen + 1): uint16_t wraps.
RelStore(t) ==
  /\ pc[t] = "r_store"
  /\ hdr_gen' = [hdr_gen EXCEPT ![l_h[t].slot] = (l_gen[t] + 1) % GenMod]
  /\ Goto(t, "r_link")
  /\ UNCHANGED <<free_head, hdr_next, stat_vars, l_old, l_new, l_h, l_gen,
                 client_vars>>

\* old_head = load(free_head); header->next = old_head.
RelLink(t) ==
  /\ pc[t] = "r_link"
  /\ l_old' = [l_old EXCEPT ![t] = free_head]
  /\ hdr_next' = [hdr_next EXCEPT ![l_h[t].slot] = free_head]
  /\ Goto(t, "r_cas")
  /\ UNCHANGED <<free_head, hdr_gen, stat_vars, l_new, l_h, l_gen,
                 client_vars>>

\* Mutant: the pushed handle carries true_gen instead of new_gen.
RelCasOldGen(t) ==
  /\ pc[t] = "r_cas"
  /\ IF free_head = l_old[t]
       THEN /\ free_head' = FreeHandle(l_gen[t], l_h[t].slot)
            /\ Goto(t, "r_count")
       ELSE UNCHANGED free_head /\ Goto(t, "r_link")
  /\ UNCHANGED <<hdr_next, hdr_gen, stat_vars, l_old, l_new, l_h, l_gen,
                 client_vars>>

\* Mutant: the push stores free_head without comparing it to old_head.
RelCasStore(t) ==
  /\ pc[t] = "r_cas"
  /\ free_head' = FreeHandle((l_gen[t] + 1) % GenMod, l_h[t].slot)
  /\ Goto(t, "r_count")
  /\ UNCHANGED <<hdr_next, hdr_gen, stat_vars, l_old, l_new, l_h, l_gen,
                 client_vars>>

\* CAS(free_head, old_head, (new_gen, addr, FREE)); retry on failure.
RelCas(t) ==
  /\ pc[t] = "r_cas"
  /\ IF free_head = l_old[t]
       THEN /\ free_head' = FreeHandle((l_gen[t] + 1) % GenMod, l_h[t].slot)
            /\ Goto(t, "r_count")
       ELSE UNCHANGED free_head /\ Goto(t, "r_link")
  /\ UNCHANGED <<hdr_next, hdr_gen, stat_vars, l_old, l_new, l_h, l_gen,
                 client_vars>>

\* Mutant: release forgets to count the slot as free again.
RelCountNoFree(t) ==
  /\ pc[t] = "r_count"
  /\ release_count' = release_count + 1
  /\ Goto(t, "idle")
  /\ UNCHANGED <<pool_vars, slots_free, alloc_count, anamnesis_count,
                 generation_max, l_old, l_new, l_h, l_gen, client_vars>>

\* slots_free++; release_count++; return true.
RelCount(t) ==
  /\ pc[t] = "r_count"
  /\ slots_free' = slots_free + 1
  /\ release_count' = release_count + 1
  /\ Goto(t, "idle")
  /\ UNCHANGED <<pool_vars, alloc_count, anamnesis_count, generation_max,
                 l_old, l_new, l_h, l_gen, client_vars>>

----------------------------------------------------------------------------
(* anam_get / anam_validate: one atomic load of the header generation. *)

Get(t, h) ==
  /\ pc[t] = "idle"
  /\ ops[t] < MaxOps
  /\ ops' = [ops EXCEPT ![t] = @ + 1]
  /\ anamnesis_count' = IF Authentic(h) THEN anamnesis_count
                        ELSE anamnesis_count + 1
  /\ UNCHANGED <<pool_vars, slots_free, alloc_count, release_count,
                 generation_max, local_vars, held, issued>>

----------------------------------------------------------------------------
(* The client: a thread invokes alloc, release or get when it is idle. *)

CallAlloc(t) ==
  /\ pc[t] = "idle"
  /\ ops[t] < MaxOps
  /\ ops' = [ops EXCEPT ![t] = @ + 1]
  /\ Goto(t, "a_load")
  /\ UNCHANGED <<pool_vars, stat_vars, l_old, l_new, l_h, l_gen, held,
                 issued>>

\* A handle some client has seen whose slot has been released since.
Stale == {h \in issued : h.gen # hdr_gen[h.slot]}

\* What a client passes to release: its own handles and stale ones, or,
\* with SharedRelease, any handle it has seen (a double free by two threads).
ReleaseTargets(t) == IF SharedRelease THEN issued ELSE held[t] \cup Stale

CallRelease(t, h) ==
  /\ pc[t] = "idle"
  /\ ops[t] < MaxOps
  /\ ops' = [ops EXCEPT ![t] = @ + 1]
  /\ l_h' = [l_h EXCEPT ![t] = h]
  /\ held' = [held EXCEPT ![t] = @ \ {h}]
  /\ Goto(t, "r_check")
  /\ UNCHANGED <<pool_vars, stat_vars, l_old, l_new, l_gen, issued>>

\* Every thread has done its operations.
Terminated ==
  /\ \A t \in Threads : pc[t] = "idle" /\ ops[t] = MaxOps
  /\ UNCHANGED vars

Step(t) ==
  \/ AllocLoad(t) \/ AllocNext(t) \/ AllocCas(t) \/ AllocGen(t)
  \/ AllocFin(t)
  \/ RelCheck(t) \/ RelStore(t) \/ RelLink(t) \/ RelCas(t) \/ RelCount(t)

Next ==
  \/ \E t \in Threads :
       \/ CallAlloc(t)
       \/ \E h \in ReleaseTargets(t) : CallRelease(t, h)
       \/ \E h \in issued : Get(t, h)
       \/ Step(t)
  \/ Terminated

\* Threads are never descheduled forever inside a pool operation.
Spec == Init /\ [][Next]_vars /\ \A t \in Threads : WF_vars(Step(t))

----------------------------------------------------------------------------
(* anam_foreach: a debugging walk, documented as not thread-safe *)

\* The snapshot of the free list: the slots met walking from free_head,
\* stopping at null, at an address outside the pool, or at a slot already
\* marked is_free (a cycle).
RECURSIVE FreeSnapshot(_, _)
FreeSnapshot(h, is_free) ==
  IF IsNull(h) \/ h.slot \notin Slots \/ h.slot \in is_free THEN is_free
  ELSE FreeSnapshot(hdr_next[h.slot], is_free \cup {h.slot})

\* The handles foreach passes to fn when fn never stops it: every slot not
\* in the snapshot, encoded LIVE with its header generation.
ForeachHandles ==
  LET is_free == FreeSnapshot(free_head, {})
  IN {[gen |-> hdr_gen[s], slot |-> s, state |-> LIVE] : s \in Slots \ is_free}

----------------------------------------------------------------------------
(* Properties *)

TypeOK ==
  /\ free_head \in Handle
  /\ hdr_next \in [Slots -> Handle]
  /\ hdr_gen \in [Slots -> 0..GenMod-1]
  /\ pc \in [Threads -> PCs]
  /\ l_old \in [Threads -> Handle] /\ l_new \in [Threads -> Handle]
  /\ l_h \in [Threads -> Handle] /\ l_gen \in [Threads -> 0..GenMod-1]
  /\ ops \in [Threads -> 0..MaxOps]
  /\ held \in [Threads -> SUBSET Handle] /\ issued \subseteq Handle
  /\ {alloc_count, release_count, anamnesis_count} \subseteq Nat
  /\ slots_free \in Int /\ generation_max \in 0..GenMod-1

\* The handles met walking the free list from free_head, at most n of them.
RECURSIVE ChainFrom(_, _)
ChainFrom(h, n) ==
  IF IsNull(h) \/ n = 0 THEN <<>>
  ELSE <<h>> \o ChainFrom(hdr_next[h.slot], n - 1)

FreeChain == ChainFrom(free_head, SlotCount + 1)

\* Threads inside alloc past the successful CAS, or inside release past the
\* generation check: each owns the slot it works on.
AllocOwner(t) == pc[t] \in {"a_gen", "a_fin"}
RelOwner(t) == pc[t] \in {"r_store", "r_link", "r_cas"}
Current(h) == h.gen = hdr_gen[h.slot]
\* Some thread has accepted h in anam_release and not yet stored the new
\* generation: the slot is the releaser's, not the holder's, any more.
Releasing(h) == \E t \in Threads : RelOwner(t) /\ l_h[t] = h

\* How many parties claim slot s: occurrences on the free list, threads in
\* the middle of an operation on s, and clients holding a current handle
\* that no thread is releasing.
Claims(s) ==
  Cardinality({i \in 1..Len(FreeChain) : FreeChain[i].slot = s})
  + Cardinality({t \in Threads : AllocOwner(t) /\ l_old[t].slot = s})
  + Cardinality({t \in Threads : RelOwner(t) /\ l_h[t].slot = s})
  + Cardinality({t \in Threads : \E h \in held[t] : h.slot = s /\ Current(h)
                                      /\ ~Releasing(h)})

(***************************************************************************)
(* Ownership is exclusive (spec.md 3.3: each slot is either on the free    *)
(* list or accounted for as live): the Treiber stack of anam_alloc and     *)
(* anam_release never links a slot twice, never hands one slot to two      *)
(* allocators, and the free list stays a chain that ends in null.          *)
(***************************************************************************)
OwnershipExclusive ==
  /\ Len(FreeChain) <= SlotCount
  /\ \A s \in Slots : Claims(s) <= 1

(***************************************************************************)
(* Every handle on the free list carries state FREE and the generation in  *)
(* its slot's header (spec.md 3.3), so that anam_alloc, which returns the  *)
(* header generation, hands out the handle the list promised.              *)
(***************************************************************************)
FreeListGenerations ==
  \A i \in 1..Len(FreeChain) :
    FreeChain[i].state = FREE /\ Current(FreeChain[i])

(***************************************************************************)
(* Counterfeit exposure (spec.md 8.2 and 8.3): once anam_release has       *)
(* accepted a handle, no later anam_get or anam_release accepts it.        *)
(***************************************************************************)
CounterfeitExposed ==
  \A h \in issued : h \notin UNION {held[t] : t \in Threads} =>
    \/ ~Authentic(h)
    \/ \E t \in Threads : pc[t] \in {"r_check", "r_store"} /\ l_h[t] = h

Quiescent == \A t \in Threads : pc[t] = "idle"

(***************************************************************************)
(* anam_foreach, called at a quiescent point as its comment requires,      *)
(* passes exactly the handles the clients hold: no slot has dropped out of *)
(* both the free list and the clients' hands, none is on both, and each    *)
(* handle it rebuilds from a header generation is the one its holder uses. *)
(***************************************************************************)
ForeachExact == Quiescent => ForeachHandles = UNION {held[t] : t \in Threads}

(***************************************************************************)
(* Conservation at quiescent points (spec.md 8.4): the counters agree with *)
(* one another and with the free list and the handles clients hold.        *)
(***************************************************************************)
Conservation ==
  Quiescent =>
    /\ slots_free = Len(FreeChain)
    /\ alloc_count - release_count = SlotCount - slots_free
    /\ SlotCount - slots_free = Cardinality({s \in Slots : \E t \in Threads :
                                  \E h \in held[t] : h.slot = s /\ Current(h)})

(***************************************************************************)
(* The pool refines PoolAbstract: the free list read from free_head is the *)
(* abstract stack; a slot leaves it at the CAS of anam_alloc and returns   *)
(* at the CAS of anam_release, and until that CAS the releaser's slot      *)
(* still shows its old generation.                                         *)
(***************************************************************************)
Pushing(s) == \E t \in Threads : pc[t] \in {"r_link", "r_cas"} /\ l_h[t].slot = s
AbsFree == [i \in 1..Len(FreeChain) |-> FreeChain[i].slot]
AbsGen == [s \in Slots |-> IF Pushing(s) THEN (hdr_gen[s] + GenMod - 1) % GenMod
                                         ELSE hdr_gen[s]]
Abs == INSTANCE PoolAbstract WITH Slots <- Slots, free <- AbsFree,
                                  gen <- AbsGen
RefinesAbstract == Abs!Spec

\* Every invoked operation returns (anam_alloc and anam_release are
\* lock-free, and the other threads stop after MaxOps operations).
OpsComplete == \A t \in Threads : (pc[t] # "idle") ~> (pc[t] = "idle")

\* The stats counter slots_free is a count of free slots (size_t).
SlotsFreeInRange == slots_free \in 0..SlotCount

=============================================================================
