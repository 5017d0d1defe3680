-------------------------------- MODULE Queue --------------------------------
(***************************************************************************)
(* The Michael-Scott queue of src/anamnesis_queue.c.                       *)
(*                                                                         *)
(* The queue's nodes are the slots 1..Capacity+1 of a private pool, which  *)
(* is PoolAbstract: its alloc and release are atomic steps, as Pool.tla    *)
(* shows they may be for callers that never release one handle twice (the *)
(* queue releases each old head once, in the pop whose CAS won).  A        *)
(* handle is a generation and a slot; every handle the queue stores is     *)
(* re-encoded LIVE, so the state tag is left out, and the null handle has  *)
(* slot 0.  Each thread runs anam_queue_push or anam_queue_pop one atomic  *)
(* access at a time; pc[t] names the access it performs next.              *)
(***************************************************************************)
EXTENDS Integers, Sequences, FiniteSets

CONSTANTS
  Producers,      \* threads that call anam_queue_push
  Consumers,      \* threads that call anam_queue_pop
  Capacity,       \* AnamQueueConfig.capacity
  GenMod,         \* 2^16: generations are uint16_t
  PushesPer,      \* pushes each producer invokes (bound of the model)
  PopsPer,        \* pops each consumer invokes (bound of the model)
  Observers,      \* threads that call peek, empty and length
  ObsPer          \* calls each observer invokes (bound of the model)

ASSUME Capacity \in Nat \ {0} /\ GenMod \in Nat \ {0}
ASSUME PushesPer \in Nat /\ PopsPer \in Nat
ASSUME Producers \cap Consumers = {} /\ Observers \cap (Producers \cup Consumers) = {}

Threads == Producers \cup Consumers \cup Observers
Nodes == 1..Capacity + 1

\* The item a producer pushes in its i-th call: distinct for every push.
Items == Producers \X (1..PushesPer)

Handle == [gen : 0..GenMod-1, slot : 0..Capacity + 1]
Null == [gen |-> 0, slot |-> 0]

VARIABLES
  pool_free,      \* the private pool's free stack (PoolAbstract.free)
  node_gen,       \* the private pool's header generations (PoolAbstract.gen)
  node_next,      \* QueueNode.next of every node
  node_val,       \* the item bytes of every node
  head, tail,     \* AnamQueue.head and AnamQueue.tail
  length,         \* AnamQueue.length
  pc,             \* next atomic access of each thread
  item,           \* the item a producer is pushing
  new_h, tail_h, next_h, head_h,  \* locals of push and pop
  out,            \* data_out of pop and peek
  calls,          \* operations invoked so far by each thread
  popped,         \* items returned by successful pops, in CAS order
  obs             \* an observer's answer from empty, and the queue when
                  \* its call began (auxiliary)

pool_vars == <<pool_free, node_gen>>
queue_vars == <<node_next, node_val, head, tail, length>>
local_vars == <<pc, item, new_h, tail_h, next_h, head_h, out>>
vars == <<pool_vars, queue_vars, local_vars, calls, popped, obs>>

P == INSTANCE PoolAbstract WITH Slots <- Nodes, free <- pool_free,
                                gen <- node_gen

\* anam_get succeeds: the handle is not null and its generation is the
\* header's.
Valid(h) == h # Null /\ h.gen = node_gen[h.slot]

\* The handle alloc returns for the node on top of the free stack.
Top == [gen |-> node_gen[Head(pool_free)], slot |-> Head(pool_free)]

NoItem == <<>>

\* Bytes that are no item: a copy that overlapped a memcpy writing the node.
Torn == <<0>>

(***************************************************************************)
(* anam_queue_create: the pool pushes its slots in reverse order, then     *)
(* alloc_node(q, NULL) takes slot 1 as the dummy, with next null, and head *)
(* and tail are its handle.  Node memory never allocated is never read.    *)
(***************************************************************************)
Dummy == [gen |-> 0, slot |-> 1]

Init ==
  /\ pool_free = [i \in 1..Capacity |-> i + 1]
  /\ node_gen = [n \in Nodes |-> 0]
  /\ node_next = [n \in Nodes |-> Null]
  /\ node_val = [n \in Nodes |-> NoItem]
  /\ head = Dummy
  /\ tail = Dummy
  /\ length = 0
  /\ pc = [t \in Threads |-> "idle"]
  /\ item = [t \in Threads |-> NoItem]
  /\ new_h = [t \in Threads |-> Null]
  /\ tail_h = [t \in Threads |-> Null]
  /\ next_h = [t \in Threads |-> Null]
  /\ head_h = [t \in Threads |-> Null]
  /\ out = [t \in Threads |-> NoItem]
  /\ obs = [t \in Observers |-> [answer |-> "none", items |-> 0, pops |-> 0]]
  /\ calls = [t \in Threads |-> 0]
  /\ popped = <<>>

Goto(t, to) == pc' = [pc EXCEPT ![t] = to]
Set(f, t, v) == f' = [f EXCEPT ![t] = v]

\* The handles met following next from node h, at most n of them.
RECURSIVE ChainFrom(_, _)
ChainFrom(h, n) ==
  IF h = Null \/ n = 0 THEN <<>>
  ELSE <<h>> \o ChainFrom(node_next[h.slot], n - 1)

\* The nodes after the dummy head, in queue order.
Chain == ChainFrom(node_next[head.slot], Capacity + 2)
QueueItems == [i \in 1..Len(Chain) |-> node_val[Chain[i].slot]]

\* How many items link CASes have put in the queue so far: those popped
\* and those still in it.
Linked == Len(popped) + Len(QueueItems)

----------------------------------------------------------------------------
(* anam_queue_push *)

\* Mutant: alloc_node leaves the recycled node's next as it was.
PushAllocNoClear(t) ==
  /\ pc[t] = "p_alloc"
  /\ IF pool_free = <<>>
       THEN Goto(t, "idle") /\ UNCHANGED <<pool_vars, node_val, new_h>>
       ELSE LET s == Head(pool_free) IN
            /\ P!Alloc(s)
            /\ node_val' = [node_val EXCEPT ![s] = item[t]]
            /\ Set(new_h, t, Top)
            /\ Goto(t, "p_tail")
  /\ UNCHANGED <<node_next, head, tail, length, item, tail_h, next_h, head_h,
                 out, calls, popped, obs>>

\* Mutant: alloc_node skips the memcpy of the item.
PushAllocNoCopy(t) ==
  /\ pc[t] = "p_alloc"
  /\ IF pool_free = <<>>
       THEN Goto(t, "idle") /\ UNCHANGED <<pool_vars, node_next, new_h>>
       ELSE LET s == Head(pool_free) IN
            /\ P!Alloc(s)
            /\ node_next' = [node_next EXCEPT ![s] = Null]
            /\ Set(new_h, t, Top)
            /\ Goto(t, "p_tail")
  /\ UNCHANGED <<node_val, head, tail, length, item, tail_h, next_h, head_h,
                 out, calls, popped, obs>>

\* alloc_node: anam_alloc, next = NULL, memcpy of the item.  On exhaustion
\* push_fails++ and the call returns ANAM_NULL.
PushAlloc(t) ==
  /\ pc[t] = "p_alloc"
  /\ IF pool_free = <<>>
       THEN Goto(t, "idle") /\ UNCHANGED <<pool_vars, node_next, node_val,
                                          new_h>>
       ELSE LET s == Head(pool_free) IN
            /\ P!Alloc(s)
            /\ node_next' = [node_next EXCEPT ![s] = Null]
            /\ node_val' = [node_val EXCEPT ![s] = item[t]]
            /\ Set(new_h, t, Top)
            /\ Goto(t, "p_tail")
  /\ UNCHANGED <<head, tail, length, item, tail_h, next_h, head_h, out,
                 calls, popped, obs>>

\* tail_h = load(q->tail)
PushTail(t) ==
  /\ pc[t] = "p_tail"
  /\ Set(tail_h, t, tail)
  /\ Goto(t, "p_get")
  /\ UNCHANGED <<pool_vars, queue_vars, item, new_h, next_h, head_h, out,
                 calls, popped, obs>>

\* tail = anam_get(tail_h); if null: aba_prevented++, continue.
PushGet(t) ==
  /\ pc[t] = "p_get"
  /\ Goto(t, IF Valid(tail_h[t]) THEN "p_next" ELSE "p_tail")
  /\ UNCHANGED <<pool_vars, queue_vars, item, new_h, tail_h, next_h, head_h,
                 out, calls, popped, obs>>

\* next_h = load(tail->next)
PushNext(t) ==
  /\ pc[t] = "p_next"
  /\ Set(next_h, t, node_next[tail_h[t].slot])
  /\ Goto(t, "p_check")
  /\ UNCHANGED <<pool_vars, queue_vars, item, new_h, tail_h, head_h, out,
                 calls, popped, obs>>

\* if tail_h != load(q->tail) retry; then link if next is null, else help.
PushCheck(t) ==
  /\ pc[t] = "p_check"
  /\ Goto(t, IF tail_h[t] # tail THEN "p_tail"
             ELSE IF next_h[t] = Null THEN "p_link" ELSE "p_help")
  /\ UNCHANGED <<pool_vars, queue_vars, item, new_h, tail_h, next_h, head_h,
                 out, calls, popped, obs>>

\* Mutant: the link is a plain store, not a CAS from NULL.
PushLinkStore(t) ==
  /\ pc[t] = "p_link"
  /\ node_next' = [node_next EXCEPT ![tail_h[t].slot] = new_h[t]]
  /\ Goto(t, "p_swing")
  /\ UNCHANGED <<pool_vars, node_val, head, tail, length, item, new_h,
                 tail_h, next_h, head_h, out, calls, popped, obs>>

\* CAS(tail->next, NULL, new_h): the node is addressed by the slot of
\* tail_h, whatever its generation is now.
PushLink(t) ==
  LET s == tail_h[t].slot IN
  /\ pc[t] = "p_link"
  /\ IF node_next[s] = Null
       THEN node_next' = [node_next EXCEPT ![s] = new_h[t]]
            /\ Goto(t, "p_swing")
       ELSE UNCHANGED node_next /\ Goto(t, "p_tail")
  /\ UNCHANGED <<pool_vars, node_val, head, tail, length, item, new_h,
                 tail_h, next_h, head_h, out, calls, popped, obs>>

\* CAS(q->tail, tail_h, encode(next, LIVE)), then retry.
PushHelp(t) ==
  /\ pc[t] = "p_help"
  /\ tail' = IF tail = tail_h[t] THEN next_h[t] ELSE tail
  /\ Goto(t, "p_tail")
  /\ UNCHANGED <<pool_vars, node_next, node_val, head, length, item, new_h,
                 tail_h, next_h, head_h, out, calls, popped, obs>>

\* After the loop: tail_h = load(q->tail).
PushSwing(t) ==
  /\ pc[t] = "p_swing"
  /\ Set(tail_h, t, tail)
  /\ Goto(t, "p_swing_cas")
  /\ UNCHANGED <<pool_vars, queue_vars, item, new_h, next_h, head_h, out,
                 calls, popped, obs>>

\* Mutant: push forgets length++.
PushSwingCasNoLen(t) ==
  /\ pc[t] = "p_swing_cas"
  /\ tail' = IF tail = tail_h[t] THEN new_h[t] ELSE tail
  /\ Goto(t, "idle")
  /\ UNCHANGED <<pool_vars, node_next, node_val, head, length, item, new_h,
                 tail_h, next_h, head_h, out, calls, popped, obs>>

\* CAS(q->tail, tail_h, new_h); length++; push_count++; return new_h.
PushSwingCas(t) ==
  /\ pc[t] = "p_swing_cas"
  /\ tail' = IF tail = tail_h[t] THEN new_h[t] ELSE tail
  /\ length' = length + 1
  /\ Goto(t, "idle")
  /\ UNCHANGED <<pool_vars, node_next, node_val, head, item, new_h, tail_h,
                 next_h, head_h, out, calls, popped, obs>>

----------------------------------------------------------------------------
(* anam_queue_pop *)

\* head_h = load(q->head)
PopHead(t) ==
  /\ pc[t] = "c_head"
  /\ Set(head_h, t, head)
  /\ Goto(t, "c_tail")
  /\ UNCHANGED <<pool_vars, queue_vars, item, new_h, tail_h, next_h, out,
                 calls, popped, obs>>

\* tail_h = load(q->tail)
PopTail(t) ==
  /\ pc[t] = "c_tail"
  /\ Set(tail_h, t, tail)
  /\ Goto(t, "c_get")
  /\ UNCHANGED <<pool_vars, queue_vars, item, new_h, next_h, head_h, out,
                 calls, popped, obs>>

\* head = anam_get(head_h); if null: aba_prevented++, continue.
PopGet(t) ==
  /\ pc[t] = "c_get"
  /\ Goto(t, IF Valid(head_h[t]) THEN "c_next" ELSE "c_head")
  /\ UNCHANGED <<pool_vars, queue_vars, item, new_h, tail_h, next_h, head_h,
                 out, calls, popped, obs>>

\* next_h = load(head->next)
PopNext(t) ==
  /\ pc[t] = "c_next"
  /\ Set(next_h, t, node_next[head_h[t].slot])
  /\ Goto(t, "c_check")
  /\ UNCHANGED <<pool_vars, queue_vars, item, new_h, tail_h, head_h, out,
                 calls, popped, obs>>

\* Mutant: a lagging tail is not helped; the head moves past it.
PopCheckNoLag(t) ==
  /\ pc[t] = "c_check"
  /\ Goto(t, CASE head_h[t] # head -> "c_head"
               [] next_h[t] = Null -> "idle"
               [] OTHER -> "c_getnext")
  /\ UNCHANGED <<pool_vars, queue_vars, item, new_h, tail_h, next_h, head_h,
                 out, calls, popped, obs>>

\* Mutant: an empty queue is retried instead of reported.
PopCheckSpin(t) ==
  /\ pc[t] = "c_check"
  /\ Goto(t, CASE head_h[t] # head -> "c_head"
               [] head_h[t] = tail_h[t] /\ next_h[t] = Null -> "c_head"
               [] head_h[t] = tail_h[t] -> "c_help"
               [] OTHER -> "c_getnext")
  /\ UNCHANGED <<pool_vars, queue_vars, item, new_h, tail_h, next_h, head_h,
                 out, calls, popped, obs>>

\* if head_h != load(q->head) retry.  If head_h == tail_h: an empty queue
\* returns false (pop_fails++), a lagging tail is helped.  Otherwise the
\* successor is read.
PopCheck(t) ==
  /\ pc[t] = "c_check"
  /\ Goto(t, CASE head_h[t] # head -> "c_head"
               [] head_h[t] = tail_h[t] /\ next_h[t] = Null -> "idle"
               [] head_h[t] = tail_h[t] -> "c_help"
               [] OTHER -> "c_getnext")
  /\ UNCHANGED <<pool_vars, queue_vars, item, new_h, tail_h, next_h, head_h,
                 out, calls, popped, obs>>

\* CAS(q->tail, tail_h, encode(next, LIVE)), then retry.
PopHelp(t) ==
  /\ pc[t] = "c_help"
  /\ tail' = IF tail = tail_h[t] THEN next_h[t] ELSE tail
  /\ Goto(t, "c_head")
  /\ UNCHANGED <<pool_vars, node_next, node_val, head, length, item, new_h,
                 tail_h, next_h, head_h, out, calls, popped, obs>>

\* next = anam_get(next_h); if null: aba_prevented++, continue.
PopGetNext(t) ==
  /\ pc[t] = "c_getnext"
  /\ Goto(t, IF Valid(next_h[t]) THEN "c_copy" ELSE "c_head")
  /\ UNCHANGED <<pool_vars, queue_vars, item, new_h, tail_h, next_h, head_h,
                 out, calls, popped, obs>>

\* Mutant: the item is copied from the head node, not from next.
PopCopyHead(t) ==
  /\ pc[t] = "c_copy"
  /\ Set(out, t, node_val[head_h[t].slot])
  /\ Goto(t, "c_cas")
  /\ UNCHANGED <<pool_vars, queue_vars, item, new_h, tail_h, next_h, head_h,
                 calls, popped, obs>>

\* memcpy(data_out, node_data(next)).  Once the node has been released
\* since the anam_get, a pusher may be writing it: the bytes read are any.
PopCopy(t) ==
  LET s == next_h[t].slot IN
  /\ pc[t] = "c_copy"
  /\ \E v \in IF Valid(next_h[t]) THEN {node_val[s]} ELSE Items \cup {NoItem} :
       Set(out, t, v)
  /\ Goto(t, "c_cas")
  /\ UNCHANGED <<pool_vars, queue_vars, item, new_h, tail_h, next_h, head_h,
                 calls, popped, obs>>

\* CAS(q->head, head_h, encode(next, LIVE)); on failure retry.
PopCas(t) ==
  /\ pc[t] = "c_cas"
  /\ IF head = head_h[t]
       THEN /\ head' = next_h[t]
            /\ popped' = Append(popped, out[t])
            /\ Goto(t, "c_release")
       ELSE UNCHANGED <<head, popped>> /\ Goto(t, "c_head")
  /\ UNCHANGED <<pool_vars, node_next, node_val, tail, length, item, new_h,
                 tail_h, next_h, head_h, out, calls, obs>>

\* anam_release(head_h); length--; pop_count++; return true.  The release
\* of a counterfeit handle returns false and changes no pool state.
PopRelease(t) ==
  LET s == head_h[t].slot IN
  /\ pc[t] = "c_release"
  /\ IF Valid(head_h[t]) THEN P!Release(s) ELSE UNCHANGED pool_vars
  /\ length' = length - 1
  /\ Goto(t, "idle")
  /\ UNCHANGED <<node_next, node_val, head, tail, item, new_h, tail_h,
                 next_h, head_h, out, calls, popped, obs>>

----------------------------------------------------------------------------
(* anam_queue_peek, anam_queue_empty and anam_queue_length: they read the *)
(* queue and change nothing; peek's data_out is out[t].                    *)

obs_unchanged == <<pool_vars, queue_vars, item, new_h, tail_h, calls, popped, obs>>

\* head_h = load(q->head) in peek.
PeekHead(t) ==
  /\ pc[t] = "k_head"
  /\ Set(head_h, t, head)
  /\ Goto(t, "k_get")
  /\ UNCHANGED <<obs_unchanged, next_h, out>>

\* head = anam_get(head_h); if null return false.
PeekGet(t) ==
  /\ pc[t] = "k_get"
  /\ Goto(t, IF Valid(head_h[t]) THEN "k_next" ELSE "idle")
  /\ UNCHANGED <<obs_unchanged, head_h, next_h, out>>

\* next_h = load(head->next); if null return false.
PeekNext(t) ==
  LET n == node_next[head_h[t].slot] IN
  /\ pc[t] = "k_next"
  /\ Set(next_h, t, n)
  /\ Goto(t, IF n = Null THEN "idle" ELSE "k_getnext")
  /\ UNCHANGED <<obs_unchanged, head_h, out>>

\* next = anam_get(next_h); if null return false.
PeekGetNext(t) ==
  /\ pc[t] = "k_getnext"
  /\ Goto(t, IF Valid(next_h[t]) THEN "k_copy" ELSE "idle")
  /\ UNCHANGED <<obs_unchanged, head_h, next_h, out>>

\* memcpy(data_out, node_data(next)); return true.  Nothing is validated
\* again: a node released since the anam_get and still free keeps its
\* bytes (the queue's pool does not zero on release), but one a push has
\* allocated again was written by alloc_node's memcpy, which the copy may
\* have overlapped.
PeekCopy(t) ==
  LET s == next_h[t].slot IN
  /\ pc[t] = "k_copy"
  /\ \E v \in IF Valid(next_h[t]) \/ \E i \in DOMAIN pool_free : pool_free[i] = s
                THEN {node_val[s]} ELSE {node_val[s], Torn} :
       Set(out, t, v)
  /\ Goto(t, "idle")
  /\ UNCHANGED <<obs_unchanged, head_h, next_h>>

\* head_h = load(q->head) in empty.
EmptyHead(t) ==
  /\ pc[t] = "e_head"
  /\ Set(head_h, t, head)
  /\ Goto(t, "e_get")
  /\ UNCHANGED <<obs_unchanged, next_h, out>>

\* head = anam_get(head_h); if null return true.
EmptyGet(t) ==
  /\ pc[t] = "e_get"
  /\ IF Valid(head_h[t])
       THEN Goto(t, "e_next") /\ UNCHANGED obs
       ELSE Goto(t, "idle") /\ obs' = [obs EXCEPT ![t].answer = "true"]
  /\ UNCHANGED <<pool_vars, queue_vars, item, new_h, tail_h, calls, popped,
                 head_h, next_h, out>>

\* Mutant: empty answers from the length counter.
EmptyNextLength(t) ==
  /\ pc[t] = "e_next"
  /\ obs' = [obs EXCEPT ![t].answer = IF length = 0 THEN "true" ELSE "false"]
  /\ Goto(t, "idle")
  /\ UNCHANGED <<pool_vars, queue_vars, item, new_h, tail_h, calls, popped,
                 head_h, next_h, out>>

\* return load(head->next) == NULL.
EmptyNext(t) ==
  /\ pc[t] = "e_next"
  /\ obs' = [obs EXCEPT ![t].answer =
               IF node_next[head_h[t].slot] = Null THEN "true" ELSE "false"]
  /\ Goto(t, "idle")
  /\ UNCHANGED <<pool_vars, queue_vars, item, new_h, tail_h, calls, popped,
                 head_h, next_h, out>>

\* anam_queue_length: one load of q->length.
Length(t) ==
  /\ pc[t] = "length"
  /\ Goto(t, "idle")
  /\ UNCHANGED <<obs_unchanged, head_h, next_h, out>>

----------------------------------------------------------------------------
(* The clients: each producer pushes its items 1..PushesPer in order, each *)
(* consumer calls pop PopsPer times.                                       *)

CallPush(t) ==
  /\ t \in Producers
  /\ pc[t] = "idle"
  /\ calls[t] < PushesPer
  /\ calls' = [calls EXCEPT ![t] = @ + 1]
  /\ Set(item, t, <<t, calls[t] + 1>>)
  /\ Goto(t, "p_alloc")
  /\ UNCHANGED <<pool_vars, queue_vars, new_h, tail_h, next_h, head_h, out,
                 popped, obs>>

CallPop(t) ==
  /\ t \in Consumers
  /\ pc[t] = "idle"
  /\ calls[t] < PopsPer
  /\ calls' = [calls EXCEPT ![t] = @ + 1]
  /\ Set(out, t, NoItem)
  /\ Goto(t, "c_head")
  /\ UNCHANGED <<pool_vars, queue_vars, item, new_h, tail_h, next_h, head_h,
                 popped, obs>>

\* No answer yet; the queue held items items, and head CASes had popped
\* pops, when the call began.
NoAnswer(items, pops) == [answer |-> "none", items |-> items, pops |-> pops]

\* An observer calls peek, empty or length.
CallObserve(t) ==
  /\ t \in Observers
  /\ pc[t] = "idle"
  /\ calls[t] < ObsPer
  /\ calls' = [calls EXCEPT ![t] = @ + 1]
  /\ Set(out, t, NoItem)
  /\ \E op \in {"k_head", "e_head", "length"} :
       /\ Goto(t, op)
       /\ obs' = [obs EXCEPT ![t] = IF op = "e_head"
                                    THEN NoAnswer(Len(QueueItems), Len(popped))
                                    ELSE NoAnswer(0, 0)]
  /\ UNCHANGED <<pool_vars, queue_vars, item, new_h, tail_h, next_h, head_h,
                 popped>>

Bound(t) == CASE t \in Producers -> PushesPer
             [] t \in Consumers -> PopsPer
             [] OTHER -> ObsPer

Terminated ==
  /\ \A t \in Threads : pc[t] = "idle" /\ calls[t] = Bound(t)
  /\ UNCHANGED vars

PushStep(t) ==
  \/ PushAlloc(t) \/ PushTail(t) \/ PushGet(t) \/ PushNext(t)
  \/ PushCheck(t) \/ PushLink(t) \/ PushHelp(t) \/ PushSwing(t)
  \/ PushSwingCas(t)

PopStep(t) ==
  \/ PopHead(t) \/ PopTail(t) \/ PopGet(t) \/ PopNext(t) \/ PopCheck(t)
  \/ PopHelp(t) \/ PopGetNext(t) \/ PopCopy(t) \/ PopCas(t)
  \/ PopRelease(t)

ObserveStep(t) ==
  \/ PeekHead(t) \/ PeekGet(t) \/ PeekNext(t) \/ PeekGetNext(t)
  \/ PeekCopy(t) \/ EmptyHead(t) \/ EmptyGet(t) \/ EmptyNext(t) \/ Length(t)

Step(t) == PushStep(t) \/ PopStep(t) \/ ObserveStep(t)

Next ==
  \/ \E t \in Threads : CallPush(t) \/ CallPop(t) \/ CallObserve(t) \/ Step(t)
  \/ Terminated

\* No thread is descheduled forever inside a queue operation.
Spec == Init /\ [][Next]_vars /\ \A t \in Threads : WF_vars(Step(t))

----------------------------------------------------------------------------
(* Properties *)


(***************************************************************************)
(* Head and tail designate live nodes of the queue (spec.md 4.2): both     *)
(* authenticate against the private pool, and the tail is the head or a    *)
(* node reachable from it, so anam_get(tail) in push cannot fail forever.  *)
(***************************************************************************)
HeadTailValid ==
  /\ Valid(head) /\ Valid(tail)
  /\ tail = head \/ \E i \in 1..Len(Chain) : Chain[i] = tail

\* The producers holding node n as their new node before the link CAS, and
\* the consumers holding it as the old head they are about to release.
Unlinked(n) == {t \in Producers :
  pc[t] \in {"p_tail", "p_get", "p_next", "p_check", "p_link", "p_help"}
  /\ new_h[t].slot = n}
Retiring(n) == {t \in Consumers : pc[t] = "c_release" /\ head_h[t].slot = n}

\* How often node n appears in a sequence of slots or handles.
Occurrences(seq, n) == Cardinality({i \in 1..Len(seq) : seq[i] = n})

(***************************************************************************)
(* Every node is accounted for exactly once (spec.md 8.6, no item lost or  *)
(* duplicated): it is on the pool's free stack, the head, in the chain     *)
(* after the head, a pusher's node not yet linked, or an old head waiting  *)
(* for its release.  The chain ends in null.                               *)
(***************************************************************************)
NodesAccounted ==
  /\ Len(Chain) <= Capacity
  /\ \A n \in Nodes :
       Occurrences(pool_free, n) + (IF head.slot = n THEN 1 ELSE 0)
       + Occurrences([i \in 1..Len(Chain) |-> Chain[i].slot], n)
       + Cardinality(Unlinked(n)) + Cardinality(Retiring(n)) = 1

(***************************************************************************)
(* peek never returns corrupted bytes (spec.md 4.2: "it re-validates head *)
(* and next through get and aborts on any staleness"): whatever the       *)
(* pushes and pops around it do, the data_out of a peek is the item some  *)
(* push wrote, or untouched.                                              *)
(***************************************************************************)
PeekIntact == \A t \in Observers : out[t] # Torn

(***************************************************************************)
(* empty answers false only for a queue that held an item at some moment  *)
(* of the call: it was not empty when the call began, or a push linked an *)
(* item during it.  empty reads head->next through a head_h it loaded     *)
(* earlier, and by then that node may have been popped, released and      *)
(* reused by a push; the non-null next it finds must still witness an    *)
(* item.                                                                   *)
(***************************************************************************)
EmptyFalseSound ==
  \A t \in Observers :
    obs[t].answer = "false" => obs[t].items > 0 \/ Linked > obs[t].pops + obs[t].items

(***************************************************************************)
(* empty answers true only for a queue that was empty when the call began *)
(* or that a pop changed during it.  A true answer from a stale head_h    *)
(* (anam_get fails at line 195) is the consequence of a head CAS by some  *)
(* pop; without one the head node stays valid and its next, set by the   *)
(* link CAS before the call, reports the item.                            *)
(***************************************************************************)
EmptyTrueExplained ==
  \A t \in Observers :
    obs[t].answer = "true" => obs[t].items = 0 \/ Len(popped) > obs[t].pops

(***************************************************************************)
(* The queue refines QueueAbstract: the items reachable from the head are  *)
(* the abstract FIFO sequence; a push is its link CAS and a pop its head   *)
(* CAS, which hands the consumer the item at the front.                    *)
(***************************************************************************)
QA == INSTANCE QueueAbstract WITH q <- QueueItems, deq <- popped
RefinesQueue == QA!Spec

\* Pushes whose item is linked but not yet counted by length++, and pops
\* whose head CAS took an item not yet uncounted by length--.
LinkedUncounted == {t \in Producers : pc[t] \in {"p_swing", "p_swing_cas"}}
PoppedUncounted == {t \in Consumers : pc[t] = "c_release"}

(***************************************************************************)
(* length is off from the items in the queue only by the calls in flight   *)
(* (spec.md 4.2: "eventually consistent"): it lags by the pushes between   *)
(* their link CAS and length++, and leads by the pops between their head   *)
(* CAS and length--.  So it is exact at quiescent points, and it drops     *)
(* below zero, which anam_queue_length returns as a size_t near 2^64,     *)
(* only while a pop has taken an item whose push has not yet counted it.  *)
(***************************************************************************)
LengthAccounted ==
  length = Len(QueueItems) - Cardinality(LinkedUncounted)
                           + Cardinality(PoppedUncounted)

\* With a single producer, every call of push and pop returns: each retry
\* of pop's loop (a stale or released head, 144-149, or a lagging tail it
\* helps, 158) and of push's (113-120) is caused by another thread's step,
\* and the other threads stop after their calls.  With two producers it
\* fails: the tail regression of queue_tail_regression leaves push spinning
\* at 113, so this is lock-freedom for the single-producer use only.
OpsComplete == \A t \in Threads : (pc[t] # "idle") ~> (pc[t] = "idle")

=============================================================================
