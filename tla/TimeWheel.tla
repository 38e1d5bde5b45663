----------------------------- MODULE TimeWheel -----------------------------
(***************************************************************************)
(* The one-level time wheel every soft state of the router hangs on        *)
(* (src/pywind/clib/timer.c): NAT sessions, RPC connections, neighbours,   *)
(* cached routes, fragments.                                               *)
(*                                                                         *)
(* The wheel is a ring of slots, each a list of struct time_data nodes.    *)
(* A node carries the client's pointer and an is_deleted flag.  Nodes come *)
(* from a free list and are recycled to it.  time_wheel_handle() moves the *)
(* ring by the whole ticks that went by and fires the slots it passed, one *)
(* callback at a time; a callback may arm a new node, so the walk is not   *)
(* one atomic step here: HandleBegin, then one step per node, then         *)
(* SlotDone for every slot.  The program is single threaded: nothing but   *)
(* the callbacks runs while left # 0.                                      *)
(*                                                                         *)
(* The clock is kept as the distance lag == time(NULL) - old_time, the     *)
(* only way the code reads it.  A step of the clock may be negative.       *)
(*                                                                         *)
(* This module has no specification of its own: the modules of the         *)
(* wheel's clients extend it and give the callback.                        *)
(***************************************************************************)
EXTENDS Integers, FiniteSets

CONSTANTS
  Data,         \* what a client hangs on the wheel (its objects)
  NoData,       \* the NULL pointer of a node that carries nothing
  Nodes,        \* the struct time_data objects malloc can return
  NoNode,       \* the NULL of a client's pointer to its node
  TickSize,     \* tick_size of time_wheel_new; the ring has one slot more
  Every,        \* every_tick_timeout, in seconds
  ArmTimeout,   \* the timeout every caller passes to time_wheel_add
  PreAlloc,     \* pre_alloc_data_num: nodes the wheel keeps
  ClockSteps,   \* by how much time(NULL) may change between two readings
  MaxLag,       \* bound: the longest gap between two turns of the loop
  MaxBack       \* bound: how far the clock may be behind old_time

ASSUME NullAssumption == NoData \notin Data /\ NoNode \notin Nodes
ASSUME RingAssumption == TickSize \in Nat /\ Every \in Nat \ {0}
ASSUME ArmAssumption == ArmTimeout \in Nat /\ ArmTimeout < 2 * Every
ASSUME PoolAssumption == PreAlloc \in Nat
ASSUME ClockAssumption == ClockSteps \subseteq Int /\ MaxLag \in Nat /\ MaxBack \in Nat

Slots == 0 .. TickSize
Ring  == TickSize + 1

VARIABLES
  slots,  \* tick->time_data of each slot: the nodes listed there
  cur,    \* cur_tick: the slot new nodes go to
  lag,    \* time(NULL) - old_time
  left,   \* time_wheel_handle: slots still to be fired, 0 outside of it
  at,     \* time_wheel_handle: the slot being fired
  todo,   \* time_wheel_timeout: nodes of that slot not yet fired
  data,   \* node->data
  del,    \* node->is_deleted
  heap,   \* nodes that are malloc'ed, cur_data_num of them
  empty   \* empty_data_head: the nodes that wait to be reused

clockVars == <<lag>>
walkVars  == <<cur, left, at, todo>>
nodeVars  == <<slots, data, del, heap, empty>>
wheelVars == <<slots, cur, lag, left, at, todo, data, del, heap, empty>>

(***************************************************************************)
(* State.                                                                  *)
(***************************************************************************)
WheelTypeOK ==
  /\ slots \in [Slots -> SUBSET Nodes]
  /\ cur \in Slots
  /\ lag \in -MaxBack .. MaxLag
  /\ left \in Nat
  /\ at \in Slots
  /\ todo \subseteq Nodes
  /\ data \in [Nodes -> Data \cup {NoData}]
  /\ del \in [Nodes -> BOOLEAN]
  /\ heap \subseteq Nodes
  /\ empty \subseteq heap

\* time_wheel_new: PreAlloc nodes on the free list, an empty ring.
WheelInit ==
  /\ slots = [i \in Slots |-> {}]
  /\ cur = 0 /\ lag = 0
  /\ left = 0 /\ at = 0 /\ todo = {}
  /\ data = [n \in Nodes |-> NoData]
  /\ del = [n \in Nodes |-> FALSE]
  /\ heap \in {h \in SUBSET Nodes : Cardinality(h) = PreAlloc}
  /\ empty = heap

\* The loop is between two calls of time_wheel_handle.
Outside == left = 0

\* Nodes a slot of the ring still has to fire.  The list of the slot being
\* fired is the rest of its walk: its head pointer is stale until SlotDone.
Listed == UNION {slots[i] : i \in {j \in Slots : left = 0 \/ j # at}}

\* Nodes with a callback to come.
Pending == {n \in Listed \cup todo : ~del[n]}

(***************************************************************************)
(* Nodes: time_data_get and time_data_put.                                 *)
(***************************************************************************)
\* The nodes time_data_get may return: a recycled one, else a fresh one.
Gettable == IF empty # {} THEN empty ELSE Nodes \ heap

\* (Faulty variants of Recycled: a node that is not put back on the list, a
\* pool that is never shrunk.)
RecycledNever(n, h, e) ==
  IF Cardinality(h) > PreAlloc THEN <<h \ {n}, e>> ELSE <<h, e>>

RecycledAlways(n, h, e) == <<h, e \cup {n}>>

\* time_data_put(n) on a heap h with free list e: the wheel keeps at most
\* PreAlloc nodes and frees the rest.
Recycled(n, h, e) ==
  IF Cardinality(h) > PreAlloc THEN <<h \ {n}, e>> ELSE <<h, e \cup {n}>>

Put(n, h, e) ==
  /\ heap' = Recycled(n, h, e)[1]
  /\ empty' = Recycled(n, h, e)[2]

(***************************************************************************)
(* time_wheel_add.                                                         *)
(***************************************************************************)
\* time_wheel_tick_get: whole ticks of the timeout, at least one, counted
\* from the current slot without a modulo.
SlotFor == cur + (IF ArmTimeout < Every THEN 1 ELSE ArmTimeout \div Every) - 1

\* The node m is listed for d, when flags are the is_deleted flags; gone is
\* the flag of m once the call that armed it returns (a caller that fails
\* later sets it).
ArmAfter(flags, m, d, gone) ==
  /\ m \in Gettable
  /\ heap' = heap \cup {m}
  /\ empty' = empty \ {m}
  /\ data' = [data EXCEPT ![m] = d]
  /\ del' = [flags EXCEPT ![m] = gone]
  /\ slots' = [slots EXCEPT ![SlotFor] = @ \cup {m}]
  /\ UNCHANGED <<clockVars, walkVars>>

Arm(m, d, gone) == ArmAfter(del, m, d, gone)

(***************************************************************************)
(* time_wheel_handle.                                                      *)
(***************************************************************************)
\* time(NULL) moves between two readings; a large step is a stalled process
\* or a clock that was set, a negative one a clock that was set back.
ClockStep(d) ==
  /\ Outside
  /\ lag + d \in -MaxBack .. MaxLag
  /\ lag' = lag + d
  /\ UNCHANGED <<walkVars, nodeVars>>

\* (Faulty variants of HandleBegin: the new slot is not taken modulo the ring,
\* the ring is not moved before the callbacks run.)
HandleBeginNoModulo ==
  /\ Outside
  /\ lag >= Every
  /\ left' = lag \div Every
  /\ cur' = cur + lag \div Every
  /\ lag' = 0
  /\ at' = cur
  /\ todo' = slots[cur]
  /\ UNCHANGED nodeVars

HandleBeginUnmoved ==
  /\ Outside
  /\ lag >= Every
  /\ left' = lag \div Every
  /\ lag' = 0
  /\ at' = cur
  /\ todo' = slots[cur]
  /\ UNCHANGED <<cur, nodeVars>>

\* The ring first moves to the slot of the new time, so that callbacks arm
\* relative to it; a remainder of less than a tick is forgotten.
HandleBegin ==
  /\ Outside
  /\ lag >= Every
  /\ left' = lag \div Every
  /\ cur' = (cur + lag \div Every) % Ring
  /\ lag' = 0
  /\ at' = cur
  /\ todo' = slots[cur]
  /\ UNCHANGED nodeVars

\* time_wheel_timeout: a node whose flag is set is only recycled.  (What
\* a node on no list holds is not read before time_data_get and
\* time_wheel_add set it again: it is kept blank.)
SkipDeleted(n) ==
  /\ n \in todo /\ del[n]
  /\ todo' = todo \ {n}
  /\ data' = [data EXCEPT ![n] = NoData]
  /\ del' = [del EXCEPT ![n] = FALSE]
  /\ Put(n, heap, empty)
  /\ UNCHANGED <<slots, cur, lag, left, at>>

\* The callback of n returns without arming anything.
FireOnly(n) ==
  /\ n \in todo /\ ~del[n]
  /\ todo' = todo \ {n}
  /\ data' = [data EXCEPT ![n] = NoData]
  /\ Put(n, heap, empty)
  /\ UNCHANGED <<slots, cur, lag, left, at, del>>

\* The callback of n arms m for the same data; n is recycled after that.
FireRearm(n, m) ==
  /\ n \in todo /\ ~del[n]
  /\ m \in Gettable
  /\ todo' = todo \ {n}
  /\ slots' = [slots EXCEPT ![SlotFor] = @ \cup {m}]
  /\ data' = [data EXCEPT ![m] = data[n], ![n] = NoData]
  /\ del' = [del EXCEPT ![m] = FALSE]
  /\ Put(n, heap \cup {m}, empty \ {m})
  /\ UNCHANGED <<cur, lag, left, at>>

\* tick->next of the ring.
Succ(i) == IF i = TickSize THEN 0 ELSE i + 1

\* The list of a fired slot is dropped and the walk goes to the next slot.
SlotDone ==
  /\ left > 0 /\ todo = {}
  /\ slots' = [slots EXCEPT ![at] = {}]
  /\ left' = left - 1
  /\ at' = Succ(at)
  /\ todo' = IF left = 1 THEN {} ELSE slots'[Succ(at)]
  /\ UNCHANGED <<cur, lag, data, del, heap, empty>>

(***************************************************************************)
(* What the wheel promises about its nodes.                                *)
(***************************************************************************)
\* Every malloc'ed node is on the free list or still has to be fired, never
\* both, and never on two lists: recycling in timer.c leaks and aliases none.
NodesAccounted ==
  /\ heap = empty \cup Listed \cup todo
  /\ empty \cap (Listed \cup todo) = {}
  /\ Listed \cap todo = {}
  /\ \A i, j \in Slots : i # j /\ slots[i] \cap slots[j] # {} => left > 0 /\ at \in {i, j}

\* The wheel keeps at most the nodes it pre-allocated: a node above that is
\* only malloc'ed while all the others are in use.
PoolBounded == Cardinality(heap) > PreAlloc => empty = {}
============================================================================
