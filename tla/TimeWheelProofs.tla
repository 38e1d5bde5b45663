-------------------------- MODULE TimeWheelProofs --------------------------
(***************************************************************************)
(* Lemmas about the time wheel for every ring, tick and pool: what each of *)
(* its steps does to the nodes that have a callback to come.  The modules  *)
(* of the wheel's clients prove their invariants from these.               *)
(*                                                                         *)
(* WheelSound holds for ever: no node is on two lists or recycled while it *)
(* is on one, and no step makes a node pending but arming it.  WheelInv    *)
(* says more, that no pending node is lost either, and holds as long as    *)
(* two turns of the loop are less than one turn of the ring apart          *)
(* (NoStall); the run ev_rpc_stall shows what happens otherwise.           *)
(***************************************************************************)
EXTENDS TimeWheel, TLAPS

NoStall == MaxLag < Ring * Every

\* The slot n steps after slot i, for n < Ring.
Ahead(i, n) == IF i + n > TickSize THEN i + n - Ring ELSE i + n

(***************************************************************************)
(* The inductive invariant.  Every caller asks for one tick, so the nodes  *)
(* that are listed are those of the current slot; during a walk the slot   *)
(* being fired is a different one.                                         *)
(***************************************************************************)
WalkOK ==
  /\ left <= TickSize
  /\ left > 0 => cur = Ahead(at, left)
  /\ left = 0 => todo = {}

OnlyCurListed == \A i \in Slots \ {cur} : left = 0 \/ i # at => slots[i] = {}

HeapOK ==
  /\ heap = empty \cup slots[cur] \cup todo
  /\ empty \cap (slots[cur] \cup todo) = {}
  /\ slots[cur] \cap todo = {}

WheelInv == WheelTypeOK /\ WalkOK /\ OnlyCurListed /\ HeapOK /\ PoolBounded

(***************************************************************************)
(* Arithmetic of the ring.                                                 *)
(***************************************************************************)
LEMMA ModRange ==
  ASSUME NEW x \in Int, NEW r \in Nat \ {0} PROVE x % r \in 0 .. r - 1
  OBVIOUS

LEMMA ModWrap ==
  ASSUME NEW x \in Int, NEW r \in Nat \ {0}, x \in 0 .. 2 * r - 1
  PROVE  x % r = IF x < r THEN x ELSE x - r
  OBVIOUS

LEMMA DivBound ==
  ASSUME NEW x \in Nat, NEW e \in Nat \ {0}, NEW r \in Nat, x < r * e
  PROVE  x \div e < r
  OBVIOUS

LEMMA DivAtLeastOne ==
  ASSUME NEW x \in Nat, NEW e \in Nat \ {0}, x >= e PROVE x \div e \in Nat \ {0}
  OBVIOUS

LEMMA DivIsOne ==
  ASSUME NEW x \in Nat, NEW e \in Nat \ {0}, x >= e, x < 2 * e PROVE x \div e = 1
  OBVIOUS

\* A node that is armed goes to the current slot.
LEMMA SlotForIsCur ==
  ASSUME WheelTypeOK PROVE SlotFor = cur
  <1>1. CASE ArmTimeout < Every
    BY <1>1, RingAssumption DEF SlotFor, WheelTypeOK, Slots
  <1>2. CASE ArmTimeout >= Every
    BY <1>2, DivIsOne, ArmAssumption, RingAssumption DEF SlotFor, WheelTypeOK, Slots
  <1> QED BY <1>1, <1>2, ArmAssumption, RingAssumption

\* The ticks of one call of time_wheel_handle are less than the ring.
LEMMA TicksBounded ==
  ASSUME NoStall, WheelTypeOK, lag >= Every
  PROVE  lag \div Every \in 1 .. TickSize
  <1>1. lag \in Nat /\ lag < Ring * Every
    BY RingAssumption, ClockAssumption DEF WheelTypeOK, NoStall, Ring
  <1>2. lag \div Every < Ring
    BY <1>1, DivBound, RingAssumption DEF Ring
  <1>3. lag \div Every \in Nat \ {0}
    BY <1>1, DivAtLeastOne, RingAssumption
  <1> QED BY <1>2, <1>3, RingAssumption DEF Ring

(***************************************************************************)
(* What holds for ever.  After a stall of a whole turn a callback may arm  *)
(* a node in the very slot that is being fired and is emptied after it:    *)
(* the node is on no list then, still malloc'ed and never used again.      *)
(***************************************************************************)
NoTwoLists ==
  \A i, j \in Slots : i # j /\ (left = 0 \/ at \notin {i, j}) => slots[i] \cap slots[j] = {}

InUse ==
  /\ empty \cap (Listed \cup todo) = {}
  /\ Listed \cup todo \subseteq heap
  /\ Listed \cap todo = {}

WheelSound == WheelTypeOK /\ (left = 0 => todo = {}) /\ InUse /\ NoTwoLists /\ PoolBounded

LEMMA InListed ==
  ASSUME NEW n PROVE n \in Listed <=> \E i \in Slots : (left = 0 \/ i # at) /\ n \in slots[i]
  BY DEF Listed

LEMMA InListedNext ==
  ASSUME NEW n
  PROVE  n \in Listed' <=> \E i \in Slots : (left' = 0 \/ i # at') /\ n \in slots'[i]
  BY DEF Listed

LEMMA PendingTypes ==
  ASSUME WheelTypeOK PROVE Listed \subseteq Nodes /\ Pending \subseteq Nodes
  BY DEF Pending, Listed, WheelTypeOK

\* Neither lists nor flags change.
LEMMA SoundSame ==
  ASSUME WheelSound, WheelTypeOK', UNCHANGED <<slots, left, at, todo, heap, empty>>
  PROVE  WheelSound' /\ Listed' = Listed
  BY DEF WheelSound, InUse, NoTwoLists, PoolBounded, Listed

LEMMA SoundInit ==
  ASSUME WheelInit PROVE WheelSound /\ Pending = {}
  <1>1. WheelTypeOK
    BY RingAssumption, ClockAssumption DEF WheelInit, WheelTypeOK, Slots
  <1>2. Listed = {} /\ todo = {}
    BY DEF WheelInit, Listed
  <1>3. NoTwoLists
    BY DEF WheelInit, NoTwoLists
  <1>4. PoolBounded
    BY PoolAssumption DEF WheelInit, PoolBounded
  <1> QED BY <1>1, <1>2, <1>3, <1>4 DEF WheelSound, InUse, Pending

LEMMA SoundStutter ==
  ASSUME WheelSound, UNCHANGED wheelVars PROVE WheelSound' /\ Pending' = Pending
  <1>1. WheelTypeOK'
    BY DEF WheelSound, WheelTypeOK, wheelVars
  <1>2. UNCHANGED <<slots, left, at, todo, heap, empty, del>>
    BY DEF wheelVars
  <1> QED BY <1>1, <1>2, SoundSame DEF Pending

LEMMA SoundCancel ==
  ASSUME WheelSound, NEW flags \in [Nodes -> BOOLEAN], del' = flags,
         UNCHANGED <<slots, data, heap, empty, clockVars, walkVars>>
  PROVE  WheelSound' /\ Pending' = {n \in Listed \cup todo : ~flags[n]}
  <1>1. WheelTypeOK'
    BY DEF WheelSound, WheelTypeOK, clockVars, walkVars
  <1> QED BY <1>1, SoundSame DEF Pending, clockVars, walkVars

LEMMA SoundClock ==
  ASSUME WheelSound, NEW d \in Int, ClockStep(d) PROVE WheelSound' /\ Pending' = Pending
  <1>1. WheelTypeOK'
    BY DEF WheelSound, WheelTypeOK, ClockStep, walkVars, nodeVars
  <1> QED BY <1>1, SoundSame DEF Pending, ClockStep, walkVars, nodeVars

\* Gettable nodes are on no list.
LEMMA SoundGettable ==
  ASSUME WheelSound, NEW m \in Gettable
  PROVE  m \in Nodes /\ m \notin Listed /\ m \notin todo
  BY DEF WheelSound, WheelTypeOK, InUse, Gettable

\* One node more in the current slot.
LEMMA OneMoreListed ==
  ASSUME WheelSound, NEW m, m \notin Listed, UNCHANGED <<left, at>>,
         slots' = [slots EXCEPT ![SlotFor] = @ \cup {m}]
  PROVE  Listed' \subseteq Listed \cup {m} /\ NoTwoLists'
  <1>1. SlotFor = cur /\ cur \in Slots /\ slots \in [Slots -> SUBSET Nodes]
    BY SlotForIsCur DEF WheelSound, WheelTypeOK
  <1>2. \A i \in Slots : slots'[i] = IF i = cur THEN slots[i] \cup {m} ELSE slots[i]
    BY <1>1
  <1>3. Listed' \subseteq Listed \cup {m}
    BY <1>2, InListed, InListedNext
  <1>4. \A i \in Slots : left = 0 \/ i # at => m \notin slots[i]
    BY InListed
  <1>5. NoTwoLists'
    BY <1>2, <1>4 DEF NoTwoLists, WheelSound
  <1> QED BY <1>3, <1>5

LEMMA SoundArmAfter ==
  ASSUME WheelSound, NEW flags \in [Nodes -> BOOLEAN], NEW m \in Nodes, NEW d \in Data,
         NEW gone \in BOOLEAN, ArmAfter(flags, m, d, gone)
  PROVE  /\ WheelSound'
         /\ m \notin Listed /\ m \notin todo
         /\ Pending' \subseteq
              {n \in Listed \cup todo : ~flags[n]} \cup (IF gone THEN {} ELSE {m})
  <1>1. SlotFor = cur /\ cur \in Slots /\ slots \in [Slots -> SUBSET Nodes]
    BY SlotForIsCur DEF WheelSound, WheelTypeOK
  <1>2. m \notin Listed /\ m \notin todo
    BY SoundGettable DEF ArmAfter
  <1>3. WheelTypeOK'
    BY <1>1 DEF WheelSound, WheelTypeOK, ArmAfter, clockVars, walkVars
  <1>4. /\ UNCHANGED <<left, at, todo>> /\ slots' = [slots EXCEPT ![SlotFor] = @ \cup {m}]
        /\ heap' = heap \cup {m} /\ empty' = empty \ {m} /\ del' = [flags EXCEPT ![m] = gone]
    BY DEF ArmAfter, walkVars
  <1>5. Listed' \subseteq Listed \cup {m} /\ NoTwoLists'
    BY <1>2, <1>4, OneMoreListed
  <1>6. InUse'
    BY <1>2, <1>4, <1>5 DEF WheelSound, InUse
  <1>7. PoolBounded'
    BY DEF WheelSound, PoolBounded, ArmAfter, Gettable, WheelTypeOK
  <1>8. WheelSound'
    BY <1>3, <1>4, <1>5, <1>6, <1>7 DEF WheelSound
  <1>9. Listed \cup todo \subseteq Nodes
    BY PendingTypes DEF WheelSound, WheelTypeOK
  <1> QED BY <1>2, <1>4, <1>5, <1>8, <1>9 DEF Pending

LEMMA SoundArm ==
  ASSUME WheelSound, NEW m \in Nodes, NEW d \in Data, NEW gone \in BOOLEAN, Arm(m, d, gone)
  PROVE  /\ WheelSound'
         /\ m \notin Pending
         /\ Pending' \subseteq IF gone THEN Pending ELSE Pending \cup {m}
  <1>1. del \in [Nodes -> BOOLEAN] /\ ArmAfter(del, m, d, gone)
    BY DEF WheelSound, WheelTypeOK, Arm
  <1> QED BY <1>1, SoundArmAfter DEF Pending

LEMMA SoundHandleBegin ==
  ASSUME WheelSound, HandleBegin PROVE WheelSound' /\ Pending' = Pending
  <1>1. left = 0 /\ todo = {} /\ cur \in Slots /\ lag \in Nat /\ lag >= Every
    BY RingAssumption, ClockAssumption DEF HandleBegin, Outside, WheelSound, WheelTypeOK
  <1>2. PICK k \in Nat \ {0} : k = lag \div Every
    BY <1>1, DivAtLeastOne, RingAssumption
  <1>3. Ring \in Nat \ {0} /\ cur + k \in Int
    BY <1>1, RingAssumption DEF Ring, Slots
  <1>4. (cur + k) % Ring \in Slots
    <2>1. (cur + k) % Ring \in 0 .. Ring - 1
      BY <1>3, ModRange
    <2>2. Ring - 1 = TickSize
      BY RingAssumption DEF Ring
    <2> QED BY <2>1, <2>2 DEF Slots
  <1>5. /\ left' = k /\ cur' = (cur + k) % Ring /\ lag' = 0 /\ at' = cur /\ todo' = slots[cur]
        /\ UNCHANGED <<slots, data, del, heap, empty>>
    BY <1>2 DEF HandleBegin, nodeVars
  <1>6. WheelTypeOK'
    BY <1>1, <1>4, <1>5, ClockAssumption DEF WheelSound, WheelTypeOK
  <1>7. Listed' \cup todo' = Listed \cup todo /\ Listed' \cap todo' = {}
    <2>1. \A i \in Slots : i # cur => slots[i] \cap slots[cur] = {}
      BY <1>1 DEF WheelSound, NoTwoLists
    <2>2. left' # 0
      BY <1>5
    <2>3. ASSUME NEW n PROVE n \in Listed <=> n \in Listed' \cup todo'
      BY <1>1, <1>5, <2>2, InListed, InListedNext
    <2>4. ASSUME NEW n \in Listed' PROVE n \notin todo'
      BY <1>1, <1>5, <2>1, <2>2, InListedNext
    <2> QED BY <1>1, <2>3, <2>4
  <1>8. InUse' /\ PoolBounded'
    BY <1>5, <1>7 DEF WheelSound, InUse, PoolBounded
  <1>9. NoTwoLists'
    BY <1>1, <1>5 DEF WheelSound, NoTwoLists
  <1> QED BY <1>5, <1>6, <1>7, <1>8, <1>9 DEF WheelSound, Pending

\* A node that leaves the walk, whether its callback ran or not.
LEMMA SoundLeave ==
  ASSUME WheelSound, NEW n \in todo, todo' = todo \ {n}, Put(n, heap, empty),
         UNCHANGED <<slots, cur, lag, left, at>>,
         data' = [data EXCEPT ![n] = NoData], del' \in [Nodes -> BOOLEAN]
  PROVE  WheelSound' /\ Listed' = Listed /\ n \in Nodes /\ n \notin Listed
  <1>1. n \in Nodes /\ n \in heap /\ n \notin Listed /\ n \notin empty
    BY DEF WheelSound, WheelTypeOK, InUse
  <1>2. WheelTypeOK'
    BY <1>1 DEF WheelSound, WheelTypeOK, Put, Recycled
  <1>3. Listed' = Listed /\ NoTwoLists'
    BY DEF Listed, WheelSound, NoTwoLists
  <1>4. InUse'
    BY <1>1, <1>3 DEF WheelSound, InUse, Put, Recycled
  <1>5. PoolBounded'
    BY <1>1 DEF WheelSound, InUse, PoolBounded, Put, Recycled
  <1> QED BY <1>1, <1>2, <1>3, <1>4, <1>5 DEF WheelSound

LEMMA SoundSkip ==
  ASSUME WheelSound, NEW n \in todo, SkipDeleted(n)
  PROVE  WheelSound' /\ Pending' \subseteq Pending
  <1>1. del' = [del EXCEPT ![n] = FALSE] /\ del \in [Nodes -> BOOLEAN] /\ todo' = todo \ {n}
    BY DEF SkipDeleted, WheelSound, WheelTypeOK
  <1>2. WheelSound' /\ Listed' = Listed /\ n \in Nodes /\ n \notin Listed
    BY <1>1, SoundLeave DEF SkipDeleted
  <1>3. Listed \cup todo \subseteq Nodes
    BY PendingTypes DEF WheelSound, WheelTypeOK
  <1> QED BY <1>1, <1>2, <1>3 DEF Pending

LEMMA SoundFireOnly ==
  ASSUME WheelSound, NEW n \in todo, FireOnly(n)
  PROVE  WheelSound' /\ n \in Pending /\ Pending' = Pending \ {n}
  <1>1. WheelSound' /\ Listed' = Listed /\ n \notin Listed
    BY SoundLeave DEF FireOnly, WheelSound, WheelTypeOK
  <1> QED BY <1>1 DEF FireOnly, Pending

LEMMA SoundFireRearm ==
  ASSUME WheelSound, NEW n \in todo, NEW m \in Nodes, FireRearm(n, m)
  PROVE  /\ WheelSound'
         /\ n \in Pending /\ m \notin Pending
         /\ Pending' \subseteq (Pending \ {n}) \cup {m}
  <1>1. /\ SlotFor = cur /\ cur \in Slots /\ slots \in [Slots -> SUBSET Nodes]
        /\ n \in Nodes /\ n \in heap /\ n \notin Listed /\ n \notin empty
    BY SlotForIsCur DEF WheelSound, WheelTypeOK, InUse
  <1>2. m \notin Listed /\ m \notin todo /\ m # n
    BY SoundGettable DEF FireRearm
  <1>3. /\ todo' = todo \ {n} /\ slots' = [slots EXCEPT ![SlotFor] = @ \cup {m}]
        /\ del' = [del EXCEPT ![m] = FALSE] /\ ~del[n] /\ UNCHANGED <<cur, lag, left, at>>
        /\ data' = [data EXCEPT ![m] = data[n], ![n] = NoData]
        /\ Put(n, heap \cup {m}, empty \ {m})
    BY DEF FireRearm
  <1>4. WheelTypeOK'
    BY <1>1, <1>3 DEF WheelSound, WheelTypeOK, Put, Recycled
  <1>5. Listed' \subseteq Listed \cup {m} /\ NoTwoLists'
    BY <1>2, <1>3, OneMoreListed
  <1>6. InUse'
    BY <1>1, <1>2, <1>3, <1>5 DEF WheelSound, InUse, Put, Recycled
  <1>7. PoolBounded'
    <2>1. CASE m \in empty
      <3>1. heap \cup {m} = heap /\ ~(Cardinality(heap) > PreAlloc)
        BY <2>1 DEF WheelSound, PoolBounded, WheelTypeOK
      <3> QED BY <3>1, <1>3 DEF PoolBounded, Put, Recycled
    <2>2. CASE m \notin empty
      BY <2>2, <1>1 DEF WheelSound, PoolBounded, FireRearm, Put, Recycled, Gettable
    <2> QED BY <2>1, <2>2
  <1>8. WheelSound'
    BY <1>1, <1>3, <1>4, <1>5, <1>6, <1>7 DEF WheelSound
  <1>9. Listed \cup todo \subseteq Nodes /\ del \in [Nodes -> BOOLEAN]
    BY PendingTypes DEF WheelSound, WheelTypeOK
  <1> QED BY <1>1, <1>2, <1>3, <1>5, <1>8, <1>9 DEF Pending

LEMMA SoundSlotDone ==
  ASSUME WheelSound, SlotDone
  PROVE  WheelSound' /\ Pending' \subseteq Pending
  <1>1. /\ left \in Nat \ {0} /\ at \in Slots /\ todo = {} /\ left' = left - 1 /\ at' = Succ(at)
        /\ slots' = [slots EXCEPT ![at] = {}] /\ slots \in [Slots -> SUBSET Nodes]
        /\ todo' = (IF left = 1 THEN {} ELSE slots'[Succ(at)])
        /\ UNCHANGED <<cur, lag, data, del, heap, empty>>
    BY DEF SlotDone, WheelSound, WheelTypeOK
  <1>2. Succ(at) \in Slots
    BY <1>1, RingAssumption DEF Succ, Slots
  <1>3. \A i \in Slots : slots'[i] = IF i = at THEN {} ELSE slots[i]
    BY <1>1
  <1>4. Listed' \subseteq Listed /\ todo' \subseteq Listed
    BY <1>1, <1>2, <1>3, InListed, InListedNext
  <1>5. NoTwoLists'
    BY <1>1, <1>3 DEF WheelSound, NoTwoLists
  <1>6. Listed' \cap todo' = {}
    <2>1. CASE left = 1
      BY <1>1, <2>1
    <2>2. CASE left # 1
      <3>1. \A i \in Slots : i # Succ(at) => slots'[i] \cap slots'[Succ(at)] = {}
        BY <1>1, <1>2, <1>3 DEF WheelSound, NoTwoLists
      <3>2. ASSUME NEW n \in Listed' PROVE n \notin todo'
        BY <1>1, <2>2, <3>1, InListedNext
      <3> QED BY <3>2
    <2> QED BY <2>1, <2>2
  <1>7. InUse' /\ PoolBounded'
    BY <1>1, <1>4, <1>6 DEF WheelSound, InUse, PoolBounded
  <1>8. WheelTypeOK'
    BY <1>1, <1>2, <1>3 DEF WheelSound, WheelTypeOK
  <1>9. left' = 0 => todo' = {}
    BY <1>1
  <1>10. WheelSound'
    BY <1>5, <1>7, <1>8, <1>9 DEF WheelSound
  <1> QED BY <1>1, <1>4, <1>10 DEF Pending

(***************************************************************************)
(* What the invariant says of the nodes.                                   *)
(***************************************************************************)
LEMMA ListedIsCur ==
  ASSUME WheelInv PROVE Listed = slots[cur]
  <1>1. left = 0 \/ cur # at
    BY RingAssumption DEF WheelInv, WalkOK, WheelTypeOK, Ahead, Slots, Ring
  <1> QED BY <1>1 DEF WheelInv, WheelTypeOK, OnlyCurListed, Listed

LEMMA PendingIsCurOrTodo ==
  WheelInv => Pending = {n \in slots[cur] \cup todo : ~del[n]}
  BY ListedIsCur DEF Pending

\* Gettable nodes are not in use.
LEMMA GettableIsUnused ==
  ASSUME WheelInv, NEW m \in Gettable
  PROVE  m \in Nodes /\ m \notin slots[cur] /\ m \notin todo
  BY DEF WheelInv, WheelTypeOK, HeapOK, Gettable

LEMMA WheelInvSound ==
  ASSUME WheelInv PROVE WheelSound
  <1>1. Listed = slots[cur]
    BY ListedIsCur
  <1>2. NoTwoLists
    BY RingAssumption DEF WheelInv, WheelTypeOK, OnlyCurListed, NoTwoLists
  <1> QED BY <1>1, <1>2 DEF WheelSound, WheelInv, InUse, HeapOK, WalkOK

\* No node leaks, none is on two lists: NodesAccounted.
LEMMA WheelInvAccounts ==
  ASSUME WheelInv PROVE NodesAccounted
  <1>1. Listed = slots[cur]
    BY ListedIsCur
  <1>2. ASSUME NEW i \in Slots, NEW j \in Slots, i # j, slots[i] \cap slots[j] # {}
        PROVE  left > 0 /\ at \in {i, j}
    BY <1>2, RingAssumption DEF WheelInv, WheelTypeOK, OnlyCurListed
  <1> QED BY <1>1, <1>2 DEF NodesAccounted, WheelInv, HeapOK

(***************************************************************************)
(* Every step of the wheel keeps the invariant; what it does to Pending.   *)
(***************************************************************************)
LEMMA InitStep ==
  ASSUME WheelInit PROVE WheelInv /\ Pending = {}
  <1>1. WheelTypeOK
    BY RingAssumption, ClockAssumption DEF WheelInit, WheelTypeOK, Slots
  <1>2. WalkOK /\ OnlyCurListed /\ HeapOK
    BY RingAssumption DEF WheelInit, WalkOK, OnlyCurListed, HeapOK, Slots
  <1>3. PoolBounded
    BY PoolAssumption DEF WheelInit, PoolBounded
  <1>4. WheelInv
    BY <1>1, <1>2, <1>3 DEF WheelInv
  <1> QED BY <1>4, PendingIsCurOrTodo, RingAssumption DEF WheelInit, Slots

LEMMA StutterStep ==
  ASSUME WheelInv, UNCHANGED wheelVars
  PROVE  WheelInv' /\ Pending' = Pending
  BY DEF WheelInv, WheelTypeOK, WalkOK, OnlyCurListed, HeapOK, PoolBounded, Pending,
         Listed, wheelVars

\* Pending of the next state, for a step that is known to keep WheelInv.
LEMMA NextPending ==
  WheelInv' => Pending' = {n \in slots'[cur'] \cup todo' : ~del'[n]}
  <1>1. (WheelInv => Pending = {n \in slots[cur] \cup todo : ~del[n]})'
    BY PendingIsCurOrTodo, PTL
  <1> QED BY <1>1

\* A client sets is_deleted flags: only Pending changes.
LEMMA CancelStep ==
  ASSUME WheelInv, NEW flags \in [Nodes -> BOOLEAN], del' = flags,
         UNCHANGED <<slots, data, heap, empty, clockVars, walkVars>>
  PROVE  WheelInv' /\ Pending' = {n \in slots[cur] \cup todo : ~flags[n]}
  <1>1. WheelInv'
    BY DEF WheelInv, WheelTypeOK, WalkOK, OnlyCurListed, HeapOK, PoolBounded, clockVars,
           walkVars, Ahead
  <1> QED BY <1>1, NextPending DEF clockVars, walkVars

LEMMA ArmAfterStep ==
  ASSUME WheelInv, NEW flags \in [Nodes -> BOOLEAN], NEW m \in Nodes, NEW d \in Data,
         NEW gone \in BOOLEAN, ArmAfter(flags, m, d, gone)
  PROVE  /\ WheelInv'
         /\ m \notin slots[cur] /\ m \notin todo
         /\ slots'[cur'] = slots[cur] \cup {m} /\ todo' = todo
         /\ Pending' = {n \in slots[cur] \cup todo : ~flags[n]} \cup (IF gone THEN {} ELSE {m})
  <1> USE DEF WheelInv
  <1>1. SlotFor = cur /\ cur \in Slots /\ slots \in [Slots -> SUBSET Nodes]
    BY SlotForIsCur DEF WheelTypeOK
  <1>2. m \notin slots[cur] /\ m \notin todo
    BY GettableIsUnused DEF ArmAfter
  <1>3. WheelTypeOK'
    BY <1>1 DEF WheelTypeOK, ArmAfter, clockVars, walkVars
  <1>4. WalkOK' /\ OnlyCurListed'
    BY <1>1 DEF WalkOK, OnlyCurListed, ArmAfter, walkVars, Ahead
  <1>5. slots'[cur'] = slots[cur] \cup {m} /\ todo' = todo
    BY <1>1 DEF ArmAfter, walkVars
  <1>6. HeapOK'
    BY <1>2, <1>5 DEF HeapOK, ArmAfter
  <1>7. PoolBounded'
    BY DEF PoolBounded, ArmAfter, Gettable, WheelTypeOK
  <1>8. WheelInv'
    BY <1>3, <1>4, <1>6, <1>7
  <1>9. Pending' = {n \in slots[cur] \cup {m} \cup todo : ~del'[n]}
    BY <1>5, <1>8, NextPending
  <1>10. del' = [flags EXCEPT ![m] = gone]
    BY DEF ArmAfter
  <1>11. slots[cur] \cup todo \subseteq Nodes
    BY <1>1 DEF WheelTypeOK
  <1> QED BY <1>2, <1>5, <1>8, <1>9, <1>10, <1>11

LEMMA ArmStep ==
  ASSUME WheelInv, NEW m \in Nodes, NEW d \in Data, NEW gone \in BOOLEAN, Arm(m, d, gone)
  PROVE  /\ WheelInv'
         /\ m \notin Pending
         /\ Pending' = IF gone THEN Pending ELSE Pending \cup {m}
  <1>1. del \in [Nodes -> BOOLEAN] /\ ArmAfter(del, m, d, gone)
    BY DEF WheelInv, WheelTypeOK, Arm
  <1>2. Pending = {n \in slots[cur] \cup todo : ~del[n]}
    BY PendingIsCurOrTodo
  <1> QED BY <1>1, <1>2, ArmAfterStep

LEMMA ClockStepStep ==
  ASSUME WheelInv, NEW d \in Int, ClockStep(d)
  PROVE  WheelInv' /\ Pending' = Pending
  <1>1. WheelInv'
    BY DEF WheelInv, WheelTypeOK, WalkOK, OnlyCurListed, HeapOK, PoolBounded, ClockStep,
           walkVars, nodeVars
  <1> QED
    BY <1>1 DEF Pending, Listed, ClockStep, walkVars, nodeVars

\* The walk begins with every pending node in todo.
LEMMA HandleBeginStep ==
  ASSUME WheelInv, NoStall, HandleBegin
  PROVE  WheelInv' /\ Pending' = Pending /\ slots'[cur'] = {}
  <1> USE DEF WheelInv
  <1>1. left = 0 /\ todo = {} /\ cur \in Slots
    BY DEF HandleBegin, Outside, WalkOK, WheelTypeOK
  <1>2. PICK k \in 1 .. TickSize : k = lag \div Every
    BY TicksBounded DEF HandleBegin
  <1>3. left' = k /\ cur' = Ahead(cur, k) /\ Ahead(cur, k) \in Slots \ {cur}
    <2>1. cur + k \in 0 .. 2 * Ring - 1 /\ Ring \in Nat \ {0}
      BY <1>1, <1>2, RingAssumption DEF Ring, Slots
    <2>2. ASSUME NEW x \in Int, x \in 0 .. 2 * Ring - 1
          PROVE  x % Ring = IF x < Ring THEN x ELSE x - Ring
      BY <2>1, <2>2, ModWrap
    <2>3. (cur + k) % Ring = Ahead(cur, k) /\ Ahead(cur, k) \in Slots \ {cur}
      BY <1>1, <1>2, <2>1, <2>2, RingAssumption DEF Ahead, Ring, Slots
    <2> QED BY <1>2, <2>3 DEF HandleBegin
  <1>4. WheelTypeOK'
    BY <1>1, <1>2, <1>3, ClockAssumption DEF WheelTypeOK, HandleBegin, nodeVars
  <1>5. WalkOK'
    BY <1>1, <1>2, <1>3 DEF WalkOK, HandleBegin, Ahead
  <1>6. OnlyCurListed'
    BY <1>1, <1>3 DEF OnlyCurListed, HandleBegin, nodeVars
  <1>7. slots'[cur'] = {} /\ todo' = slots[cur]
    BY <1>1, <1>3 DEF OnlyCurListed, HandleBegin, nodeVars
  <1>8. HeapOK' /\ PoolBounded'
    BY <1>1, <1>7 DEF HeapOK, PoolBounded, HandleBegin, nodeVars
  <1>9. WheelInv'
    BY <1>4, <1>5, <1>6, <1>8
  <1>10. Pending' = {n \in slots[cur] : ~del[n]}
    BY <1>7, <1>9, NextPending DEF HandleBegin, nodeVars
  <1> QED BY <1>1, <1>7, <1>9, <1>10, PendingIsCurOrTodo
\* A node that leaves the walk, whether its callback ran or not.
LEMMA LeaveWalk ==
  ASSUME WheelInv, NEW n \in todo, todo' = todo \ {n}, Put(n, heap, empty),
         UNCHANGED <<slots, cur, lag, left, at>>,
         data' = [data EXCEPT ![n] = NoData], del' \in [Nodes -> BOOLEAN]
  PROVE  WheelInv'
  <1> USE DEF WheelInv
  <1>1. n \in Nodes /\ n \in heap /\ n \notin slots[cur] /\ n \notin empty
    BY DEF WheelTypeOK, HeapOK
  <1>2. WheelTypeOK'
    BY <1>1 DEF WheelTypeOK, Put, Recycled
  <1>3. WalkOK' /\ OnlyCurListed'
    BY DEF WalkOK, OnlyCurListed, Ahead
  <1>4. HeapOK' /\ PoolBounded'
    BY <1>1 DEF HeapOK, PoolBounded, Put, Recycled
  <1> QED BY <1>2, <1>3, <1>4

LEMMA SkipDeletedStep ==
  ASSUME WheelInv, NEW n \in todo, SkipDeleted(n)
  PROVE  WheelInv' /\ Pending' = Pending
  <1>1. del' = [del EXCEPT ![n] = FALSE] /\ del[n] /\ n \in Nodes
    BY DEF SkipDeleted, WheelInv, WheelTypeOK
  <1>2. WheelInv'
    <2>1. /\ todo' = todo \ {n} /\ Put(n, heap, empty)
          /\ UNCHANGED <<slots, cur, lag, left, at>>
          /\ data' = [data EXCEPT ![n] = NoData]
      BY DEF SkipDeleted
    <2>2. del' \in [Nodes -> BOOLEAN]
      BY <1>1 DEF WheelInv, WheelTypeOK
    <2> QED BY <2>1, <2>2, LeaveWalk
  <1>3. Pending' = {x \in slots[cur] \cup (todo \ {n}) : ~del'[x]}
    BY <1>2, NextPending DEF SkipDeleted
  <1>4. Pending = {x \in slots[cur] \cup todo : ~del[x]}
    BY PendingIsCurOrTodo
  <1>5. slots[cur] \cup todo \subseteq Nodes /\ n \notin slots[cur] /\ del \in [Nodes -> BOOLEAN]
    BY DEF WheelInv, WheelTypeOK, HeapOK
  <1> QED BY <1>1, <1>2, <1>3, <1>4, <1>5

LEMMA FireOnlyStep ==
  ASSUME WheelInv, NEW n \in todo, FireOnly(n)
  PROVE  WheelInv' /\ n \in Pending /\ Pending' = Pending \ {n}
  <1>1. WheelInv'
    BY LeaveWalk DEF FireOnly, WheelInv, WheelTypeOK
  <1>2. Pending' = {x \in slots[cur] \cup (todo \ {n}) : ~del[x]}
    BY <1>1, NextPending DEF FireOnly
  <1>3. Pending = {x \in slots[cur] \cup todo : ~del[x]}
    BY PendingIsCurOrTodo
  <1>4. n \notin slots[cur] /\ ~del[n]
    BY DEF WheelInv, HeapOK, FireOnly
  <1> QED BY <1>1, <1>2, <1>3, <1>4

LEMMA FireRearmStep ==
  ASSUME WheelInv, NEW n \in todo, NEW m \in Nodes, FireRearm(n, m)
  PROVE  /\ WheelInv'
         /\ n \in Pending /\ m \notin Pending
         /\ Pending' = (Pending \ {n}) \cup {m}
  <1> USE DEF WheelInv
  <1>1. /\ SlotFor = cur /\ cur \in Slots /\ slots \in [Slots -> SUBSET Nodes]
        /\ n \in Nodes /\ n \in heap /\ n \notin slots[cur] /\ n \notin empty
    BY SlotForIsCur DEF WheelTypeOK, HeapOK
  <1>2. m \notin slots[cur] /\ m \notin todo /\ m # n
    BY GettableIsUnused DEF FireRearm
  <1>3. slots' = [slots EXCEPT ![cur] = @ \cup {m}] /\ slots'[cur] = slots[cur] \cup {m}
    BY <1>1 DEF FireRearm
  <1>4. WheelTypeOK'
    BY <1>1, <1>3 DEF WheelTypeOK, FireRearm, Put, Recycled
  <1>5. WalkOK' /\ OnlyCurListed'
    BY <1>1, <1>3 DEF WalkOK, OnlyCurListed, FireRearm, Ahead
  <1>6. HeapOK'
    BY <1>1, <1>2, <1>3 DEF HeapOK, FireRearm, Put, Recycled
  <1>7. PoolBounded'
    <2>1. CASE m \in empty
      <3>1. heap \cup {m} = heap /\ ~(Cardinality(heap) > PreAlloc)
        BY <2>1 DEF PoolBounded, WheelTypeOK
      <3> QED BY <3>1 DEF PoolBounded, FireRearm, Put, Recycled
    <2>2. CASE m \notin empty
      BY <2>2, <1>1 DEF PoolBounded, FireRearm, Put, Recycled, Gettable
    <2> QED BY <2>1, <2>2
  <1>8. WheelInv'
    BY <1>4, <1>5, <1>6, <1>7
  <1>9. Pending' = {x \in slots[cur] \cup {m} \cup (todo \ {n}) : ~del'[x]}
    BY <1>3, <1>8, NextPending DEF FireRearm
  <1>10. Pending = {x \in slots[cur] \cup todo : ~del[x]} /\ slots[cur] \cup todo \subseteq Nodes
    BY <1>1, PendingIsCurOrTodo DEF WheelTypeOK
  <1>11. del' = [del EXCEPT ![m] = FALSE] /\ del \in [Nodes -> BOOLEAN] /\ ~del[n]
    BY DEF FireRearm, WheelTypeOK
  <1> QED BY <1>1, <1>2, <1>8, <1>9, <1>10, <1>11

\* No slot but the first of a walk has anything to fire.
LEMMA SlotDoneStep ==
  ASSUME WheelInv, SlotDone
  PROVE  WheelInv' /\ Pending' = Pending /\ todo' = {}
  <1> USE DEF WheelInv
  <1>1. left \in 1 .. TickSize /\ at \in Slots /\ cur \in Slots /\ todo = {} /\ cur = Ahead(at, left)
    BY DEF SlotDone, WalkOK, WheelTypeOK
  <1>2. cur # at /\ Succ(at) \in Slots /\ (left # 1 => cur # Succ(at))
    BY <1>1, RingAssumption DEF Ahead, Succ, Slots, Ring
  <1>3. cur = Ahead(Succ(at), left - 1)
    BY <1>1, RingAssumption DEF Ahead, Succ, Slots, Ring
  <1>4. slots' = [slots EXCEPT ![at] = {}] /\ slots'[cur] = slots[cur]
    BY <1>1, <1>2 DEF SlotDone, WheelTypeOK
  <1>5. todo' = {}
    BY <1>1, <1>2, <1>4 DEF SlotDone, OnlyCurListed, WheelTypeOK
  <1>6. WheelTypeOK'
    BY <1>1, <1>2, <1>4, <1>5 DEF WheelTypeOK, SlotDone
  <1>7. WalkOK'
    <2>1. left' = left - 1 /\ at' = Succ(at) /\ cur' = cur /\ left - 1 <= TickSize
      BY <1>1, RingAssumption DEF SlotDone
    <2> QED BY <1>3, <1>5, <2>1 DEF WalkOK, Ahead
  <1>8. OnlyCurListed'
    BY <1>1, <1>4 DEF OnlyCurListed, SlotDone, WheelTypeOK
  <1>9. HeapOK' /\ PoolBounded'
    BY <1>1, <1>4, <1>5 DEF HeapOK, PoolBounded, SlotDone
  <1>10. WheelInv'
    BY <1>6, <1>7, <1>8, <1>9
  <1>11. Pending' = {x \in slots[cur] : ~del[x]}
    BY <1>4, <1>5, <1>10, NextPending DEF SlotDone
  <1> QED BY <1>1, <1>5, <1>10, <1>11, PendingIsCurOrTodo
============================================================================
