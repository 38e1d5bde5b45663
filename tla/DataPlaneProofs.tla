-------------------------- MODULE DataPlaneProofs --------------------------
(***************************************************************************)
(* The buffers of the data plane, proved for any number of interfaces,     *)
(* slots, flows and buffers and for both backends of the event loop.       *)
(*                                                                         *)
(* The places that may hold a buffer are read as one function from places  *)
(* to sequences, so that every action gives, takes or moves the first      *)
(* buffer of a place.  That a walk of the list of slots meets no empty     *)
(* slot needs the shape of the list: its links go down a rank.             *)
(***************************************************************************)
EXTENDS DataPlane, FiniteSetTheorems, WellFoundedInduction, TLAPS

Places ==
  ({"queue"} \X Fds) \cup ({"slot"} \X Slots) \cup {<<"hand", "rx">>, <<"hand", "held">>}

One(m) == IF m = NoMbuf THEN <<>> ELSE <<m>>

At == [p \in Places |->
         IF p[1] = "queue" THEN sent[p[2]]
         ELSE IF p[1] = "slot" THEN slot[p[2]]
         ELSE IF p[2] = "rx" THEN One(hand) ELSE One(held)]

Apart(at) ==
  \A p, q \in DOMAIN at : \A i \in DOMAIN at[p], j \in DOMAIN at[q] :
    at[p][i] = at[q][j] => p = q /\ i = j

Loaded(at) == {m \in Mbufs : \E p \in DOMAIN at : \E i \in DOMAIN at[p] : at[p][i] = m}

\* Place p holds buffer m.
On(p, m) == \E i \in DOMAIN At[p] : At[p][i] = m

Without(at, p) == [at EXCEPT ![p] = Tail(@)]
With(at, p, m) == [at EXCEPT ![p] = Append(@, m)]

\* What mbuf.c and the places know of the buffers.
Accounts(at) ==
  /\ Apart(at)
  /\ heap = pool \cup Loaded(at)
  /\ pool \cap Loaded(at) = {}
  /\ used = Cardinality(heap) /\ used <= MaxMbufs
  /\ PoolOnlyWhenSmall

\* The slots in use are those with packets, and the links go from one of
\* them to another, to each from one at most and to the head from none.
Linked ==
  /\ \A s \in Slots : is_used[s] <=> slot[s] # <<>>
  /\ \A s \in Slots : ~is_used[s] => next[s] = NoSlot
  /\ \A s \in Slots : next[s] # NoSlot => is_used[next[s]] /\ next[s] # slot_head
  /\ \A s, t \in Slots : next[s] # NoSlot /\ next[s] = next[t] => s = t
  /\ slot_head # NoSlot => is_used[slot_head]

\* No slot in use is lost: a link leads to it.
Preceded == \A s \in Slots : is_used[s] /\ s # slot_head => \E t \in Slots : next[t] = s

Descends(rank) == \A s \in Slots : next[s] # NoSlot => rank[next[s]] < rank[s]

Ranked == \E rank \in [Slots -> Int] : Descends(rank)

\* The cursor of ixc_qos_pop and the slot before it.
CursorOK ==
  phase = "pop" =>
    /\ slot_first = slot_head
    /\ slot_obj # NoSlot => is_used[slot_obj]
    /\ slot_obj # NoSlot /\ slot_obj # slot_first =>
         slot_old \in Slots /\ next[slot_old] = slot_obj

SlotsTagged == \A s \in Slots : \A i \in DOMAIN slot[s] : tag[slot[s][i]][1] \in Flows

ListInv == Linked /\ Preceded /\ Ranked

PlaneInv == TypeOK /\ Accounts(At) /\ ListInv /\ CursorOK /\ SlotsTagged

-----------------------------------------------------------------------------
(* Sequences and places *)

LEMMA TailFacts ==
  ASSUME NEW S, NEW q \in Seq(S), q # <<>>
  PROVE  /\ Head(q) \in S /\ Head(q) = q[1] /\ 1 \in DOMAIN q
         /\ Tail(q) \in Seq(S)
         /\ DOMAIN Tail(q) = 1..Len(q) - 1 /\ Len(q) \in Nat \ {0}
         /\ \A i \in DOMAIN Tail(q) : i + 1 \in DOMAIN q /\ Tail(q)[i] = q[i + 1]
         /\ \A i \in DOMAIN q : i = 1 \/ (i - 1 \in DOMAIN Tail(q) /\ Tail(q)[i - 1] = q[i])
  OBVIOUS

LEMMA AppendFacts ==
  ASSUME NEW S, NEW q \in Seq(S), NEW m \in S
  PROVE  /\ Append(q, m) \in Seq(S)
         /\ DOMAIN Append(q, m) = 1..Len(q) + 1 /\ DOMAIN q = 1..Len(q) /\ Len(q) \in Nat
         /\ Append(q, m)[Len(q) + 1] = m
         /\ \A i \in DOMAIN q : i \in DOMAIN Append(q, m) /\ Append(q, m)[i] = q[i]
  OBVIOUS

\* Taking the first buffer of a place takes it from the whole.
LEMMA WithoutApart ==
  ASSUME NEW P, NEW at \in [P -> Seq(Mbufs)], Apart(at), NEW p \in P, at[p] # <<>>
  PROVE  /\ Without(at, p) \in [P -> Seq(Mbufs)]
         /\ Apart(Without(at, p))
         /\ Loaded(Without(at, p)) = Loaded(at) \ {Head(at[p])}
         /\ Head(at[p]) \in Loaded(at)
<1> DEFINE m == Head(at[p])
           new == Without(at, p)
<1>1. /\ m \in Mbufs /\ m = at[p][1] /\ 1 \in DOMAIN at[p] /\ Tail(at[p]) \in Seq(Mbufs)
      /\ \A i \in DOMAIN Tail(at[p]) : i + 1 \in DOMAIN at[p] /\ Tail(at[p])[i] = at[p][i + 1]
      /\ \A i \in DOMAIN at[p] :
            i = 1 \/ (i - 1 \in DOMAIN Tail(at[p]) /\ Tail(at[p])[i - 1] = at[p][i])
      /\ \A i \in DOMAIN Tail(at[p]) : i \in Nat \ {0}
  <2>1. at[p] \in Seq(Mbufs)
    OBVIOUS
  <2> QED BY <2>1, TailFacts
<1>2. /\ new \in [P -> Seq(Mbufs)] /\ new[p] = Tail(at[p])
      /\ \A q \in P : q # p => new[q] = at[q]
      /\ DOMAIN new = P /\ DOMAIN at = P
  BY <1>1 DEF Without
<1>3. \A q \in P : \A i \in DOMAIN new[q] : \E j \in DOMAIN at[q] :
         /\ new[q][i] = at[q][j]
         /\ j = IF q = p THEN i + 1 ELSE i
  BY <1>1, <1>2
<1> HIDE DEF new
<1>4. Apart(new)
  <2> SUFFICES ASSUME NEW q \in P, NEW r \in P, NEW i \in DOMAIN new[q], NEW j \in DOMAIN new[r],
                      new[q][i] = new[r][j]
               PROVE  q = r /\ i = j
    BY <1>2 DEF Apart
  <2>1. PICK k \in DOMAIN at[q] : new[q][i] = at[q][k] /\ k = IF q = p THEN i + 1 ELSE i
    BY <1>3
  <2>2. PICK l \in DOMAIN at[r] : new[r][j] = at[r][l] /\ l = IF r = p THEN j + 1 ELSE j
    BY <1>3
  <2>3. q = r /\ k = l
    <3>1. at[q][k] = at[r][l] /\ q \in DOMAIN at /\ r \in DOMAIN at
      BY <2>1, <2>2, <1>2
    <3> QED BY <3>1 DEF Apart
  <2>4. q = p => i \in Nat /\ j \in Nat
    BY <1>1, <1>2, <2>3
  <2> QED BY <2>1, <2>2, <2>3, <2>4
<1>5. ASSUME NEW x \in Loaded(new) PROVE x \in Loaded(at) \ {m}
  <2>0. PICK q \in P : \E i \in DOMAIN new[q] : new[q][i] = x
    BY <1>2 DEF Loaded
  <2>1. PICK i \in DOMAIN new[q] : new[q][i] = x
    BY <2>0
  <2>2. PICK j \in DOMAIN at[q] : x = at[q][j] /\ j = IF q = p THEN i + 1 ELSE i
    BY <1>3, <2>1
  <2>3. x # m
    <3>1. SUFFICES ASSUME x = m PROVE FALSE
      OBVIOUS
    <3>2. q = p /\ j = 1
      BY <3>1, <2>2, <1>1, <1>2 DEF Apart
    <3>3. i \in Nat \ {0}
      BY <3>2, <2>1, <1>1, <1>2
    <3> QED BY <3>2, <3>3, <2>2
  <2> QED BY <2>2, <2>3, <1>2 DEF Loaded
<1>6. ASSUME NEW x \in Loaded(at), x # m PROVE x \in Loaded(new)
  <2>0. PICK q \in P : \E i \in DOMAIN at[q] : at[q][i] = x
    BY <1>2 DEF Loaded
  <2>1. PICK i \in DOMAIN at[q] : at[q][i] = x
    BY <2>0
  <2>2. \E j \in DOMAIN new[q] : new[q][j] = x
    <3>1. CASE q = p
      <4>1. i # 1
        BY <3>1, <2>1, <1>1, <1>6
      <4>2. i - 1 \in DOMAIN Tail(at[p]) /\ Tail(at[p])[i - 1] = x
        BY <4>1, <3>1, <2>1, <1>1
      <4> QED BY <4>2, <3>1, <1>2
    <3>2. CASE q # p
      BY <3>2, <2>1, <1>2
    <3> QED BY <3>1, <3>2
  <2> QED BY <2>2, <1>2 DEF Loaded
<1>7. m \in Loaded(at)
  BY <1>1, <1>2 DEF Loaded
<1> QED BY <1>2, <1>4, <1>5, <1>6, <1>7 DEF new

\* Putting a buffer from outside at the end of a place adds it to the whole.
LEMMA WithApart ==
  ASSUME NEW P, NEW at \in [P -> Seq(Mbufs)], Apart(at), NEW p \in P,
         NEW m \in Mbufs, m \notin Loaded(at)
  PROVE  /\ With(at, p, m) \in [P -> Seq(Mbufs)]
         /\ Apart(With(at, p, m))
         /\ Loaded(With(at, p, m)) = Loaded(at) \cup {m}
<1> DEFINE new == With(at, p, m)
           last == Len(at[p]) + 1
<1>1. /\ Append(at[p], m) \in Seq(Mbufs)
      /\ last \in DOMAIN Append(at[p], m) /\ Append(at[p], m)[last] = m
      /\ \A i \in DOMAIN Append(at[p], m) : i \in DOMAIN at[p] \/ i = last
      /\ \A i \in DOMAIN at[p] : i \in DOMAIN Append(at[p], m) /\ Append(at[p], m)[i] = at[p][i]
  <2>1. at[p] \in Seq(Mbufs)
    OBVIOUS
  <2> QED BY <2>1, AppendFacts
<1>2. /\ new \in [P -> Seq(Mbufs)] /\ new[p] = Append(at[p], m)
      /\ \A q \in P : q # p => new[q] = at[q]
      /\ DOMAIN new = P /\ DOMAIN at = P
  BY <1>1 DEF With
<1>3. \A q \in P : \A i \in DOMAIN new[q] :
         \/ i \in DOMAIN at[q] /\ new[q][i] = at[q][i] /\ at[q][i] # m
         \/ q = p /\ i = last /\ new[q][i] = m
  <2> SUFFICES ASSUME NEW q \in P, NEW i \in DOMAIN new[q]
               PROVE  \/ i \in DOMAIN at[q] /\ new[q][i] = at[q][i] /\ at[q][i] # m
                      \/ q = p /\ i = last /\ new[q][i] = m
    OBVIOUS
  <2>1. i \in DOMAIN at[q] => at[q][i] # m
    BY <1>2 DEF Loaded
  <2> QED BY <1>1, <1>2, <2>1
<1> HIDE DEF new
<1>4. Apart(new)
  <2> SUFFICES ASSUME NEW q \in P, NEW r \in P, NEW i \in DOMAIN new[q], NEW j \in DOMAIN new[r],
                      new[q][i] = new[r][j]
               PROVE  q = r /\ i = j
    BY <1>2 DEF Apart
  <2>1. CASE new[q][i] = m
    BY <2>1, <1>3
  <2>2. CASE new[q][i] # m
    BY <2>2, <1>2, <1>3 DEF Apart
  <2> QED BY <2>1, <2>2
<1>5. Loaded(new) \subseteq Loaded(at) \cup {m}
  BY <1>2, <1>3 DEF Loaded
<1>6. ASSUME NEW x \in Loaded(at) PROVE x \in Loaded(new)
  <2>0. PICK q \in P : \E i \in DOMAIN at[q] : at[q][i] = x
    BY <1>2 DEF Loaded
  <2>1. PICK i \in DOMAIN at[q] : at[q][i] = x
    BY <2>0
  <2>2. i \in DOMAIN new[q] /\ new[q][i] = x
    BY <1>1, <1>2, <2>1
  <2> QED BY <2>2, <1>2 DEF Loaded
<1>7. m \in Loaded(new)
  BY <1>1, <1>2 DEF Loaded
<1> QED BY <1>2, <1>4, <1>5, <1>6, <1>7 DEF new

-----------------------------------------------------------------------------
(* What a step does to the accounts *)

LEMMA AtType ==
  ASSUME TypeOK PROVE At \in [Places -> Seq(Mbufs)]
<1> SUFFICES ASSUME NEW p \in Places PROVE At[p] \in Seq(Mbufs)
  BY DEF At
<1>1. One(hand) \in Seq(Mbufs) /\ One(held) \in Seq(Mbufs)
  BY DEF One, TypeOK
<1>2. CASE p \in {"queue"} \X Fds
  BY <1>2 DEF At, TypeOK, NetifTypeOK
<1>3. CASE p \in {"slot"} \X Slots
  BY <1>3 DEF At, TypeOK, QosTypeOK
<1>4. CASE p \in {<<"hand", "rx">>, <<"hand", "held">>}
  BY <1>1, <1>4 DEF At
<1> QED BY <1>2, <1>3, <1>4 DEF Places

LEMMA AtValues ==
  /\ \A d \in Fds : <<"queue", d>> \in Places /\ At[<<"queue", d>>] = sent[d]
  /\ \A s \in Slots : <<"slot", s>> \in Places /\ At[<<"slot", s>>] = slot[s]
  /\ <<"hand", "rx">> \in Places /\ At[<<"hand", "rx">>] = One(hand)
  /\ <<"hand", "held">> \in Places /\ At[<<"hand", "held">>] = One(held)
BY DEF At, Places

LEMMA CountSteps ==
  ASSUME MbufTypeOK, IsFiniteSet(heap), NEW m
  PROVE  /\ Cardinality(heap) \in Nat
         /\ m \notin heap => Cardinality(heap \cup {m}) = Cardinality(heap) + 1
         /\ m \in heap => Cardinality(heap \ {m}) = Cardinality(heap) - 1
BY FS_CardinalityType, FS_AddElement, FS_RemoveElement

LEMMA HeapFinite ==
  ASSUME MbufAssumption, MbufTypeOK PROVE IsFiniteSet(heap)
BY FS_Subset DEF MbufAssumption, MbufTypeOK

\* The first buffer of a place is given back.
LEMMA PutStep ==
  ASSUME MbufAssumption, TypeOK, Accounts(At),
         NEW p \in Places, At[p] # <<>>, MbufPut(Head(At[p])),
         At' = Without(At, p)
  PROVE  MbufTypeOK' /\ Accounts(At)'
<1> DEFINE m == Head(At[p])
           new == Without(At, p)
<1>1. /\ Apart(new) /\ Loaded(new) = Loaded(At) \ {m}
      /\ m \in Loaded(At)
  BY WithoutApart, AtType DEF Accounts
<1>2. m \in heap /\ m \notin pool /\ m \in Mbufs
  BY <1>1 DEF Accounts, Loaded
<1>3. Cardinality(heap) \in Nat /\ Cardinality(heap \ {m}) = Cardinality(heap) - 1
  BY <1>2, CountSteps, HeapFinite DEF TypeOK
<1> HIDE DEF m, new
<1>4. CASE used > PreAlloc
  <2>1. heap' = heap \ {m} /\ used' = used - 1 /\ pool' = pool
    BY <1>4 DEF MbufPut, m
  <2>2. pool = {}
    BY <1>4 DEF Accounts, PoolOnlyWhenSmall, MbufAssumption, TypeOK, MbufTypeOK
  <2>3. MbufTypeOK' /\ used' = Cardinality(heap') /\ used' <= MaxMbufs
    BY <2>1, <1>3, <1>4 DEF Accounts, MbufAssumption, TypeOK, MbufTypeOK
  <2>4. heap' = pool' \cup Loaded(new) /\ pool' \cap Loaded(new) = {}
    BY <2>1, <2>2, <1>1 DEF Accounts
  <2> QED BY <2>1, <2>2, <2>3, <2>4, <1>1 DEF Accounts, PoolOnlyWhenSmall, new
<1>5. CASE ~(used > PreAlloc)
  <2>1. heap' = heap /\ used' = used /\ pool' = pool \cup {m}
    BY <1>5 DEF MbufPut, m
  <2>2. MbufTypeOK' /\ used' <= PreAlloc
    BY <2>1, <1>2, <1>5 DEF MbufAssumption, TypeOK, MbufTypeOK
  <2>3. heap' = pool' \cup Loaded(new) /\ pool' \cap Loaded(new) = {}
    BY <2>1, <1>1, <1>2 DEF Accounts
  <2> QED BY <2>1, <2>2, <2>3, <1>1 DEF Accounts, PoolOnlyWhenSmall, new
<1> QED BY <1>4, <1>5

\* A buffer is taken and put in a place.
LEMMA GetStep ==
  ASSUME MbufAssumption, TypeOK, Accounts(At),
         NEW p \in Places, NEW m \in Mbufs, MbufGet(m),
         At' = With(At, p, m)
  PROVE  MbufTypeOK' /\ Accounts(At)' /\ m \notin Loaded(At)
<1> DEFINE new == With(At, p, m)
<1>1. m \notin Loaded(At)
  BY DEF MbufGet, Accounts
<1>2. Apart(new) /\ Loaded(new) = Loaded(At) \cup {m}
  <2>1. At \in [Places -> Seq(Mbufs)] /\ Apart(At)
    BY AtType DEF Accounts
  <2> QED BY <2>1, <1>1, WithApart
<1>3. Cardinality(heap) \in Nat /\ (m \notin heap => Cardinality(heap \cup {m}) = Cardinality(heap) + 1)
  BY CountSteps, HeapFinite DEF TypeOK
<1> HIDE DEF new
<1>4. CASE m \in pool /\ pool' = pool \ {m} /\ UNCHANGED <<heap, used>>
  <2>1. heap' = pool' \cup Loaded(new) /\ pool' \cap Loaded(new) = {}
    BY <1>4, <1>1, <1>2 DEF Accounts
  <2>2. MbufTypeOK' /\ PoolOnlyWhenSmall'
    BY <1>4 DEF Accounts, PoolOnlyWhenSmall, TypeOK, MbufTypeOK
  <2> QED BY <2>1, <2>2, <1>1, <1>2, <1>4 DEF Accounts, new
<1>5. CASE /\ pool = {} /\ used < MaxMbufs
           /\ m \in Mbufs \ heap
           /\ heap' = heap \cup {m} /\ used' = used + 1 /\ pool' = pool
  <2>1. heap' = pool' \cup Loaded(new) /\ pool' = {}
    BY <1>5, <1>2 DEF Accounts
  <2>2. MbufTypeOK' /\ used' = Cardinality(heap') /\ used' <= MaxMbufs
    <3>1. used \in Nat /\ MaxMbufs \in Nat /\ used = Cardinality(heap)
      BY DEF Accounts, MbufAssumption, TypeOK, MbufTypeOK
    <3>2. used' = Cardinality(heap')
      BY <1>3, <1>5, <3>1
    <3>3. used' <= MaxMbufs /\ used' \in Nat
      BY <1>5, <3>1
    <3> QED BY <1>5, <3>2, <3>3 DEF TypeOK, MbufTypeOK
  <2> QED BY <2>1, <2>2, <1>1, <1>2 DEF Accounts, PoolOnlyWhenSmall, new
<1> QED BY <1>4, <1>5 DEF MbufGet

\* The first buffer of a place goes to another place.
LEMMA MoveStep ==
  ASSUME TypeOK, Accounts(At), UNCHANGED mbufVars,
         NEW p \in Places, NEW q \in Places, At[p] # <<>>,
         At' = With(Without(At, p), q, Head(At[p]))
  PROVE  MbufTypeOK' /\ Accounts(At)'
<1> DEFINE m == Head(At[p])
           left == Without(At, p)
<1>1. /\ left \in [Places -> Seq(Mbufs)] /\ Apart(left)
      /\ Loaded(left) = Loaded(At) \ {m} /\ m \in Loaded(At)
  BY WithoutApart, AtType DEF Accounts
<1>2. m \in Mbufs /\ m \notin Loaded(left)
  BY <1>1 DEF Loaded
<1> HIDE DEF m, left
<1>3. Apart(With(left, q, m)) /\ Loaded(With(left, q, m)) = Loaded(At)
  <2>1. Apart(With(left, q, m)) /\ Loaded(With(left, q, m)) = Loaded(left) \cup {m}
    BY <1>1, <1>2, WithApart
  <2> QED BY <2>1, <1>1
<1>4. Apart(At') /\ Loaded(At') = Loaded(At)
  BY <1>3 DEF m, left
<1> QED BY <1>4 DEF Accounts, PoolOnlyWhenSmall, mbufVars, TypeOK, MbufTypeOK

\* No buffer moves.
LEMMA KeepStep ==
  ASSUME TypeOK, Accounts(At), UNCHANGED mbufVars, At' = At
  PROVE  MbufTypeOK' /\ Accounts(At)'
BY DEF Accounts, PoolOnlyWhenSmall, mbufVars, TypeOK, MbufTypeOK

\* The accounts say what is claimed of the buffers.
LEMMA AccountsConserve ==
  ASSUME TypeOK, Accounts(At) PROVE MbufConserved
<1> DEFINE hands == {hand, held} \ {NoMbuf}
           queues == UNION {InQueue(d) : d \in Fds}
           slots == UNION {InSlot(s) : s \in Slots}
           rxp == <<"hand", "rx">>
           heldp == <<"hand", "held">>
<1>0. /\ \A d \in Fds : sent[d] \in Seq(Mbufs)
      /\ \A s \in Slots : slot[s] \in Seq(Mbufs)
      /\ hand \in Mbufs \cup {NoMbuf} /\ held \in Mbufs \cup {NoMbuf}
  BY DEF TypeOK, NetifTypeOK, QosTypeOK
<1>1. DOMAIN At = Places
  BY DEF At
<1>2. ASSUME NEW p \in Places, NEW q \in Places, NEW i \in DOMAIN At[p], NEW j \in DOMAIN At[q],
             At[p][i] = At[q][j]
      PROVE  p = q /\ i = j
  BY <1>1, <1>2 DEF Accounts, Apart
<1>20. ASSUME NEW p \in Places, NEW q \in Places, NEW m, On(p, m), On(q, m) PROVE p = q
  <2>1. PICK i \in DOMAIN At[p] : At[p][i] = m
    BY <1>20 DEF On
  <2>2. PICK j \in DOMAIN At[q] : At[q][j] = m
    BY <1>20 DEF On
  <2> QED BY <2>1, <2>2, <1>2
<1>21. /\ \A d \in Fds : <<"queue", d>> \in Places
       /\ \A s \in Slots : <<"slot", s>> \in Places
  BY DEF Places
<1>3. ASSUME NEW d \in Fds, NEW m \in InQueue(d)
      PROVE  On(<<"queue", d>>, m)
  BY AtValues DEF InQueue, On
<1>4. ASSUME NEW s \in Slots, NEW m \in InSlot(s)
      PROVE  On(<<"slot", s>>, m)
  BY AtValues DEF InSlot, On
<1>5. hand # NoMbuf => 1 \in DOMAIN At[rxp] /\ At[rxp][1] = hand
  BY AtValues, <1>0 DEF One
<1>6. held # NoMbuf => 1 \in DOMAIN At[heldp] /\ At[heldp][1] = held
  BY AtValues, <1>0 DEF One
<1>7. ASSUME NEW m \in hands
      PROVE  \E p \in {rxp, heldp} : On(p, m)
  BY <1>5, <1>6 DEF On
<1> HIDE DEF hands, rxp, heldp
<1>8. rxp \in Places /\ heldp \in Places /\ rxp # heldp
  BY AtValues DEF rxp, heldp
<1>9. \A d \in Fds, s \in Slots : <<"queue", d>> # <<"slot", s>>
  OBVIOUS
<1>10. \A p \in {rxp, heldp} : (\A d \in Fds : p # <<"queue", d>>) /\ (\A s \in Slots : p # <<"slot", s>>)
  BY DEF rxp, heldp
<1>11. queues \cap (slots \cup hands) = {}
  <2> SUFFICES ASSUME NEW d \in Fds, NEW m \in InQueue(d), m \in slots \cup hands PROVE FALSE
    OBVIOUS
  <2>1. CASE m \in slots
    <3>1. PICK s \in Slots : m \in InSlot(s)
      BY <2>1
    <3> QED BY <3>1, <1>20, <1>21, <1>3, <1>4, <1>9
  <2>2. CASE m \in hands
    <3>1. PICK p \in {rxp, heldp} : On(p, m)
      BY <2>2, <1>7
    <3>2. p \in Places /\ <<"queue", d>> \in Places /\ p # <<"queue", d>>
      BY <1>8, <1>10, <1>21
    <3> QED BY <3>1, <3>2, <1>20, <1>3
  <2> QED BY <2>1, <2>2
<1>12. slots \cap hands = {}
  <2> SUFFICES ASSUME NEW s \in Slots, NEW m \in InSlot(s), m \in hands PROVE FALSE
    OBVIOUS
  <2>1. PICK p \in {rxp, heldp} : On(p, m)
    BY <1>7
  <2>2. p \in Places /\ <<"slot", s>> \in Places /\ p # <<"slot", s>>
    BY <1>8, <1>10, <1>21
  <2> QED BY <2>1, <2>2, <1>20, <1>4
<1>13. hand # NoMbuf => hand # held
  BY <1>2, <1>5, <1>6, <1>8
<1>14. \A d \in Fds : Distinct(sent[d])
  <2> SUFFICES ASSUME NEW d \in Fds, NEW i \in DOMAIN sent[d], NEW j \in DOMAIN sent[d],
                      sent[d][i] = sent[d][j] PROVE i = j
    BY DEF Distinct
  <2>1. <<"queue", d>> \in Places /\ At[<<"queue", d>>] = sent[d]
    BY AtValues
  <2> QED BY <1>2, <2>1
<1>15. \A s \in Slots : Distinct(slot[s])
  <2> SUFFICES ASSUME NEW s \in Slots, NEW i \in DOMAIN slot[s], NEW j \in DOMAIN slot[s],
                      slot[s][i] = slot[s][j] PROVE i = j
    BY DEF Distinct
  <2>1. <<"slot", s>> \in Places /\ At[<<"slot", s>>] = slot[s]
    BY AtValues
  <2> QED BY <1>2, <2>1
<1>16. \A c, d \in Fds : c # d => InQueue(c) \cap InQueue(d) = {}
  <2> SUFFICES ASSUME NEW c \in Fds, NEW d \in Fds, c # d, NEW m \in InQueue(c), m \in InQueue(d)
               PROVE FALSE
    OBVIOUS
  <2>1. <<"queue", c>> # <<"queue", d>>
    OBVIOUS
  <2> QED BY <1>20, <1>21, <1>3, <2>1
<1>17. \A s, t \in Slots : s # t => InSlot(s) \cap InSlot(t) = {}
  <2> SUFFICES ASSUME NEW s \in Slots, NEW t \in Slots, s # t, NEW m \in InSlot(s), m \in InSlot(t)
               PROVE FALSE
    OBVIOUS
  <2>1. <<"slot", s>> # <<"slot", t>>
    OBVIOUS
  <2> QED BY <1>20, <1>21, <1>4, <2>1
<1>22. ASSUME NEW p \in Places, NEW m \in Mbufs, On(p, m) PROVE m \in Loaded(At)
  BY <1>1, <1>22 DEF Loaded, On
<1>18. Loaded(At) = queues \cup slots \cup hands
  <2>1. ASSUME NEW m \in queues PROVE m \in Loaded(At)
    <3>1. PICK d \in Fds : m \in InQueue(d)
      BY <2>1
    <3>2. m \in Mbufs
      BY <3>1, <1>0 DEF InQueue
    <3> QED BY <3>1, <3>2, <1>3, <1>21, <1>22
  <2>2. ASSUME NEW m \in slots PROVE m \in Loaded(At)
    <3>1. PICK s \in Slots : m \in InSlot(s)
      BY <2>2
    <3>2. m \in Mbufs
      BY <3>1, <1>0 DEF InSlot
    <3> QED BY <3>1, <3>2, <1>4, <1>21, <1>22
  <2>3. ASSUME NEW m \in hands PROVE m \in Loaded(At)
    <3>1. m \in Mbufs
      BY <1>0 DEF hands
    <3> QED BY <3>1, <1>7, <1>8, <1>22
  <2>4. ASSUME NEW m \in Loaded(At) PROVE m \in queues \cup slots \cup hands
    <3>1. PICK p \in Places : On(p, m)
      BY <1>1 DEF Loaded, On
    <3>2. CASE p \in {"queue"} \X Fds
      BY <3>1, <3>2, AtValues DEF InQueue, On
    <3>3. CASE p \in {"slot"} \X Slots
      BY <3>1, <3>3, AtValues DEF InSlot, On
    <3>4. CASE p \in {rxp, heldp}
      BY <3>1, <3>4, <1>0, AtValues DEF rxp, heldp, One, On, hands
    <3> QED BY <3>2, <3>3, <3>4 DEF Places, rxp, heldp
  <2> QED BY <2>1, <2>2, <2>3, <2>4
<1>19. /\ heap = pool \cup Loaded(At) /\ pool \cap Loaded(At) = {}
       /\ used = Cardinality(heap) /\ used <= MaxMbufs
  BY DEF Accounts
<1> QED BY <1>11, <1>12, <1>13, <1>14, <1>15, <1>16, <1>17, <1>18, <1>19 DEF MbufConserved, hands

-----------------------------------------------------------------------------
(* How the places change *)

LEMMA AtNext ==
  ASSUME NEW f, DOMAIN f = Places, f = [q \in Places |-> f[q]],
         \A d \in Fds : f[<<"queue", d>>] = sent'[d],
         \A s \in Slots : f[<<"slot", s>>] = slot'[s],
         f[<<"hand", "rx">>] = One(hand'), f[<<"hand", "held">>] = One(held')
  PROVE  At' = f
<1> SUFFICES ASSUME NEW q \in Places PROVE At'[q] = f[q]
  BY DEF At
<1>1. CASE q \in {"queue"} \X Fds
  BY <1>1 DEF At
<1>2. CASE q \in {"slot"} \X Slots
  BY <1>2 DEF At
<1>3. CASE q \in {<<"hand", "rx">>, <<"hand", "held">>}
  BY <1>3 DEF At, One
<1> QED BY <1>1, <1>2, <1>3 DEF Places

LEMMA AtSame ==
  ASSUME UNCHANGED <<sent, slot, hand, held>> PROVE At' = At
BY DEF At, One

LEMMA PlacesDiffer ==
  /\ \A d \in Fds, s \in Slots : <<"queue", d>> # <<"slot", s>>
  /\ \A d \in Fds : <<"queue", d>> # <<"hand", "rx">> /\ <<"queue", d>> # <<"hand", "held">>
  /\ \A s \in Slots : <<"slot", s>> # <<"hand", "rx">> /\ <<"slot", s>> # <<"hand", "held">>
  /\ <<"hand", "rx">> # <<"hand", "held">>
  /\ \A c, d \in Fds : <<"queue", c>> = <<"queue", d>> => c = d
  /\ \A s, u \in Slots : <<"slot", s>> = <<"slot", u>> => s = u
OBVIOUS

\* f is At with v at place p.
Changed(f, p, v) ==
  /\ DOMAIN f = Places /\ f = [q \in Places |-> f[q]]
  /\ \A d \in Fds : f[<<"queue", d>>] = IF <<"queue", d>> = p THEN v ELSE sent[d]
  /\ \A s \in Slots : f[<<"slot", s>>] = IF <<"slot", s>> = p THEN v ELSE slot[s]
  /\ f[<<"hand", "rx">>] = IF <<"hand", "rx">> = p THEN v ELSE One(hand)
  /\ f[<<"hand", "held">>] = IF <<"hand", "held">> = p THEN v ELSE One(held)

LEMMA AtChanged ==
  ASSUME NEW p \in Places, NEW v
  PROVE  Changed([At EXCEPT ![p] = v], p, v)
<1> DEFINE f == [At EXCEPT ![p] = v]
<1>1. DOMAIN At = Places
  BY DEF At
<1>2. f = [q \in Places |-> IF q = p THEN v ELSE At[q]]
  BY <1>1
<1>3. DOMAIN f = Places /\ f = [q \in Places |-> f[q]]
  BY <1>2
<1>4. \A q \in Places : f[q] = IF q = p THEN v ELSE At[q]
  BY <1>2
<1> HIDE DEF f
<1>5. \A d \in Fds : f[<<"queue", d>>] = IF <<"queue", d>> = p THEN v ELSE sent[d]
  BY <1>4, AtValues
<1>6. \A s \in Slots : f[<<"slot", s>>] = IF <<"slot", s>> = p THEN v ELSE slot[s]
  BY <1>4, AtValues
<1>7. /\ f[<<"hand", "rx">>] = IF <<"hand", "rx">> = p THEN v ELSE One(hand)
      /\ f[<<"hand", "held">>] = IF <<"hand", "held">> = p THEN v ELSE One(held)
  BY <1>4, AtValues
<1> QED BY <1>3, <1>5, <1>6, <1>7 DEF f, Changed

LEMMA AtQueueWithout ==
  ASSUME TypeOK, NEW d \in Fds, sent' = [sent EXCEPT ![d] = Tail(@)],
         UNCHANGED <<slot, hand, held>>
  PROVE  At' = Without(At, <<"queue", d>>)
<1> DEFINE f == Without(At, <<"queue", d>>)
<1>1. <<"queue", d>> \in Places /\ At[<<"queue", d>>] = sent[d]
  BY AtValues
<1>2. f = [At EXCEPT ![<<"queue", d>>] = Tail(sent[d])]
  BY <1>1 DEF Without
<1>3. Changed(f, <<"queue", d>>, Tail(sent[d]))
  BY <1>1, <1>2, AtChanged
<1>4. \A c \in Fds : sent'[c] = IF c = d THEN Tail(sent[c]) ELSE sent[c]
  BY DEF TypeOK, NetifTypeOK
<1> HIDE DEF f
<1>5. \A c \in Fds : f[<<"queue", c>>] = sent'[c]
  BY <1>3, <1>4, PlacesDiffer DEF Changed
<1>6. \A u \in Slots : f[<<"slot", u>>] = slot'[u]
  BY <1>3, PlacesDiffer DEF Changed
<1>7. f[<<"hand", "rx">>] = One(hand') /\ f[<<"hand", "held">>] = One(held')
  BY <1>3, PlacesDiffer DEF Changed
<1>8. At' = f
  BY <1>3, <1>5, <1>6, <1>7, AtNext DEF Changed
<1> QED BY <1>8 DEF f

LEMMA AtQueueWith ==
  ASSUME TypeOK, NEW d \in Fds, NEW m \in Mbufs, sent' = [sent EXCEPT ![d] = Append(@, m)],
         UNCHANGED <<slot, hand, held>>
  PROVE  At' = With(At, <<"queue", d>>, m)
<1> DEFINE f == With(At, <<"queue", d>>, m)
<1>1. <<"queue", d>> \in Places /\ At[<<"queue", d>>] = sent[d]
  BY AtValues
<1>2. f = [At EXCEPT ![<<"queue", d>>] = Append(sent[d], m)]
  BY <1>1 DEF With
<1>3. Changed(f, <<"queue", d>>, Append(sent[d], m))
  BY <1>1, <1>2, AtChanged
<1>4. \A c \in Fds : sent'[c] = IF c = d THEN Append(sent[c], m) ELSE sent[c]
  BY DEF TypeOK, NetifTypeOK
<1> HIDE DEF f
<1>5. \A c \in Fds : f[<<"queue", c>>] = sent'[c]
  BY <1>3, <1>4, PlacesDiffer DEF Changed
<1>6. \A u \in Slots : f[<<"slot", u>>] = slot'[u]
  BY <1>3, PlacesDiffer DEF Changed
<1>7. f[<<"hand", "rx">>] = One(hand') /\ f[<<"hand", "held">>] = One(held')
  BY <1>3, PlacesDiffer DEF Changed
<1>8. At' = f
  BY <1>3, <1>5, <1>6, <1>7, AtNext DEF Changed
<1> QED BY <1>8 DEF f

LEMMA OneFacts ==
  ASSUME MbufAssumption, NEW m \in Mbufs
  PROVE  /\ One(m) # <<>> /\ Head(One(m)) = m /\ Tail(One(m)) = <<>>
         /\ One(NoMbuf) = <<>> /\ Append(One(NoMbuf), m) = One(m)
BY DEF One, MbufAssumption

\* The hands of ixc_netif_rx_data and of a handler that waits.
LEMMA AtRxWithout ==
  ASSUME MbufAssumption, TypeOK, hand \in Mbufs, hand' = NoMbuf, UNCHANGED <<sent, slot, held>>
  PROVE  At' = Without(At, <<"hand", "rx">>) /\ At[<<"hand", "rx">>] # <<>>
         /\ Head(At[<<"hand", "rx">>]) = hand
<1> DEFINE f == Without(At, <<"hand", "rx">>)
<1>1. <<"hand", "rx">> \in Places /\ At[<<"hand", "rx">>] = One(hand)
  BY AtValues
<1>2. f = [At EXCEPT ![<<"hand", "rx">>] = Tail(One(hand))]
  BY <1>1 DEF Without
<1>3. Changed(f, <<"hand", "rx">>, Tail(One(hand)))
  BY <1>1, <1>2, AtChanged
<1> HIDE DEF f
<1>5. \A c \in Fds : f[<<"queue", c>>] = sent'[c]
  BY <1>3, PlacesDiffer, OneFacts DEF Changed
<1>6. \A u \in Slots : f[<<"slot", u>>] = slot'[u]
  BY <1>3, PlacesDiffer, OneFacts DEF Changed
<1>7. f[<<"hand", "rx">>] = One(hand') /\ f[<<"hand", "held">>] = One(held')
  BY <1>3, PlacesDiffer, OneFacts DEF Changed
<1>8. At' = f
  BY <1>3, <1>5, <1>6, <1>7, AtNext DEF Changed
<1> QED BY <1>1, <1>8, OneFacts DEF f

LEMMA AtRxWith ==
  ASSUME MbufAssumption, TypeOK, NEW m \in Mbufs, hand = NoMbuf, hand' = m,
         UNCHANGED <<sent, slot, held>>
  PROVE  At' = With(At, <<"hand", "rx">>, m)
<1> DEFINE f == With(At, <<"hand", "rx">>, m)
<1>1. <<"hand", "rx">> \in Places /\ At[<<"hand", "rx">>] = One(hand)
  BY AtValues
<1>2. f = [At EXCEPT ![<<"hand", "rx">>] = Append(One(hand), m)]
  BY <1>1 DEF With
<1>3. Changed(f, <<"hand", "rx">>, Append(One(hand), m))
  BY <1>1, <1>2, AtChanged
<1> HIDE DEF f
<1>5. \A c \in Fds : f[<<"queue", c>>] = sent'[c]
  BY <1>3, PlacesDiffer, OneFacts DEF Changed
<1>6. \A u \in Slots : f[<<"slot", u>>] = slot'[u]
  BY <1>3, PlacesDiffer, OneFacts DEF Changed
<1>7. f[<<"hand", "rx">>] = One(hand') /\ f[<<"hand", "held">>] = One(held')
  BY <1>3, PlacesDiffer, OneFacts DEF Changed
<1>8. At' = f
  BY <1>3, <1>5, <1>6, <1>7, AtNext DEF Changed
<1> QED BY <1>8 DEF f

LEMMA AtHeldWithout ==
  ASSUME MbufAssumption, TypeOK, held \in Mbufs, held' = NoMbuf, UNCHANGED <<sent, slot, hand>>
  PROVE  At' = Without(At, <<"hand", "held">>) /\ At[<<"hand", "held">>] # <<>>
         /\ Head(At[<<"hand", "held">>]) = held
<1> DEFINE f == Without(At, <<"hand", "held">>)
<1>1. <<"hand", "held">> \in Places /\ At[<<"hand", "held">>] = One(held)
  BY AtValues
<1>2. f = [At EXCEPT ![<<"hand", "held">>] = Tail(One(held))]
  BY <1>1 DEF Without
<1>3. Changed(f, <<"hand", "held">>, Tail(One(held)))
  BY <1>1, <1>2, AtChanged
<1> HIDE DEF f
<1>5. \A c \in Fds : f[<<"queue", c>>] = sent'[c]
  BY <1>3, PlacesDiffer, OneFacts DEF Changed
<1>6. \A u \in Slots : f[<<"slot", u>>] = slot'[u]
  BY <1>3, PlacesDiffer, OneFacts DEF Changed
<1>7. f[<<"hand", "rx">>] = One(hand') /\ f[<<"hand", "held">>] = One(held')
  BY <1>3, PlacesDiffer, OneFacts DEF Changed
<1>8. At' = f
  BY <1>3, <1>5, <1>6, <1>7, AtNext DEF Changed
<1> QED BY <1>1, <1>8, OneFacts DEF f

\* A step takes the first buffer of place p to place q.
Moves(p, q) ==
  \A r \in Places : At'[r] = IF r = p THEN Tail(At[p])
                             ELSE IF r = q THEN Append(At[q], Head(At[p])) ELSE At[r]

LEMMA MovesIs ==
  ASSUME NEW p \in Places, NEW q \in Places, p # q, Moves(p, q)
  PROVE  At' = With(Without(At, p), q, Head(At[p]))
<1> DEFINE g == Without(At, p)
           f == With(g, q, Head(At[p]))
<1>1. DOMAIN At = Places
  BY DEF At
<1>2. g = [r \in Places |-> IF r = p THEN Tail(At[p]) ELSE At[r]]
  BY <1>1 DEF Without
<1>3. f = [r \in Places |-> IF r = q THEN Append(g[q], Head(At[p])) ELSE g[r]]
  BY <1>2 DEF With
<1>4. \A r \in Places : f[r] = IF r = p THEN Tail(At[p])
                              ELSE IF r = q THEN Append(At[q], Head(At[p])) ELSE At[r]
  BY <1>2, <1>3
<1>5. At' = [r \in Places |-> At'[r]]
  BY DEF At
<1>6. f = [r \in Places |-> f[r]]
  BY <1>3
<1> HIDE DEF f, g
<1>7. \A r \in Places : At'[r] = f[r]
  BY <1>4 DEF Moves
<1>8. At' = f
  BY <1>5, <1>6, <1>7
<1> QED BY <1>8 DEF f, g

LEMMA PlaceCases ==
  \A r \in Places : \/ \E d \in Fds : r = <<"queue", d>>
                    \/ \E s \in Slots : r = <<"slot", s>>
                    \/ r = <<"hand", "rx">> \/ r = <<"hand", "held">>
BY DEF Places

LEMMA AtValuesNext ==
  /\ \A d \in Fds : At'[<<"queue", d>>] = sent'[d]
  /\ \A s \in Slots : At'[<<"slot", s>>] = slot'[s]
  /\ At'[<<"hand", "rx">>] = One(hand') /\ At'[<<"hand", "held">>] = One(held')
BY DEF At, Places, One

LEMMA AtSlotWithout ==
  ASSUME TypeOK, NEW s \in Slots, slot' = [slot EXCEPT ![s] = Tail(@)],
         UNCHANGED <<sent, hand, held>>
  PROVE  At' = Without(At, <<"slot", s>>)
<1> DEFINE f == Without(At, <<"slot", s>>)
<1>1. <<"slot", s>> \in Places /\ At[<<"slot", s>>] = slot[s]
  BY AtValues
<1>2. f = [At EXCEPT ![<<"slot", s>>] = Tail(slot[s])]
  BY <1>1 DEF Without
<1>3. Changed(f, <<"slot", s>>, Tail(slot[s]))
  BY <1>1, <1>2, AtChanged
<1>4. \A u \in Slots : slot'[u] = IF u = s THEN Tail(slot[u]) ELSE slot[u]
  BY DEF TypeOK, QosTypeOK
<1> HIDE DEF f
<1>5. \A c \in Fds : f[<<"queue", c>>] = sent'[c]
  BY <1>3, PlacesDiffer DEF Changed
<1>6. \A u \in Slots : f[<<"slot", u>>] = slot'[u]
  BY <1>3, <1>4, PlacesDiffer DEF Changed
<1>7. f[<<"hand", "rx">>] = One(hand') /\ f[<<"hand", "held">>] = One(held')
  BY <1>3, PlacesDiffer DEF Changed
<1>8. At' = f
  BY <1>3, <1>5, <1>6, <1>7, AtNext DEF Changed
<1> QED BY <1>8 DEF f

LEMMA MoveRxToSlot ==
  ASSUME MbufAssumption, TypeOK, hand \in Mbufs, hand' = NoMbuf, NEW s \in Slots,
         slot' = [slot EXCEPT ![s] = Append(@, hand)], UNCHANGED <<sent, held>>
  PROVE  Moves(<<"hand", "rx">>, <<"slot", s>>)
<1>1. \A u \in Slots : slot'[u] = IF u = s THEN Append(slot[u], hand) ELSE slot[u]
  BY DEF TypeOK, QosTypeOK
<1>2. /\ At[<<"hand", "rx">>] = One(hand) /\ Head(One(hand)) = hand
      /\ Tail(One(hand)) = <<>> /\ One(hand') = <<>>
  BY AtValues, OneFacts
<1> SUFFICES ASSUME NEW r \in Places
             PROVE  At'[r] = IF r = <<"hand", "rx">> THEN Tail(At[<<"hand", "rx">>])
                             ELSE IF r = <<"slot", s>>
                               THEN Append(At[<<"slot", s>>], Head(At[<<"hand", "rx">>]))
                             ELSE At[r]
  BY DEF Moves
<1>6. CASE \E c \in Fds : r = <<"queue", c>>
  <2>1. PICK c \in Fds : r = <<"queue", c>>
    BY <1>6
  <2>2. At[r] = sent[c] /\ At'[r] = sent'[c]
    BY <2>1, AtValues, AtValuesNext
  <2> QED BY <1>1, <1>2, <2>1, <2>2, AtValues, PlacesDiffer
<1>7. CASE \E u \in Slots : r = <<"slot", u>>
  <2>1. PICK u \in Slots : r = <<"slot", u>>
    BY <1>7
  <2>2. At[r] = slot[u] /\ At'[r] = slot'[u]
    BY <2>1, AtValues, AtValuesNext
  <2> QED BY <1>1, <1>2, <2>1, <2>2, AtValues, PlacesDiffer
<1>8. CASE r = <<"hand", "rx">>
  BY <1>1, <1>2, <1>8, AtValues, AtValuesNext, PlacesDiffer
<1>9. CASE r = <<"hand", "held">>
  BY <1>1, <1>2, <1>9, AtValues, AtValuesNext, PlacesDiffer
<1> QED BY <1>6, <1>7, <1>8, <1>9, PlaceCases

LEMMA MoveRxToQueue ==
  ASSUME MbufAssumption, TypeOK, hand \in Mbufs, hand' = NoMbuf, NEW d \in Fds,
         sent' = [sent EXCEPT ![d] = Append(@, hand)], UNCHANGED <<slot, held>>
  PROVE  Moves(<<"hand", "rx">>, <<"queue", d>>)
<1>1. \A c \in Fds : sent'[c] = IF c = d THEN Append(sent[c], hand) ELSE sent[c]
  BY DEF TypeOK, NetifTypeOK
<1>2. /\ At[<<"hand", "rx">>] = One(hand) /\ Head(One(hand)) = hand
      /\ Tail(One(hand)) = <<>> /\ One(hand') = <<>>
  BY AtValues, OneFacts
<1> SUFFICES ASSUME NEW r \in Places
             PROVE  At'[r] = IF r = <<"hand", "rx">> THEN Tail(At[<<"hand", "rx">>])
                             ELSE IF r = <<"queue", d>>
                               THEN Append(At[<<"queue", d>>], Head(At[<<"hand", "rx">>]))
                             ELSE At[r]
  BY DEF Moves
<1>6. CASE \E c \in Fds : r = <<"queue", c>>
  <2>1. PICK c \in Fds : r = <<"queue", c>>
    BY <1>6
  <2>2. At[r] = sent[c] /\ At'[r] = sent'[c]
    BY <2>1, AtValues, AtValuesNext
  <2> QED BY <1>1, <1>2, <2>1, <2>2, AtValues, PlacesDiffer
<1>7. CASE \E u \in Slots : r = <<"slot", u>>
  <2>1. PICK u \in Slots : r = <<"slot", u>>
    BY <1>7
  <2>2. At[r] = slot[u] /\ At'[r] = slot'[u]
    BY <2>1, AtValues, AtValuesNext
  <2> QED BY <1>1, <1>2, <2>1, <2>2, AtValues, PlacesDiffer
<1>8. CASE r = <<"hand", "rx">>
  BY <1>1, <1>2, <1>8, AtValues, AtValuesNext, PlacesDiffer
<1>9. CASE r = <<"hand", "held">>
  BY <1>1, <1>2, <1>9, AtValues, AtValuesNext, PlacesDiffer
<1> QED BY <1>6, <1>7, <1>8, <1>9, PlaceCases

LEMMA MoveRxToHeld ==
  ASSUME MbufAssumption, TypeOK, hand \in Mbufs, held = NoMbuf, hand' = NoMbuf, held' = hand,
         UNCHANGED <<sent, slot>>
  PROVE  Moves(<<"hand", "rx">>, <<"hand", "held">>)
<1>2. /\ At[<<"hand", "rx">>] = One(hand) /\ Head(One(hand)) = hand
      /\ Tail(One(hand)) = <<>> /\ One(hand') = <<>>
      /\ One(held') = Append(One(held), hand) /\ At[<<"hand", "held">>] = One(held)
  BY AtValues, OneFacts
<1> SUFFICES ASSUME NEW r \in Places
             PROVE  At'[r] = IF r = <<"hand", "rx">> THEN Tail(At[<<"hand", "rx">>])
                             ELSE IF r = <<"hand", "held">>
                               THEN Append(At[<<"hand", "held">>], Head(At[<<"hand", "rx">>]))
                             ELSE At[r]
  BY DEF Moves
<1> QED BY <1>2, AtValues, AtValuesNext, PlaceCases, PlacesDiffer

LEMMA MoveSlotToQueue ==
  ASSUME TypeOK, NEW s \in Slots, NEW d \in Fds,
         slot' = [slot EXCEPT ![s] = Tail(@)],
         sent' = [sent EXCEPT ![d] = Append(@, Head(slot[s]))], UNCHANGED <<hand, held>>
  PROVE  Moves(<<"slot", s>>, <<"queue", d>>)
<1>1. /\ \A c \in Fds : sent'[c] = IF c = d THEN Append(sent[c], Head(slot[s])) ELSE sent[c]
      /\ \A u \in Slots : slot'[u] = IF u = s THEN Tail(slot[u]) ELSE slot[u]
  BY DEF TypeOK, NetifTypeOK, QosTypeOK
<1> SUFFICES ASSUME NEW r \in Places
             PROVE  At'[r] = IF r = <<"slot", s>> THEN Tail(At[<<"slot", s>>])
                             ELSE IF r = <<"queue", d>>
                               THEN Append(At[<<"queue", d>>], Head(At[<<"slot", s>>]))
                             ELSE At[r]
  BY DEF Moves
<1>6. CASE \E c \in Fds : r = <<"queue", c>>
  <2>1. PICK c \in Fds : r = <<"queue", c>>
    BY <1>6
  <2>2. At[r] = sent[c] /\ At'[r] = sent'[c]
    BY <2>1, AtValues, AtValuesNext
  <2> QED BY <1>1, <2>1, <2>2, AtValues, PlacesDiffer
<1>7. CASE \E u \in Slots : r = <<"slot", u>>
  <2>1. PICK u \in Slots : r = <<"slot", u>>
    BY <1>7
  <2>2. At[r] = slot[u] /\ At'[r] = slot'[u]
    BY <2>1, AtValues, AtValuesNext
  <2> QED BY <1>1, <2>1, <2>2, AtValues, PlacesDiffer
<1>8. CASE r = <<"hand", "rx">>
  BY <1>1, <1>8, AtValues, AtValuesNext, PlacesDiffer
<1>9. CASE r = <<"hand", "held">>
  BY <1>1, <1>9, AtValues, AtValuesNext, PlacesDiffer
<1> QED BY <1>6, <1>7, <1>8, <1>9, PlaceCases

LEMMA MoveSlotToHeld ==
  ASSUME MbufAssumption, TypeOK, NEW s \in Slots, Head(slot[s]) \in Mbufs, held = NoMbuf,
         slot' = [slot EXCEPT ![s] = Tail(@)], held' = Head(slot[s]), UNCHANGED <<sent, hand>>
  PROVE  Moves(<<"slot", s>>, <<"hand", "held">>)
<1>1. \A u \in Slots : slot'[u] = IF u = s THEN Tail(slot[u]) ELSE slot[u]
  BY DEF TypeOK, QosTypeOK
<1>2. One(held') = Append(One(held), Head(slot[s])) /\ At[<<"hand", "held">>] = One(held)
  BY AtValues, OneFacts
<1> SUFFICES ASSUME NEW r \in Places
             PROVE  At'[r] = IF r = <<"slot", s>> THEN Tail(At[<<"slot", s>>])
                             ELSE IF r = <<"hand", "held">>
                               THEN Append(At[<<"hand", "held">>], Head(At[<<"slot", s>>]))
                             ELSE At[r]
  BY DEF Moves
<1>6. CASE \E c \in Fds : r = <<"queue", c>>
  <2>1. PICK c \in Fds : r = <<"queue", c>>
    BY <1>6
  <2>2. At[r] = sent[c] /\ At'[r] = sent'[c]
    BY <2>1, AtValues, AtValuesNext
  <2> QED BY <1>1, <1>2, <2>1, <2>2, AtValues, PlacesDiffer
<1>7. CASE \E u \in Slots : r = <<"slot", u>>
  <2>1. PICK u \in Slots : r = <<"slot", u>>
    BY <1>7
  <2>2. At[r] = slot[u] /\ At'[r] = slot'[u]
    BY <2>1, AtValues, AtValuesNext
  <2> QED BY <1>1, <1>2, <2>1, <2>2, AtValues, PlacesDiffer
<1>8. CASE r = <<"hand", "rx">>
  BY <1>1, <1>2, <1>8, AtValues, AtValuesNext, PlacesDiffer
<1>9. CASE r = <<"hand", "held">>
  BY <1>1, <1>2, <1>9, AtValues, AtValuesNext, PlacesDiffer
<1> QED BY <1>6, <1>7, <1>8, <1>9, PlaceCases

-----------------------------------------------------------------------------
(* The list of slots *)

LEMMA PutKeepsList ==
  ASSUME NoSlotAssumption, TypeOK, ListInv, NEW s \in Slots, NEW m \in Mbufs, QosPut(s, m)
  PROVE  QosTypeOK(Mbufs)' /\ ListInv' /\ slot' = [slot EXCEPT ![s] = Append(@, m)]
<1>1. CASE is_used[s]
  <2>1. /\ slot' = [slot EXCEPT ![s] = Append(@, m)]
        /\ UNCHANGED <<is_used, next, slot_head, cursorVars>>
    BY <1>1 DEF QosPut
  <2>2. QosTypeOK(Mbufs)'
    BY <2>1 DEF QosTypeOK, TypeOK, cursorVars
  <2>3. \A u \in Slots : slot'[u] # <<>> <=> slot[u] # <<>>
    <3> SUFFICES ASSUME NEW u \in Slots PROVE slot'[u] # <<>> <=> slot[u] # <<>>
      OBVIOUS
    <3>1. slot[u] \in Seq(Mbufs) /\ slot'[u] = IF u = s THEN Append(slot[u], m) ELSE slot[u]
      BY <2>1 DEF TypeOK, QosTypeOK
    <3>2. slot[s] # <<>>
      BY <1>1 DEF Linked, ListInv
    <3>3. Append(slot[u], m) # <<>>
      BY <3>1
    <3> QED BY <3>1, <3>2, <3>3
  <2>4. Linked'
    BY <2>1, <2>3 DEF Linked, ListInv
  <2>5. Ranked' /\ Preceded'
    BY <2>1 DEF Ranked, Descends, Preceded, ListInv
  <2> QED BY <2>1, <2>2, <2>4, <2>5 DEF ListInv
<1>2. CASE ~is_used[s]
  <2>1. /\ slot' = [slot EXCEPT ![s] = <<m>>]
        /\ is_used' = [is_used EXCEPT ![s] = TRUE]
        /\ next' = [next EXCEPT ![s] = slot_head]
        /\ slot_head' = s /\ UNCHANGED cursorVars
    BY <1>2 DEF QosPut
  <2>2. slot[s] = <<>> /\ next[s] = NoSlot
    BY <1>2 DEF Linked, ListInv
  <2>3. slot' = [slot EXCEPT ![s] = Append(@, m)]
    BY <2>1, <2>2
  <2>4. QosTypeOK(Mbufs)'
    BY <2>1 DEF QosTypeOK, TypeOK, cursorVars
  <2>5. /\ \A u \in Slots : is_used'[u] = (u = s \/ is_used[u])
        /\ \A u \in Slots : next'[u] = IF u = s THEN slot_head ELSE next[u]
        /\ \A u \in Slots : slot'[u] = IF u = s THEN <<m>> ELSE slot[u]
        /\ \A u \in Slots : next[u] # s /\ s # NoSlot
        /\ slot_head # s
    <3>1. \A u \in Slots : is_used'[u] = (u = s \/ is_used[u])
      BY <2>1 DEF TypeOK, QosTypeOK
    <3>2. \A u \in Slots : next'[u] = IF u = s THEN slot_head ELSE next[u]
      BY <2>1 DEF TypeOK, QosTypeOK
    <3>3. \A u \in Slots : slot'[u] = IF u = s THEN <<m>> ELSE slot[u]
      BY <2>1 DEF TypeOK, QosTypeOK
    <3>4. s # NoSlot
      BY NoSlotAssumption
    <3>5. \A u \in Slots : next[u] # s
      BY <1>2, <3>4 DEF Linked, ListInv
    <3>6. slot_head # s
      BY <1>2, <3>4 DEF Linked, ListInv
    <3> QED BY <3>1, <3>2, <3>3, <3>4, <3>5, <3>6
  <2>6. Linked'
    <3>1. \A u \in Slots : is_used'[u] <=> slot'[u] # <<>>
      <4>1. <<m>> # <<>>
        OBVIOUS
      <4> QED BY <4>1, <2>5, Zenon DEF Linked, ListInv
    <3>2. \A u \in Slots : ~is_used'[u] => next'[u] = NoSlot
      BY <2>5 DEF Linked, ListInv
    <3>3. \A u \in Slots : next'[u] # NoSlot => is_used'[next'[u]] /\ next'[u] # slot_head'
      BY <2>1, <2>5 DEF Linked, ListInv, TypeOK, QosTypeOK
    <3>4. \A u, v \in Slots : next'[u] # NoSlot /\ next'[u] = next'[v] => u = v
      BY <2>5 DEF Linked, ListInv
    <3> QED BY <2>1, <2>5, <3>1, <3>2, <3>3, <3>4 DEF Linked
  <2>7. Ranked'
    <3>1. PICK rank \in [Slots -> Int] : Descends(rank)
      BY DEF Ranked, ListInv
    <3> DEFINE new == [rank EXCEPT ![s] = IF slot_head = NoSlot THEN 0 ELSE rank[slot_head] + 1]
    <3>2. slot_head \in Slots \cup {NoSlot}
      BY DEF TypeOK, QosTypeOK
    <3>3. new \in [Slots -> Int]
      BY <3>1, <3>2
    <3>4. ASSUME NEW u \in Slots, next'[u] # NoSlot PROVE new[next'[u]] < new[u]
      <4>1. CASE u = s
        BY <3>2, <3>4, <4>1, <2>5
      <4>2. CASE u # s
        BY <3>1, <3>4, <4>2, <2>5 DEF Descends
      <4> QED BY <4>1, <4>2
    <3> HIDE DEF new
    <3> QED BY <3>3, <3>4 DEF Ranked, Descends
  <2>8. Preceded'
    <3> SUFFICES ASSUME NEW u \in Slots, is_used[u], u # s PROVE \E t \in Slots : next'[t] = u
      BY <2>1, <2>5 DEF Preceded
    <3>1. CASE u = slot_head
      BY <2>5, <3>1
    <3>2. CASE u # slot_head
      <4>1. PICK t \in Slots : next[t] = u
        BY <3>2 DEF Preceded, ListInv
      <4>2. t # s
        BY <2>2, <4>1, NoSlotAssumption
      <4> QED BY <2>5, <4>1, <4>2
    <3> QED BY <3>1, <3>2
  <2> QED BY <2>3, <2>4, <2>6, <2>7, <2>8 DEF ListInv
<1> QED BY <1>1, <1>2

LEMMA PopNonEmpty ==
  ASSUME TypeOK, ListInv, CursorOK, Popping
  PROVE  /\ slot_obj \in Slots /\ is_used[slot_obj] /\ slot[slot_obj] # <<>>
         /\ slot[slot_obj] \in Seq(Mbufs) /\ Popped \in Mbufs /\ Popped = slot[slot_obj][1]
         /\ 1 \in DOMAIN slot[slot_obj] /\ slot_first = slot_head
<1>1. slot_obj \in Slots /\ is_used[slot_obj] /\ slot_first = slot_head
  BY DEF TypeOK, QosTypeOK, CursorOK, Popping
<1>2. slot[slot_obj] # <<>> /\ slot[slot_obj] \in Seq(Mbufs)
  BY <1>1 DEF ListInv, Linked, TypeOK, QosTypeOK
<1> QED BY <1>1, <1>2, TailFacts DEF Popped

\* A turn of the walk keeps the list, and its cursor on the list.
LEMMA PopKeepsList ==
  ASSUME NoSlotAssumption, TypeOK, ListInv, CursorOK, Popping, PopFrom, phase' = phase
  PROVE  /\ QosTypeOK(Mbufs)' /\ ListInv' /\ CursorOK'
         /\ slot' = [slot EXCEPT ![slot_obj] = Tail(@)]
<1>1. /\ slot_obj \in Slots /\ is_used[slot_obj] /\ slot[slot_obj] # <<>>
      /\ slot_first = slot_head /\ Tail(slot[slot_obj]) \in Seq(Mbufs)
      /\ slot_obj # NoSlot /\ next[slot_obj] \in Slots \cup {NoSlot}
  BY PopNonEmpty, TailFacts DEF TypeOK, QosTypeOK, Popping
<1>2. /\ slot' = [slot EXCEPT ![slot_obj] = Tail(@)]
      /\ \A u \in Slots : slot'[u] = IF u = slot_obj THEN Tail(slot[u]) ELSE slot[u]
      /\ slot' \in [Slots -> Seq(Mbufs)]
  BY <1>1 DEF PopFrom, TypeOK, QosTypeOK
<1>3. phase = "pop"
  BY DEF Popping
<1>4. CASE Tail(slot[slot_obj]) # <<>> /\ KeepSlot
  <2>1. /\ slot_old' = slot_obj /\ slot_obj' = next[slot_obj]
        /\ UNCHANGED <<is_used, next, slot_head, slot_first>>
    BY <1>4 DEF KeepSlot
  <2>2. \A u \in Slots : slot'[u] # <<>> <=> slot[u] # <<>>
    BY <1>1, <1>2, <1>4
  <2>3. QosTypeOK(Mbufs)'
    BY <1>1, <1>2, <2>1 DEF TypeOK, QosTypeOK
  <2>4. Linked'
    BY <2>1, <2>2 DEF Linked, ListInv
  <2>5. Ranked' /\ Preceded'
    BY <2>1 DEF Ranked, Descends, Preceded, ListInv
  <2>6. CursorOK'
    BY <1>1, <2>1 DEF CursorOK, ListInv, Linked
  <2> QED BY <1>2, <2>3, <2>4, <2>5, <2>6 DEF ListInv
<1>5. CASE Tail(slot[slot_obj]) = <<>> /\ slot_obj # slot_first /\ UnlinkInner
  <2>1. /\ is_used' = [is_used EXCEPT ![slot_obj] = FALSE]
        /\ next' = [next EXCEPT ![slot_old] = next[slot_obj], ![slot_obj] = NoSlot]
        /\ slot_obj' = next[slot_obj]
        /\ UNCHANGED <<slot_head, slot_first, slot_old>>
    BY <1>5 DEF UnlinkInner
  <2>2. slot_old \in Slots /\ next[slot_old] = slot_obj
    BY <1>1, <1>3, <1>5 DEF CursorOK
  <2>3. PICK rank \in [Slots -> Int] : Descends(rank)
    BY DEF Ranked, ListInv
  <2>4. slot_old # slot_obj
    <3>1. rank[slot_obj] < rank[slot_old] /\ rank[slot_obj] \in Int
      BY <1>1, <2>2, <2>3 DEF Descends
    <3> QED BY <3>1
  <2>5. /\ \A u \in Slots : is_used'[u] = (u # slot_obj /\ is_used[u])
        /\ \A u \in Slots : next'[u] = IF u = slot_obj THEN NoSlot
                                       ELSE IF u = slot_old THEN next[slot_obj] ELSE next[u]
    BY <2>1, <2>2, <2>4, <1>1 DEF TypeOK, QosTypeOK
  <2>6. /\ \A u \in Slots : next[u] = slot_obj => u = slot_old
        /\ next[slot_obj] # slot_obj
    <3>1. \A u \in Slots : next[u] = slot_obj => u = slot_old
      BY <1>1, <2>2 DEF Linked, ListInv
    <3> QED BY <3>1, <2>4, <1>1
  <2>7. QosTypeOK(Mbufs)'
    <3>1. QosTypeOK(Mbufs)
      BY DEF TypeOK
    <3>2. next[slot_obj] \in Slots \cup {NoSlot}
      BY <1>1, <3>1 DEF QosTypeOK
    <3>3. /\ is_used' \in [Slots -> BOOLEAN]
          /\ next' \in [Slots -> Slots \cup {NoSlot}]
      BY <2>1, <3>1, <3>2 DEF QosTypeOK
    <3>4. slot' \in [Slots -> Seq(Mbufs)]
      BY <1>2, <3>1 DEF QosTypeOK
    <3>5. {slot_head', slot_first', slot_obj', slot_old'} \subseteq Slots \cup {NoSlot}
      BY <2>1, <3>1, <3>2 DEF QosTypeOK
    <3> QED BY <3>3, <3>4, <3>5 DEF QosTypeOK
  <2>8. Linked'
    <3>1. \A u \in Slots : is_used'[u] <=> slot'[u] # <<>>
      BY <1>2, <1>5, <2>5, Zenon DEF Linked, ListInv
    <3>2. \A u \in Slots : ~is_used'[u] => next'[u] = NoSlot
      <4> SUFFICES ASSUME NEW u \in Slots, ~is_used'[u], u # slot_obj PROVE next'[u] = NoSlot
        BY <2>5
      <4>1. ~is_used[u] /\ next[u] = NoSlot
        BY <2>5, Zenon DEF Linked, ListInv
      <4>2. u # slot_old
        BY <4>1, <1>1, <2>2
      <4> QED BY <4>1, <4>2, <2>5
    <3>3. \A u \in Slots : next'[u] # NoSlot => is_used'[next'[u]] /\ next'[u] # slot_head'
      <4> SUFFICES ASSUME NEW u \in Slots, next'[u] # NoSlot
                   PROVE  is_used'[next'[u]] /\ next'[u] # slot_head'
        OBVIOUS
      <4>1. PICK v \in Slots : next'[u] = next[v] /\ next[v] # slot_obj /\ next[v] # NoSlot
        BY <2>2, <2>5, <2>6, <1>1
      <4>2. next[v] \in Slots
        BY <4>1 DEF TypeOK, QosTypeOK
      <4> QED BY <4>1, <4>2, <2>1, <2>5 DEF Linked, ListInv
    <3>4. \A u, v \in Slots : next'[u] # NoSlot /\ next'[u] = next'[v] => u = v
      BY <1>1, <2>2, <2>5, <2>6 DEF Linked, ListInv
    <3>5. slot_head' # NoSlot => is_used'[slot_head']
      BY <1>1, <1>5, <2>1, <2>5 DEF Linked, ListInv, TypeOK, QosTypeOK
    <3> QED BY <3>1, <3>2, <3>3, <3>4, <3>5 DEF Linked
  <2>9. Ranked'
    <3>1. ASSUME NEW u \in Slots, next'[u] # NoSlot PROVE rank[next'[u]] < rank[u]
      <4>1. CASE u = slot_old
        <5>1. next'[u] = next[slot_obj] /\ next[slot_obj] \in Slots
          BY <4>1, <2>4, <2>5, <3>1, <1>1
        <5>2. rank[next[slot_obj]] < rank[slot_obj] /\ rank[slot_obj] < rank[slot_old]
          BY <5>1, <3>1, <1>1, <2>2, <2>3 DEF Descends
        <5> QED BY <4>1, <5>1, <5>2, <1>1, <2>2
      <4>2. CASE u # slot_old
        BY <2>3, <2>5, <3>1, <4>2 DEF Descends
      <4> QED BY <4>1, <4>2
    <3> QED BY <3>1 DEF Ranked, Descends
  <2>10. CursorOK'
    BY <1>1, <2>1, <2>2, <2>4, <2>5, <2>6 DEF CursorOK, Linked, ListInv
  <2>11. Preceded'
    <3> SUFFICES ASSUME NEW u \in Slots, is_used[u], u # slot_obj, u # slot_head
                 PROVE  \E t \in Slots : next'[t] = u
      BY <2>1, <2>5 DEF Preceded
    <3>1. PICK t \in Slots : next[t] = u
      BY DEF Preceded, ListInv
    <3>2. CASE t = slot_obj
      BY <2>2, <2>4, <2>5, <3>1, <3>2
    <3>3. CASE t # slot_obj
      <4>1. t # slot_old
        BY <2>2, <3>1
      <4> QED BY <2>5, <3>1, <3>3, <4>1
    <3> QED BY <3>2, <3>3
  <2> QED BY <1>2, <2>7, <2>8, <2>9, <2>10, <2>11 DEF ListInv
<1>6. CASE Tail(slot[slot_obj]) = <<>> /\ slot_obj = slot_first /\ UnlinkFirst
  <2>1. /\ is_used' = [is_used EXCEPT ![slot_obj] = FALSE]
        /\ next' = [next EXCEPT ![slot_obj] = NoSlot]
        /\ slot_head' = next[slot_obj] /\ slot_obj' = next[slot_obj]
        /\ slot_first' = next[slot_obj] /\ slot_old' = next[slot_obj]
    BY <1>6 DEF UnlinkFirst
  <2>2. /\ \A u \in Slots : is_used'[u] = (u # slot_obj /\ is_used[u])
        /\ \A u \in Slots : next'[u] = IF u = slot_obj THEN NoSlot ELSE next[u]
        /\ \A u \in Slots : next[u] # slot_obj
        /\ slot_head = slot_obj
    <3>1. \A u \in Slots : next[u] # slot_obj
      BY <1>1, <1>6 DEF Linked, ListInv
    <3> QED BY <1>1, <1>6, <2>1, <3>1 DEF TypeOK, QosTypeOK
  <2>3. QosTypeOK(Mbufs)'
    BY <1>1, <1>2, <2>1 DEF TypeOK, QosTypeOK
  <2>4. Linked'
    <3>1. \A u \in Slots : is_used'[u] <=> slot'[u] # <<>>
      BY <1>2, <1>6, <2>2, Zenon DEF Linked, ListInv
    <3>2. \A u \in Slots : ~is_used'[u] => next'[u] = NoSlot
      <4> SUFFICES ASSUME NEW u \in Slots, ~is_used'[u], u # slot_obj PROVE next'[u] = NoSlot
        BY <2>2
      <4>1. ~is_used[u] /\ next'[u] = next[u]
        BY <2>2
      <4> QED BY <4>1 DEF Linked, ListInv
    <3>3. \A u \in Slots : next'[u] # NoSlot => is_used'[next'[u]] /\ next'[u] # slot_head'
      BY <1>1, <2>1, <2>2 DEF Linked, ListInv, TypeOK, QosTypeOK
    <3>4. \A u, v \in Slots : next'[u] # NoSlot /\ next'[u] = next'[v] => u = v
      <4> SUFFICES ASSUME NEW u \in Slots, NEW v \in Slots, next'[u] # NoSlot, next'[u] = next'[v]
                   PROVE  u = v
        OBVIOUS
      <4>1. next'[u] = next[u] /\ next'[v] = next[v]
        BY <2>2
      <4> QED BY <4>1 DEF Linked, ListInv
    <3>5. slot_head' # NoSlot => is_used'[slot_head']
      BY <1>1, <2>1, <2>2 DEF Linked, ListInv
    <3> QED BY <3>1, <3>2, <3>3, <3>4, <3>5 DEF Linked
  <2>5. Ranked'
    BY <2>2 DEF Ranked, Descends, ListInv
  <2>6. CursorOK'
    BY <1>1, <2>1, <2>2 DEF CursorOK, Linked, ListInv
  <2>7. Preceded'
    <3> SUFFICES ASSUME NEW u \in Slots, is_used[u], u # slot_obj, u # next[slot_obj]
                 PROVE  \E t \in Slots : next'[t] = u
      BY <2>1, <2>2 DEF Preceded
    <3>1. PICK t \in Slots : next[t] = u
      BY <2>2 DEF Preceded, ListInv
    <3> QED BY <2>2, <3>1
  <2> QED BY <1>2, <2>3, <2>4, <2>5, <2>6, <2>7 DEF ListInv
<1> QED BY <1>4, <1>5, <1>6 DEF PopFrom

\* A set of slots that is not empty has one of highest rank: the sets of
\* the slots above are finite, and strict inclusion orders them well.
LEMMA Highest ==
  ASSUME NoSlotAssumption, NEW rank \in [Slots -> Int], NEW S \in SUBSET Slots, S # {}
  PROVE  \E s \in S : \A t \in S : rank[t] <= rank[s]
<1> DEFINE Above(s) == {t \in Slots : rank[t] > rank[s]}
           T == {Above(s) : s \in S}
<1>1. T \subseteq FiniteSubsetsOf(Slots) /\ T # {}
  <2>1. FiniteSubsetsOf(Slots) = SUBSET Slots
    BY NoSlotAssumption, FS_FiniteSubsetsOfFinite
  <2>2. \A s \in S : Above(s) \in SUBSET Slots
    OBVIOUS
  <2> HIDE DEF Above
  <2>3. T # {}
    OBVIOUS
  <2> QED BY <2>1, <2>2, <2>3
<1>2. IsWellFoundedOn(StrictSubsetOrdering(Slots), FiniteSubsetsOf(Slots))
  BY FS_StrictSubsetOrderingWellFounded
<1>3. PICK A \in T : \A B \in T : <<B, A>> \notin StrictSubsetOrdering(Slots)
  <2> HIDE DEF T
  <2> QED BY <1>1, <1>2, WFMin
<1>4. PICK s \in S : A = Above(s)
  OBVIOUS
<1>5. ASSUME NEW t \in S, rank[t] > rank[s] PROVE FALSE
  <2>1. Above(t) \subseteq Above(s) /\ t \in Above(s) /\ t \notin Above(t)
    BY <1>5
  <2>2. Above(t) \in T /\ Above(t) \in SUBSET Slots /\ Above(s) \in SUBSET Slots
    OBVIOUS
  <2>3. <<Above(t), Above(s)>> \in StrictSubsetOrdering(Slots)
    <3> HIDE DEF Above, T
    <3> QED BY <2>1, <2>2 DEF StrictSubsetOrdering
  <2> QED BY <1>3, <1>4, <2>2, <2>3
<1>6. \A t \in S : rank[t] \in Int /\ rank[s] \in Int
  OBVIOUS
<1> QED BY <1>5, <1>6

\* The links lead from the head to all slots in use and to no other: the
\* highest slot in use that they miss would have a predecessor above it.
LEMMA UsedIsListed ==
  ASSUME NoSlotAssumption, TypeOK, ListInv
  PROVE  Listed = {s \in Slots : is_used[s]}
<1> DEFINE U == {s \in Slots : is_used[s]}
<1>1. Listed \subseteq U
  <2>1. slot_head # NoSlot => slot_head \in U
    BY DEF ListInv, Linked, TypeOK, QosTypeOK
  <2>2. \A u \in U, v \in Slots : Leads(u, v) => v \in U
    BY DEF ListInv, Linked, Leads
  <2>3. U \in SUBSET Slots
    OBVIOUS
  <2> HIDE DEF U
  <2> QED BY <2>1, <2>2, <2>3 DEF Listed
<1>2. ASSUME U \ Listed # {} PROVE FALSE
  <2>1. PICK rank \in [Slots -> Int] : Descends(rank)
    BY DEF ListInv, Ranked
  <2>2. PICK s \in U \ Listed : \A t \in U \ Listed : rank[t] <= rank[s]
    <3>1. U \ Listed \in SUBSET Slots
      OBVIOUS
    <3> HIDE DEF U
    <3> QED BY <1>2, <3>1, Highest
  <2>3. s \in Slots /\ is_used[s] /\ s # NoSlot
    BY NoSlotAssumption
  <2>4. s # slot_head
    BY <2>2, <2>3 DEF Listed
  <2>5. PICK t \in Slots : next[t] = s
    BY <2>3, <2>4 DEF ListInv, Preceded
  <2>6. t \in U /\ rank[s] < rank[t]
    BY <2>1, <2>3, <2>5 DEF ListInv, Linked, Descends
  <2>7. t \in Listed
    <3>1. rank[s] \in Int /\ rank[t] \in Int
      BY <2>3
    <3>2. t \notin U \ Listed
      BY <2>2, <2>6, <3>1
    <3> QED BY <2>6, <3>2
  <2>8. s \in Listed
    BY <2>3, <2>5, <2>7 DEF Listed, Leads
  <2> QED BY <2>2, <2>8
<1> QED BY <1>1, <1>2

LEMMA ListInvListed ==
  ASSUME NoSlotAssumption, TypeOK, ListInv, CursorOK
  PROVE  SlotsListed
<1>1. \A s \in Slots : is_used[s] <=> s \in Listed
  BY UsedIsListed
<1>2. \A s \in Slots : is_used[s] <=> slot[s] # <<>>
  BY DEF ListInv, Linked
<1>3. \A s, t, u \in Slots : Leads(s, u) => u # slot_head /\ (Leads(t, u) => t = s)
  BY DEF ListInv, Linked, Leads
<1>4. ASSUME phase = "pop", slot_obj # NoSlot
      PROVE  /\ slot_obj \in Listed
             /\ slot_obj # slot_head => slot_old \in Slots /\ Leads(slot_old, slot_obj)
  BY <1>1, <1>4 DEF CursorOK, Leads, TypeOK, QosTypeOK
<1> QED BY <1>1, <1>2, <1>3, <1>4 DEF SlotsListed

-----------------------------------------------------------------------------
(* Tags of the buffers in slots *)

LEMMA TagElsewhere ==
  ASSUME TypeOK, Accounts(At), SlotsTagged, UNCHANGED slot,
         NEW p \in Places, \A s \in Slots : p # <<"slot", s>>, NEW m, On(p, m),
         NEW v, tag' = [tag EXCEPT ![m] = v]
  PROVE  SlotsTagged'
<1> SUFFICES ASSUME NEW s \in Slots, NEW i \in DOMAIN slot[s]
             PROVE  tag'[slot[s][i]][1] \in Flows
  BY DEF SlotsTagged
<1>1. slot[s] \in Seq(Mbufs) /\ slot[s][i] \in Mbufs
  BY DEF TypeOK, QosTypeOK
<1>2. slot[s][i] # m
  <2>1. PICK j \in DOMAIN At[p] : At[p][j] = m
    BY DEF On
  <2>2. <<"slot", s>> \in Places /\ At[<<"slot", s>>] = slot[s] /\ DOMAIN At = Places
    BY AtValues DEF At
  <2> QED BY <2>1, <2>2 DEF Accounts, Apart
<1>3. tag'[slot[s][i]] = tag[slot[s][i]]
  BY <1>1, <1>2 DEF TypeOK
<1> QED BY <1>3 DEF SlotsTagged

LEMMA TagPopped ==
  ASSUME TypeOK, Accounts(At), SlotsTagged, NEW s \in Slots, slot[s] # <<>>,
         slot' = [slot EXCEPT ![s] = Tail(@)],
         tag' = tag \/ tag' = [tag EXCEPT ![Head(slot[s])] = NoLane]
  PROVE  SlotsTagged'
<1> SUFFICES ASSUME NEW u \in Slots, NEW i \in DOMAIN slot'[u]
             PROVE  tag'[slot'[u][i]][1] \in Flows
  BY DEF SlotsTagged
<1>1. slot[s] \in Seq(Mbufs) /\ slot[u] \in Seq(Mbufs)
  BY DEF TypeOK, QosTypeOK
<1>2. slot'[u] = IF u = s THEN Tail(slot[s]) ELSE slot[u]
  BY DEF TypeOK, QosTypeOK
<1>3. PICK j \in DOMAIN slot[u] : slot'[u][i] = slot[u][j] /\ (u = s => j # 1)
  <2>1. CASE u = s
    <3>1. i \in DOMAIN Tail(slot[s]) /\ slot'[u] = Tail(slot[s])
      BY <1>2, <2>1
    <3>2. i + 1 \in DOMAIN slot[s] /\ Tail(slot[s])[i] = slot[s][i + 1]
      BY <1>1, <3>1, TailFacts
    <3>3. i \in Nat \ {0}
      BY <1>1, <3>1, TailFacts
    <3> DEFINE k == i + 1
    <3>4. k # 1
      BY <3>3
    <3>5. k \in DOMAIN slot[u] /\ slot[u][k] = slot[s][k] /\ Tail(slot[s])[i] = slot[s][k]
      BY <3>2, <2>1
    <3> HIDE DEF k
    <3>6. slot'[u][i] = slot[u][k]
      BY <3>1, <3>5
    <3> QED BY <3>4, <3>5, <3>6
  <2>2. CASE u # s
    BY <1>2, <2>2
  <2> QED BY <2>1, <2>2
<1>4. slot[u][j] # Head(slot[s])
  <2>1. Head(slot[s]) = slot[s][1] /\ 1 \in DOMAIN slot[s]
    BY <1>1, TailFacts
  <2>2. /\ <<"slot", s>> \in Places /\ At[<<"slot", s>>] = slot[s]
        /\ <<"slot", u>> \in Places /\ At[<<"slot", u>>] = slot[u]
        /\ DOMAIN At = Places /\ (<<"slot", s>> = <<"slot", u>> => s = u)
    BY AtValues, PlacesDiffer DEF At
  <2> QED BY <1>3, <2>1, <2>2 DEF Accounts, Apart
<1>5. tag'[slot[u][j]] = tag[slot[u][j]]
  <2>1. slot[u][j] \in Mbufs
    BY <1>1
  <2> QED BY <2>1, <1>4 DEF TypeOK
<1> QED BY <1>3, <1>5 DEF SlotsTagged

LEMMA TagPushed ==
  ASSUME TypeOK, Accounts(At), SlotsTagged, NEW s \in Slots, hand \in Mbufs, NEW f \in Flows,
         slot' = [slot EXCEPT ![s] = Append(@, hand)],
         tag' = [tag EXCEPT ![hand] = <<f, "queued">>]
  PROVE  SlotsTagged'
<1> SUFFICES ASSUME NEW u \in Slots, NEW i \in DOMAIN slot'[u]
             PROVE  tag'[slot'[u][i]][1] \in Flows
  BY DEF SlotsTagged
<1>1. slot[u] \in Seq(Mbufs) /\ slot'[u] = IF u = s THEN Append(slot[u], hand) ELSE slot[u]
  BY DEF TypeOK, QosTypeOK
<1>2. slot'[u][i] = hand \/ (i \in DOMAIN slot[u] /\ slot'[u][i] = slot[u][i])
  <2>1. CASE u = s
    BY <1>1, <2>1, AppendFacts
  <2>2. CASE u # s
    BY <1>1, <2>2
  <2> QED BY <2>1, <2>2
<1>3. tag'[hand] = <<f, "queued">>
  BY DEF TypeOK
<1>4. ASSUME i \in DOMAIN slot[u], slot'[u][i] # hand, slot'[u][i] = slot[u][i]
      PROVE  tag'[slot'[u][i]] = tag[slot[u][i]]
  <2>1. slot[u][i] \in Mbufs
    BY <1>1, <1>4
  <2> QED BY <2>1, <1>4 DEF TypeOK
<1> QED BY <1>2, <1>3, <1>4 DEF SlotsTagged

-----------------------------------------------------------------------------
(* The actions *)

LEMMA PlaneInvInit ==
  ASSUME MbufAssumption, NoSlotAssumption, NoFdAssumption, FlowAssumption, Init
  PROVE  PlaneInv
<1> USE DEF Init, MbufInit, InterestInit, NetifInit, QosInit
<1>1. PreAlloc \div 4 \in Nat /\ PreAlloc \div 4 <= PreAlloc /\ PreAlloc \div 4 <= MaxMbufs
  BY DEF MbufAssumption
<1>2. TypeOK
  <2>1. MbufTypeOK /\ InterestTypeOK
    BY <1>1 DEF MbufTypeOK, InterestTypeOK
  <2>2. NetifTypeOK
    <3>1. \A d \in Fds : sent[d] \in Seq(Mbufs)
      OBVIOUS
    <3>2. sent \in [Fds -> Seq(Mbufs)]
      BY <3>1
    <3>3. write_flags \in [Fds -> {"OK", "FAIL"}]
      OBVIOUS
    <3> QED BY <3>2, <3>3 DEF NetifTypeOK
  <2>3. QosTypeOK(Mbufs)
    BY DEF QosTypeOK
  <2>4. 0 \in 0..ReadNum
    BY DEF FlowAssumption
  <2> QED BY <2>1, <2>2, <2>3, <2>4 DEF TypeOK, NoLane
<1>3. Accounts(At)
  <2>1. \A p \in Places : At[p] = <<>>
    BY DEF At, One, Places
  <2>2. Apart(At) /\ Loaded(At) = {}
    BY <2>1 DEF Apart, Loaded, At
  <2> QED BY <2>2, <1>1 DEF Accounts, PoolOnlyWhenSmall
<1>4. ListInv
  <2>1. Linked /\ Preceded
    BY DEF Linked, Preceded
  <2>2. [s \in Slots |-> 0] \in [Slots -> Int] /\ Descends([s \in Slots |-> 0])
    BY DEF Descends
  <2> QED BY <2>1, <2>2 DEF ListInv, Ranked
<1>5. CursorOK /\ SlotsTagged
  BY DEF CursorOK, SlotsTagged
<1> QED BY <1>2, <1>3, <1>4, <1>5 DEF PlaneInv

LEMMA EventTypes ==
  ASSUME InterestTypeOK, NEW d \in Fds, NEW e \in {"r", "w"}, AddEvent(d, e) \/ DelEvent(d, e)
  PROVE  InterestTypeOK'
<1>1. PollAfterAdd(d, e) \subseteq {"r", "w"} /\ PollAfterDel(d, e) \subseteq {"r", "w"}
  BY DEF PollAfterAdd, PollAfterDel, InterestTypeOK
<1>2. CASE AddEvent(d, e)
  BY <1>1, <1>2 DEF AddEvent, InterestTypeOK, interestVars
<1>3. CASE DelEvent(d, e)
  BY <1>1, <1>3 DEF DelEvent, InterestTypeOK, interestVars
<1> QED BY <1>2, <1>3

\* Neither slots nor the walk are touched.
LEMMA ListKept ==
  ASSUME TypeOK, ListInv, CursorOK, UNCHANGED listVars,
         \/ UNCHANGED <<cursorVars, phase>>
         \/ phase' # "pop" /\ UNCHANGED cursorVars
  PROVE  QosTypeOK(Mbufs)' /\ ListInv' /\ CursorOK'
<1> USE DEF listVars, cursorVars
<1>1. QosTypeOK(Mbufs)'
  BY DEF TypeOK, QosTypeOK
<1>2. Linked' /\ Preceded' /\ Ranked'
  BY DEF ListInv, Linked, Preceded, Ranked, Descends
<1>3. CursorOK'
  BY DEF CursorOK
<1> QED BY <1>1, <1>2, <1>3 DEF ListInv

LEMMA TxWriteKeepsInv ==
  ASSUME MbufAssumption, PlaneInv, TxWrite PROVE PlaneInv'
<1> USE DEF PlaneInv
<1>1. /\ tx \in Fds /\ sent[tx] # <<>> /\ sent[tx] \in Seq(Mbufs)
      /\ sent' = [sent EXCEPT ![tx] = Tail(@)] /\ MbufPut(Head(sent[tx]))
      /\ UNCHANGED <<slot, hand, held, phase, listVars, cursorVars>>
  BY DEF TxWrite, Write, TypeOK, NetifTypeOK, qosVars, listVars
<1>2. Head(sent[tx]) \in Mbufs /\ Tail(sent[tx]) \in Seq(Mbufs)
  BY <1>1, TailFacts
<1>3. <<"queue", tx>> \in Places /\ At[<<"queue", tx>>] = sent[tx]
  BY <1>1, AtValues
<1>4. MbufTypeOK' /\ Accounts(At)'
  <2>1. At' = Without(At, <<"queue", tx>>)
    BY <1>1, AtQueueWithout
  <2> QED BY <1>1, <1>3, <2>1, PutStep
<1>5. QosTypeOK(Mbufs)' /\ ListInv' /\ CursorOK'
  BY <1>1, ListKept
<1>6. NetifTypeOK'
  BY <1>1, <1>2 DEF TxWrite, Write, TypeOK, NetifTypeOK
<1>7. TypeOK'
  <2>1. InterestTypeOK'
    BY DEF TxWrite, Write, TypeOK, InterestTypeOK, interestVars
  <2>2. tag' \in [Mbufs -> Lanes \cup {NoLane}]
    BY <1>2 DEF TxWrite, TypeOK
  <2> QED BY <1>4, <1>5, <1>6, <2>1, <2>2 DEF TxWrite, TypeOK
<1>8. SlotsTagged'
  <2>1. On(<<"queue", tx>>, Head(sent[tx]))
    BY <1>1, <1>3, TailFacts DEF On
  <2> QED BY <1>1, <1>3, <2>1, TagElsewhere, PlacesDiffer DEF TxWrite
<1> QED BY <1>4, <1>5, <1>7, <1>8

LEMMA TxEndsKeepsInv ==
  ASSUME MbufAssumption, PlaneInv, NEW failed \in BOOLEAN, TxEnds(failed) PROVE PlaneInv'
<1> USE DEF PlaneInv
<1>1. /\ tx \in Fds /\ sent[tx] \in Seq(Mbufs)
      /\ UNCHANGED <<slot, hand, held, phase, listVars, cursorVars>>
      /\ sent' = [sent EXCEPT ![tx] = Left]
  BY DEF TxEnds, WriteEnds, TypeOK, NetifTypeOK, qosVars, listVars
<1>2. QosTypeOK(Mbufs)' /\ ListInv' /\ CursorOK'
  BY <1>1, ListKept
<1>3. Left \in Seq(Mbufs) /\ NetifTypeOK'
  <2>1. Left \in Seq(Mbufs)
    BY <1>1, TailFacts DEF Left, Drops
  <2>2. sent' \in [Fds -> Seq(Mbufs)]
    BY <2>1, <1>1 DEF TypeOK, NetifTypeOK
  <2>3. write_flags' \in [Fds -> {"OK", "FAIL"}]
    BY <1>1 DEF TxEnds, WriteEnds, TypeOK, NetifTypeOK
  <2> QED BY <2>1, <2>2, <2>3 DEF TxEnds, WriteEnds, NetifTypeOK
<1>4. InterestTypeOK'
  <2>1. \/ DelEvent(tx, "w") \/ AddEvent(tx, "w") \/ UNCHANGED interestVars
    BY DEF TxEnds, WriteEnds
  <2> QED BY <2>1, <1>1, EventTypes DEF TypeOK, InterestTypeOK, interestVars
<1>5. CASE Drops
  <2>1. /\ sent[tx] # <<>> /\ sent' = [sent EXCEPT ![tx] = Tail(@)]
        /\ MbufPut(Head(sent[tx])) /\ tag' = [tag EXCEPT ![Head(sent[tx])] = NoLane]
    BY <1>1, <1>5 DEF TxEnds, WriteEnds, Drops, Left
  <2>2. <<"queue", tx>> \in Places /\ At[<<"queue", tx>>] = sent[tx]
    BY <1>1, AtValues
  <2>3. MbufTypeOK' /\ Accounts(At)'
    <3>1. At' = Without(At, <<"queue", tx>>)
      BY <1>1, <2>1, AtQueueWithout
    <3> QED BY <2>1, <2>2, <3>1, PutStep
  <2>4. Head(sent[tx]) \in Mbufs /\ On(<<"queue", tx>>, Head(sent[tx]))
    BY <1>1, <2>1, <2>2, TailFacts DEF On
  <2>5. SlotsTagged'
    BY <1>1, <2>1, <2>2, <2>4, TagElsewhere, PlacesDiffer
  <2>6. tag' \in [Mbufs -> Lanes \cup {NoLane}]
    BY <2>1, <2>4 DEF TypeOK
  <2> QED BY <1>2, <1>3, <1>4, <2>3, <2>5, <2>6 DEF TxEnds, TypeOK
<1>6. CASE ~Drops
  <2>1. UNCHANGED <<sent, mbufVars, tag>>
    <3>1. \A d \in Fds : sent'[d] = sent[d]
      BY <1>1, <1>6 DEF Left, TypeOK, NetifTypeOK
    <3>2. sent' = sent
      BY <3>1, <1>1 DEF TypeOK, NetifTypeOK
    <3> QED BY <3>2, <1>6 DEF TxEnds, WriteEnds
  <2>2. MbufTypeOK' /\ Accounts(At)'
    BY <1>1, <2>1, AtSame, KeepStep
  <2>3. SlotsTagged'
    BY <1>1, <2>1 DEF SlotsTagged
  <2> QED BY <1>2, <1>3, <1>4, <2>1, <2>2, <2>3 DEF TxEnds, TypeOK
<1> QED BY <1>5, <1>6

LEMMA AskKeepsInv ==
  ASSUME MbufAssumption, PlaneInv,
         (\E m \in Mbufs : AskSend(m)) \/ AskNoMbuf \/ HeldDone
  PROVE  PlaneInv'
<1> USE DEF PlaneInv
<1>1. QosTypeOK(Mbufs)' /\ ListInv' /\ CursorOK' /\ InterestTypeOK' /\ SlotsTagged'
  <2>1. UNCHANGED <<slot, tag, phase, listVars, cursorVars, interestVars>>
    BY DEF AskSend, AskNoMbuf, HeldDone, qosVars, listVars
  <2>2. InterestTypeOK' /\ SlotsTagged'
    BY <2>1 DEF TypeOK, InterestTypeOK, interestVars, SlotsTagged
  <2> QED BY <2>1, <2>2, ListKept
<1>2. ASSUME NEW m \in Mbufs, AskSend(m) PROVE PlaneInv'
  <2>1. /\ ask \in Fds /\ sent' = [sent EXCEPT ![ask] = Append(@, m)] /\ MbufGet(m)
        /\ sent[ask] \in Seq(Mbufs)
        /\ UNCHANGED <<slot, hand, held, write_flags>>
    BY <1>2 DEF AskSend, NetifSend, TypeOK, NetifTypeOK, qosVars, listVars
  <2>2. MbufTypeOK' /\ Accounts(At)'
    <3>1. At' = With(At, <<"queue", ask>>, m) /\ <<"queue", ask>> \in Places
      BY <2>1, AtQueueWith, AtValues
    <3> QED BY <2>1, <3>1, GetStep
  <2>3. NetifTypeOK'
    <3>1. Append(sent[ask], m) \in Seq(Mbufs)
      BY <2>1, AppendFacts
    <3>2. /\ tx' = ask /\ moved' = FALSE /\ wire' = NoMbuf
      BY <1>2 DEF AskSend, NetifSend, TxCall
    <3>3. sent' \in [Fds -> Seq(Mbufs)] /\ write_flags' \in [Fds -> {"OK", "FAIL"}]
      BY <2>1, <3>1 DEF TypeOK, NetifTypeOK
    <3> QED BY <2>1, <3>2, <3>3 DEF NetifTypeOK
  <2> QED BY <1>1, <1>2, <2>2, <2>3 DEF AskSend, TypeOK
<1>3. CASE AskNoMbuf
  <2>1. UNCHANGED <<mbufVars, sent, slot, hand, held>>
    BY <1>3 DEF AskNoMbuf, MbufGetFails, qosVars, listVars
  <2>2. MbufTypeOK' /\ Accounts(At)'
    BY <2>1, AtSame, KeepStep
  <2>3. NetifTypeOK'
    BY <1>3 DEF AskNoMbuf, TypeOK, NetifTypeOK
  <2> QED BY <1>1, <1>3, <2>2, <2>3 DEF AskNoMbuf, TypeOK
<1>4. CASE HeldDone
  <2>1. /\ held \in Mbufs /\ held' = NoMbuf /\ MbufPut(held) /\ UNCHANGED <<sent, slot, hand>>
    BY <1>4 DEF HeldDone, TypeOK, qosVars, listVars
  <2>2. MbufTypeOK' /\ Accounts(At)'
    <3>1. /\ At' = Without(At, <<"hand", "held">>) /\ At[<<"hand", "held">>] # <<>>
          /\ Head(At[<<"hand", "held">>]) = held /\ <<"hand", "held">> \in Places
      BY <2>1, AtHeldWithout, AtValues
    <3> QED BY <2>1, <3>1, PutStep
  <2>3. NetifTypeOK'
    BY <1>4 DEF HeldDone, TypeOK, NetifTypeOK
  <2> QED BY <1>1, <1>4, <2>2, <2>3 DEF HeldDone, TypeOK
<1> QED BY <1>2, <1>3, <1>4

\* Steps of the loop that move no buffer.
Still ==
  \/ \E ready \in [Fds -> SUBSET {"r", "w"}] : Wait(ready)
  \/ \E d \in Fds : Readable(d) \/ Writable(d)
  \/ \E f \in Firsts : SetExpress(f)
  \/ IoEnds \/ RxEnds \/ QosTry \/ QosStops \/ PopEnds

\* What such a step leaves alone.
StillFrame ==
  /\ UNCHANGED <<mbufVars, interestVars, listVars, cursorVars, slot, tag, hand, held, ask, sent, write_flags>>
  /\ phase' # "pop" /\ moved' \in {moved, FALSE}
  /\ tx' \in Fds \cup {NoFd} /\ wire' = NoMbuf
  /\ phase' \in {"wait", "io", "rx", "qos", "sendable", "pop"}
  /\ events' \in [Fds -> SUBSET {"r", "w"}]
  /\ rx' \in Fds \cup {NoFd} /\ rxn' \in 0..ReadNum
  /\ express' \subseteq Firsts

LEMMA StillKeepsInv ==
  ASSUME MbufAssumption, NoSlotAssumption, FlowAssumption, PlaneInv, Still PROVE PlaneInv'
<1> USE DEF PlaneInv
<1>1. StillFrame
  <2> USE DEF StillFrame, TypeOK, NetifTypeOK, Quiet, qosVars, listVars, TxCall
  <2>1. ASSUME NEW ready \in [Fds -> SUBSET {"r", "w"}], Wait(ready) PROVE StillFrame
    BY <2>1 DEF Wait
  <2>2. ASSUME NEW d \in Fds, Readable(d) PROVE StillFrame
    BY <2>2, FlowAssumption DEF Readable, Handled, FlowAssumption
  <2>3. ASSUME NEW d \in Fds, Writable(d) PROVE StillFrame
    BY <2>3 DEF Writable, Handled
  <2>4. ASSUME NEW f \in Firsts, SetExpress(f) PROVE StillFrame
    BY <2>4 DEF SetExpress
  <2>5. CASE IoEnds
    BY <2>5 DEF IoEnds
  <2>6. CASE RxEnds
    BY <2>6, FlowAssumption DEF RxEnds, FlowAssumption
  <2>7. CASE QosTry
    BY <2>7, FlowAssumption DEF QosTry, FlowAssumption
  <2>8. CASE QosStops
    BY <2>8 DEF QosStops
  <2>9. CASE PopEnds
    BY <2>9 DEF PopEnds
  <2> QED BY <2>1, <2>2, <2>3, <2>4, <2>5, <2>6, <2>7, <2>8, <2>9 DEF Still
<1>2. QosTypeOK(Mbufs)' /\ ListInv' /\ CursorOK'
  BY <1>1, ListKept DEF StillFrame
<1>3. MbufTypeOK' /\ Accounts(At)'
  BY <1>1, AtSame, KeepStep DEF StillFrame
<1>4. InterestTypeOK' /\ NetifTypeOK'
  BY <1>1 DEF StillFrame, TypeOK, InterestTypeOK, NetifTypeOK, interestVars
<1>5. SlotsTagged'
  BY <1>1 DEF StillFrame, SlotsTagged
<1> QED BY <1>1, <1>2, <1>3, <1>4, <1>5 DEF StillFrame, TypeOK

\* The buffers of ixc_netif_rx_data: taken for a read and given back.
LEMMA RxKeepsInv ==
  ASSUME MbufAssumption, FlowAssumption, PlaneInv,
         (\E m \in Mbufs : RxGet(m)) \/ RxEmpty \/ RxConsume
  PROVE  PlaneInv'
<1> USE DEF PlaneInv
<1>1. /\ UNCHANGED <<listVars, cursorVars, slot, sent, held, tag>> /\ phase' # "pop"
      /\ phase' \in {"io", "rx"} /\ rx' \in Fds \cup {NoFd} /\ rxn' \in 0..ReadNum
      /\ UNCHANGED <<interestVars, write_flags, tx, moved, events, ask, express>>
      /\ wire' = NoMbuf
  <2> USE DEF Quiet, qosVars, listVars
  <2>1. ASSUME NEW m \in Mbufs, RxGet(m)
        PROVE  rxn' \in 0..ReadNum
    BY <2>1 DEF RxGet, TypeOK, FlowAssumption
  <2> QED BY <2>1 DEF RxGet, RxEmpty, RxConsume, TypeOK, FlowAssumption
<1>2. QosTypeOK(Mbufs)' /\ ListInv' /\ CursorOK'
  BY <1>1, ListKept
<1>3. SlotsTagged' /\ InterestTypeOK' /\ NetifTypeOK'
  BY <1>1 DEF SlotsTagged, TypeOK, InterestTypeOK, NetifTypeOK, interestVars
<1>4. MbufTypeOK' /\ Accounts(At)' /\ hand' \in Mbufs \cup {NoMbuf}
  <2>1. ASSUME NEW m \in Mbufs, RxGet(m) PROVE MbufTypeOK' /\ Accounts(At)' /\ hand' \in Mbufs
    <3>1. hand = NoMbuf /\ hand' = m /\ MbufGet(m)
      BY <2>1 DEF RxGet
    <3>2. At' = With(At, <<"hand", "rx">>, m) /\ <<"hand", "rx">> \in Places
      BY <1>1, <3>1, AtRxWith, AtValues
    <3> QED BY <3>1, <3>2, GetStep
  <2>2. CASE RxEmpty \/ RxConsume
    <3>1. hand \in Mbufs /\ hand' = NoMbuf /\ MbufPut(hand)
      BY <2>2 DEF RxEmpty, RxConsume, TypeOK
    <3>2. /\ At' = Without(At, <<"hand", "rx">>) /\ At[<<"hand", "rx">>] # <<>>
          /\ Head(At[<<"hand", "rx">>]) = hand /\ <<"hand", "rx">> \in Places
      BY <1>1, <3>1, AtRxWithout, AtValues
    <3> QED BY <3>1, <3>2, PutStep
  <2> QED BY <2>1, <2>2
<1> QED BY <1>1, <1>2, <1>3, <1>4 DEF TypeOK

\* A packet from an interface goes to a slot, to a queue or waits.
LEMMA HandStep ==
  ASSUME MbufAssumption, TypeOK, Accounts(At), hand \in Mbufs, UNCHANGED mbufVars,
         NEW q \in Places, q # <<"hand", "rx">>, Moves(<<"hand", "rx">>, q)
  PROVE  MbufTypeOK' /\ Accounts(At)'
<1>1. <<"hand", "rx">> \in Places /\ At[<<"hand", "rx">>] # <<>>
  BY AtValues, OneFacts
<1>2. At' = With(Without(At, <<"hand", "rx">>), q, Head(At[<<"hand", "rx">>]))
  BY <1>1, MovesIs
<1> QED BY <1>1, <1>2, MoveStep

LEMMA RxQueueKeepsInv ==
  ASSUME MbufAssumption, NoSlotAssumption, FlowAssumption, PlaneInv, NEW f \in Flows, RxQueue(f)
  PROVE  PlaneInv'
<1> USE DEF PlaneInv
<1>1. /\ SlotOf[f] \in Slots /\ hand \in Mbufs /\ hand' = NoMbuf
      /\ QosPut(SlotOf[f], hand) /\ tag' = [tag EXCEPT ![hand] = <<f, "queued">>]
      /\ UNCHANGED <<mbufVars, sent, held, phase>> /\ phase # "pop"
  BY DEF RxQueue, FlowAssumption, TypeOK, Quiet
<1>2. /\ QosTypeOK(Mbufs)' /\ ListInv'
      /\ slot' = [slot EXCEPT ![SlotOf[f]] = Append(@, hand)]
  BY <1>1, PutKeepsList
<1>3. SlotsTagged'
  BY <1>1, <1>2, TagPushed
<1>4. MbufTypeOK' /\ Accounts(At)'
  <2>1. Moves(<<"hand", "rx">>, <<"slot", SlotOf[f]>>)
    BY <1>1, <1>2, MoveRxToSlot
  <2>2. <<"slot", SlotOf[f]>> \in Places /\ <<"slot", SlotOf[f]>> # <<"hand", "rx">>
    BY <1>1, AtValues
  <2> QED BY <1>1, <2>1, <2>2, HandStep
<1>5. CursorOK'
  BY <1>1 DEF CursorOK
<1>6. InterestTypeOK' /\ NetifTypeOK'
  BY DEF RxQueue, Quiet, TypeOK, InterestTypeOK, NetifTypeOK, interestVars
<1>7. tag' \in [Mbufs -> Lanes \cup {NoLane}]
  BY <1>1 DEF TypeOK, Lanes
<1> QED BY <1>1, <1>2, <1>3, <1>4, <1>5, <1>6, <1>7 DEF RxQueue, TypeOK

\* What NetifSend keeps of the types.
LEMMA SendTypes ==
  ASSUME TypeOK, NEW d \in Fds, NEW m \in Mbufs, NetifSend(d, m), wire' = NoMbuf
  PROVE  NetifTypeOK'
<1>1. Append(sent[d], m) \in Seq(Mbufs)
  BY AppendFacts DEF TypeOK, NetifTypeOK
<1> QED BY <1>1 DEF NetifSend, TxCall, TypeOK, NetifTypeOK

LEMMA RxForwardKeepsInv ==
  ASSUME MbufAssumption, FlowAssumption, PlaneInv, NEW f \in Flows, RxForward(f) PROVE PlaneInv'
<1> USE DEF PlaneInv
<1>1. /\ Out[f] \in Fds /\ hand \in Mbufs /\ hand' = NoMbuf
      /\ NetifSend(Out[f], hand) /\ tag' = [tag EXCEPT ![hand] = <<f, "direct">>]
      /\ sent' = [sent EXCEPT ![Out[f]] = Append(@, hand)]
      /\ UNCHANGED <<mbufVars, slot, held, phase, listVars, cursorVars>>
  BY DEF RxForward, NetifSend, FlowAssumption, TypeOK, qosVars, listVars
<1>2. QosTypeOK(Mbufs)' /\ ListInv' /\ CursorOK'
  BY <1>1, ListKept
<1>3. SlotsTagged'
  <2>1. <<"hand", "rx">> \in Places /\ On(<<"hand", "rx">>, hand)
    BY <1>1, AtValues DEF On, One, MbufAssumption
  <2> QED BY <1>1, <2>1, TagElsewhere, PlacesDiffer
<1>4. MbufTypeOK' /\ Accounts(At)'
  <2>1. Moves(<<"hand", "rx">>, <<"queue", Out[f]>>)
    BY <1>1, MoveRxToQueue
  <2>2. <<"queue", Out[f]>> \in Places /\ <<"queue", Out[f]>> # <<"hand", "rx">>
    BY <1>1, AtValues
  <2> QED BY <1>1, <2>1, <2>2, HandStep
<1>5. InterestTypeOK' /\ NetifTypeOK'
  <2>1. NetifTypeOK'
    BY <1>1, SendTypes DEF RxForward
  <2> QED BY <2>1 DEF RxForward, TypeOK, InterestTypeOK, interestVars
<1>6. tag' \in [Mbufs -> Lanes \cup {NoLane}]
  BY <1>1 DEF TypeOK, Lanes
<1> QED BY <1>1, <1>2, <1>3, <1>4, <1>5, <1>6 DEF RxForward, TypeOK

LEMMA RxAskKeepsInv ==
  ASSUME MbufAssumption, PlaneInv, NEW d \in Fds, RxAsk(d) PROVE PlaneInv'
<1> USE DEF PlaneInv
<1>1. /\ hand \in Mbufs /\ hand' = NoMbuf /\ held = NoMbuf /\ held' = hand
      /\ UNCHANGED <<mbufVars, sent, slot, phase, listVars, cursorVars, tag>>
  BY DEF RxAsk, Back, Quiet, TypeOK, qosVars, listVars
<1>2. QosTypeOK(Mbufs)' /\ ListInv' /\ CursorOK'
  BY <1>1, ListKept
<1>3. SlotsTagged'
  BY <1>1 DEF SlotsTagged
<1>4. MbufTypeOK' /\ Accounts(At)'
  <2>1. Moves(<<"hand", "rx">>, <<"hand", "held">>)
    BY <1>1, MoveRxToHeld
  <2>2. <<"hand", "held">> \in Places /\ <<"hand", "held">> # <<"hand", "rx">>
    BY AtValues
  <2> QED BY <1>1, <2>1, <2>2, HandStep
<1>5. InterestTypeOK' /\ NetifTypeOK'
  BY DEF RxAsk, Quiet, TypeOK, InterestTypeOK, NetifTypeOK, interestVars
<1> QED BY <1>1, <1>2, <1>3, <1>4, <1>5 DEF RxAsk, TypeOK

LEMMA QosPopsKeepsInv ==
  ASSUME PlaneInv, QosPops PROVE PlaneInv'
<1> USE DEF PlaneInv
<1>1. /\ UNCHANGED <<mbufVars, listVars, slot, is_used, next, slot_head, sent, hand, held, tag>>
      /\ slot_first' = slot_head /\ slot_obj' = slot_head /\ slot_old' = slot_head
  BY DEF QosPops, QosPopBegins, Quiet, listVars
<1>2. QosTypeOK(Mbufs)' /\ ListInv' /\ CursorOK' /\ SlotsTagged'
  <2>1. QosTypeOK(Mbufs)'
    BY <1>1 DEF TypeOK, QosTypeOK
  <2>2. Linked' /\ Preceded' /\ Ranked' /\ SlotsTagged'
    BY <1>1 DEF ListInv, Linked, Preceded, Ranked, Descends, SlotsTagged
  <2>3. CursorOK'
    BY <1>1 DEF CursorOK, ListInv, Linked
  <2> QED BY <2>1, <2>2, <2>3 DEF ListInv
<1>3. MbufTypeOK' /\ Accounts(At)'
  BY <1>1, AtSame, KeepStep
<1>4. InterestTypeOK' /\ NetifTypeOK'
  BY DEF QosPops, Quiet, TypeOK, InterestTypeOK, NetifTypeOK, interestVars
<1> QED BY <1>1, <1>2, <1>3, <1>4 DEF QosPops, TypeOK

\* The packet that leaves its slot is sent, dropped, or waits.
LEMMA PopKeepsInv ==
  ASSUME MbufAssumption, NoSlotAssumption, FlowAssumption, PlaneInv,
         PopForward \/ PopDrop \/ PopAsk
  PROVE  PlaneInv'
<1> USE DEF PlaneInv
<1>1. /\ Popping /\ PopFrom /\ phase' = phase
  BY DEF PopForward, PopDrop, PopAsk, planeVars
<1>2. /\ slot_obj \in Slots /\ slot[slot_obj] # <<>> /\ Popped \in Mbufs
      /\ slot[slot_obj] \in Seq(Mbufs) /\ Head(slot[slot_obj]) = Popped
      /\ Popped = slot[slot_obj][1] /\ 1 \in DOMAIN slot[slot_obj]
  BY <1>1, PopNonEmpty DEF Popped
<1>3. /\ QosTypeOK(Mbufs)' /\ ListInv' /\ CursorOK'
      /\ slot' = [slot EXCEPT ![slot_obj] = Tail(@)]
  BY <1>1, PopKeepsList
<1>4. tag[Popped][1] \in Flows /\ Out[tag[Popped][1]] \in Fds
  BY <1>2 DEF SlotsTagged, FlowAssumption
<1>5. /\ <<"slot", slot_obj>> \in Places /\ At[<<"slot", slot_obj>>] = slot[slot_obj]
  BY <1>2, AtValues
<1>6. SlotsTagged' /\ tag' \in [Mbufs -> Lanes \cup {NoLane}]
  <2>1. tag' = tag \/ tag' = [tag EXCEPT ![Head(slot[slot_obj])] = NoLane]
    BY <1>2 DEF PopForward, PopDrop, PopAsk, planeVars
  <2>2. tag' \in [Mbufs -> Lanes \cup {NoLane}]
    BY <2>1, <1>2 DEF TypeOK
  <2> QED BY <2>1, <2>2, <1>2, <1>3, TagPopped
<1>7. CASE PopForward
  <2> DEFINE d == Out[tag[Popped][1]]
  <2>1. /\ NetifSend(d, Popped) /\ wire' = NoMbuf
        /\ sent' = [sent EXCEPT ![d] = Append(@, Head(slot[slot_obj]))]
        /\ UNCHANGED <<mbufVars, interestVars, hand, held>>
    BY <1>2, <1>7 DEF PopForward, NetifSend, planeVars
  <2>2. d \in Fds
    BY <1>4
  <2> HIDE DEF d
  <2>3. MbufTypeOK' /\ Accounts(At)'
    <3>1. Moves(<<"slot", slot_obj>>, <<"queue", d>>)
      BY <2>1, <2>2, <1>2, <1>3, MoveSlotToQueue
    <3>2. <<"queue", d>> \in Places /\ <<"slot", slot_obj>> # <<"queue", d>>
      BY <2>2, AtValues
    <3>3. At' = With(Without(At, <<"slot", slot_obj>>), <<"queue", d>>, Head(At[<<"slot", slot_obj>>]))
      BY <3>1, <3>2, <1>5, MovesIs
    <3> QED BY <3>2, <3>3, <2>1, <1>2, <1>5, MoveStep
  <2>4. NetifTypeOK' /\ InterestTypeOK'
    <3>1. NetifTypeOK'
      BY <2>1, <2>2, <1>2, SendTypes
    <3> QED BY <3>1, <2>1 DEF TypeOK, InterestTypeOK, interestVars
  <2> QED BY <1>3, <1>6, <1>7, <2>3, <2>4 DEF PopForward, planeVars, TypeOK
<1>8. CASE PopDrop
  <2>1. /\ MbufPut(Head(At[<<"slot", slot_obj>>])) /\ UNCHANGED <<sent, hand, held>>
    BY <1>2, <1>5, <1>8 DEF PopDrop, Quiet
  <2>2. MbufTypeOK' /\ Accounts(At)'
    <3>1. At' = Without(At, <<"slot", slot_obj>>)
      BY <2>1, <1>2, <1>3, AtSlotWithout
    <3> QED BY <3>1, <2>1, <1>2, <1>5, PutStep
  <2>3. InterestTypeOK' /\ NetifTypeOK'
    BY <1>8 DEF PopDrop, Quiet, TypeOK, InterestTypeOK, NetifTypeOK, interestVars
  <2> QED BY <1>3, <1>6, <1>8, <2>2, <2>3 DEF PopDrop, TypeOK
<1>9. CASE PopAsk
  <2>1. /\ held = NoMbuf /\ held' = Head(slot[slot_obj]) /\ UNCHANGED <<sent, hand, mbufVars>>
    BY <1>1, <1>2, <1>9 DEF PopAsk, Quiet, Popping, Back
  <2>2. MbufTypeOK' /\ Accounts(At)'
    <3>1. Moves(<<"slot", slot_obj>>, <<"hand", "held">>)
      BY <2>1, <1>2, <1>3, MoveSlotToHeld
    <3>2. <<"hand", "held">> \in Places /\ <<"slot", slot_obj>> # <<"hand", "held">>
      BY AtValues
    <3>3. At' = With(Without(At, <<"slot", slot_obj>>), <<"hand", "held">>, Head(At[<<"slot", slot_obj>>]))
      BY <3>1, <3>2, <1>5, MovesIs
    <3> QED BY <3>2, <3>3, <2>1, <1>2, <1>5, MoveStep
  <2>3. InterestTypeOK' /\ NetifTypeOK'
    BY <1>9 DEF PopAsk, Quiet, TypeOK, InterestTypeOK, NetifTypeOK, interestVars
  <2> QED BY <1>2, <1>3, <1>4, <1>6, <1>9, <2>1, <2>2, <2>3 DEF PopAsk, TypeOK
<1> QED BY <1>7, <1>8, <1>9

LEMMA PlaneInvNext ==
  ASSUME MbufAssumption, NoSlotAssumption, NoFdAssumption, FlowAssumption, PlaneInv, [Next]_vars
  PROVE  PlaneInv'
<1>1. CASE Call
  BY <1>1, TxWriteKeepsInv, TxEndsKeepsInv, AskKeepsInv DEF Call
<1>2. CASE Still
  BY <1>2, StillKeepsInv
<1>3. CASE Receive
  BY <1>2, <1>3, RxKeepsInv, RxQueueKeepsInv, RxForwardKeepsInv, RxAskKeepsInv, StillKeepsInv
     DEF Receive, Still
<1>4. CASE Turn
  BY <1>2, <1>4, QosPopsKeepsInv, PopKeepsInv DEF Turn, Still
<1>5. CASE UNCHANGED vars
  <2> USE DEF vars, mbufVars, interestVars, netifVars, qosVars, planeVars, listVars, cursorVars
  <2>1. UNCHANGED <<listVars, cursorVars, phase>>
    BY <1>5
  <2>2. QosTypeOK(Mbufs)' /\ ListInv' /\ CursorOK'
    BY <2>1, ListKept DEF PlaneInv
  <2>3. MbufTypeOK' /\ Accounts(At)'
    BY <1>5, AtSame, KeepStep DEF PlaneInv
  <2>4. InterestTypeOK' /\ NetifTypeOK' /\ SlotsTagged'
    BY <1>5 DEF PlaneInv, TypeOK, InterestTypeOK, NetifTypeOK, SlotsTagged
  <2> QED BY <1>5, <2>2, <2>3, <2>4 DEF PlaneInv, TypeOK
<1> QED BY <1>1, <1>2, <1>3, <1>4, <1>5 DEF Next, Loop, Still

\* The accounts, the list and the cursor hold throughout (mbuf.c, netif.c,
\* qos.c): the invariant that the theorems below are read from.
THEOREM PlaneInvAlways == Spec => []PlaneInv
<1>1. Init => PlaneInv
  BY PlaneInvInit, MbufAssumption, NoSlotAssumption, NoFdAssumption, FlowAssumption
<1>2. PlaneInv /\ [Next]_vars => PlaneInv'
  BY PlaneInvNext, MbufAssumption, NoSlotAssumption, NoFdAssumption, FlowAssumption
<1> QED BY <1>1, <1>2, PTL DEF Spec

\* The state of the data plane stays within its types.
THEOREM PlaneTypeCorrect == Spec => []TypeOK
<1>1. PlaneInv => TypeOK
  BY DEF PlaneInv
<1> QED BY <1>1, PlaneInvAlways, PTL

\* Every buffer is in one place: none is lost, given back twice or used
\* after it was given back, on any path of netif.c and qos.c, and never more
\* than IXC_MBUF_MAX of them exist.
THEOREM PlaneMbufConserved == Spec => []MbufConserved
<1>1. PlaneInv => MbufConserved
  BY AccountsConserve DEF PlaneInv
<1> QED BY <1>1, PlaneInvAlways, PTL

\* The pool keeps no buffer while more than the pre-allocated number exist
\* (ixc_mbuf_put).
THEOREM PlanePoolOnlyWhenSmall == Spec => []PoolOnlyWhenSmall
<1>1. PlaneInv => PoolOnlyWhenSmall
  BY DEF PlaneInv, Accounts
<1> QED BY <1>1, PlaneInvAlways, PTL

\* The walk of ixc_qos_pop never takes a packet from an empty slot, although
\* it unlinks slots as it goes: m->next of a missing packet would crash.
THEOREM PlanePopsAPacket == Spec => [](Popping => slot[slot_obj] # <<>>)
<1>1. PlaneInv => (Popping => slot[slot_obj] # <<>>)
  BY PopNonEmpty DEF PlaneInv
<1> QED BY <1>1, PlaneInvAlways, PTL

\* The links that qos.c keeps by hand lead to exactly the slots with packets,
\* to each once, and the walk of ixc_qos_pop never leaves them.
THEOREM PlaneSlotsListed == Spec => []SlotsListed
<1>1. PlaneInv => SlotsListed
  BY ListInvListed, NoSlotAssumption DEF PlaneInv
<1> QED BY <1>1, PlaneInvAlways, PTL

-----------------------------------------------------------------------------
(* The walk *)

\* The slots to which some links lead from slot a on.
Reach(links, a) ==
  {s \in Slots : \A C \in SUBSET Slots :
     /\ a # NoSlot => a \in C
     /\ \A u \in C : links[u] # NoSlot => links[u] \in C
     => s \in C}

\* The slots that the walk of ixc_qos_pop has yet to come to.
ToServe == Reach(next, slot_obj)

\* A step as a walk may make it: begin, call, serve a slot, end.
WalkStep ==
  /\ phase # "pop" /\ phase' = "pop" =>
       slot' = slot /\ ToServe' = {s \in Slots : slot[s] # <<>>}
  /\ phase = "pop" =>
       \/ phase' = "pop" /\ slot' = slot /\ ToServe' = ToServe
       \/ /\ phase' = "pop" /\ slot_obj \in ToServe /\ slot[slot_obj] # <<>>
          /\ ToServe' = ToServe \ {slot_obj}
          /\ slot' = [slot EXCEPT ![slot_obj] = Tail(@)]
       \/ phase' # "pop" /\ slot' = slot /\ ToServe = {}

\* No slot starves another (the safety half of SlotsServed): a walk begins
\* with all slots that hold packets before it, takes the first packet of one
\* of them after the other, and ends with none left, whatever it unlinks, and
\* whatever is forwarded, dropped or asked for in between.
WalkServesEach == [][WalkStep]_vars

LEMMA ReachNone ==
  ASSUME NEW links PROVE Reach(links, NoSlot) = {}
<1> SUFFICES ASSUME NEW s \in Reach(links, NoSlot) PROVE FALSE
  OBVIOUS
<1>1. {} \in SUBSET Slots /\ \A u \in {} : links[u] # NoSlot => links[u] \in {}
  OBVIOUS
<1> QED BY <1>1 DEF Reach

\* What is reached from a slot is the slot and what its link reaches.
LEMMA ReachStep ==
  ASSUME NoSlotAssumption, NEW links \in [Slots -> Slots \cup {NoSlot}], NEW a \in Slots
  PROVE  Reach(links, a) = {a} \cup Reach(links, links[a])
<1> DEFINE R == Reach(links, links[a])
<1>1. ASSUME NEW s \in Reach(links, a) PROVE s \in {a} \cup R
  <2>1. {a} \cup R \in SUBSET Slots
    BY DEF Reach
  <2>2. ASSUME NEW u \in {a} \cup R, links[u] # NoSlot PROVE links[u] \in R
    <3>1. CASE u = a
      BY <2>2, <3>1 DEF Reach
    <3>2. CASE u \in R
      BY <2>2, <3>2 DEF Reach
    <3> QED BY <3>1, <3>2
  <2> HIDE DEF R
  <2> QED BY <1>1, <2>1, <2>2 DEF Reach
<1>2. a \in Reach(links, a)
  BY NoSlotAssumption DEF Reach
<1>3. R \subseteq Reach(links, a)
  <2> SUFFICES ASSUME NEW s \in R, NEW C \in SUBSET Slots, a \in C,
                      \A u \in C : links[u] # NoSlot => links[u] \in C
               PROVE  s \in C
    BY NoSlotAssumption DEF Reach
  <2> QED BY DEF Reach
<1> QED BY <1>1, <1>2, <1>3

\* Links that go down a rank do not lead back.
LEMMA ReachBelow ==
  ASSUME NoSlotAssumption, NEW links \in [Slots -> Slots \cup {NoSlot}],
         NEW rank \in [Slots -> Int],
         \A s \in Slots : links[s] # NoSlot => rank[links[s]] < rank[s],
         NEW a \in Slots, NEW s \in Reach(links, links[a])
  PROVE  s \in Slots /\ rank[s] < rank[a]
<1> DEFINE C == {u \in Slots : rank[u] < rank[a]}
<1>1. C \in SUBSET Slots /\ (links[a] # NoSlot => links[a] \in C)
  OBVIOUS
<1>2. \A u \in C : links[u] # NoSlot => links[u] \in C
  <2> SUFFICES ASSUME NEW u \in C, links[u] # NoSlot PROVE links[u] \in C
    OBVIOUS
  <2>1. links[u] \in Slots /\ rank[links[u]] < rank[u]
    OBVIOUS
  <2> QED BY <2>1
<1>3. s \in C
  <2> HIDE DEF C
  <2> QED BY <1>1, <1>2 DEF Reach
<1> QED BY <1>3

\* Only links that are followed matter.
LEMMA ReachSame ==
  ASSUME NEW links \in [Slots -> Slots \cup {NoSlot}], NEW other \in [Slots -> Slots \cup {NoSlot}],
         NEW a \in Slots \cup {NoSlot}, \A u \in Reach(links, a) : other[u] = links[u]
  PROVE  Reach(other, a) = Reach(links, a)
<1> DEFINE R == Reach(links, a)
<1>1. R \in SUBSET Slots /\ (a # NoSlot => a \in R)
  BY DEF Reach
<1>2. ASSUME NEW u \in R, links[u] # NoSlot PROVE links[u] \in R
  <2>1. u \in Slots /\ links[u] \in Slots
    BY <1>1, <1>2
  <2> QED BY <1>2, <2>1 DEF Reach
<1>3. ASSUME NEW s \in Reach(other, a) PROVE s \in R
  <2> HIDE DEF R
  <2>1. \A u \in R : other[u] # NoSlot => other[u] \in R
    BY <1>2 DEF R
  <2> QED BY <1>1, <1>3, <2>1 DEF Reach
<1>4. ASSUME NEW s \in R PROVE s \in Reach(other, a)
  <2> SUFFICES ASSUME NEW C \in SUBSET Slots, a # NoSlot => a \in C,
                      \A u \in C : other[u] # NoSlot => other[u] \in C
               PROVE  s \in C
    BY <1>1, <1>4 DEF Reach
  <2>1. /\ C \cap R \in SUBSET Slots /\ (a # NoSlot => a \in C \cap R)
        /\ \A u \in C \cap R : links[u] # NoSlot => links[u] \in C \cap R
    <3> HIDE DEF R
    <3> QED BY <1>1, <1>2 DEF R
  <2>2. s \in C \cap R
    BY <1>4, <2>1 DEF Reach
  <2> QED BY <2>2
<1> QED BY <1>3, <1>4

\* A walk begins with all slots that hold packets ...
LEMMA WalkBegins ==
  ASSUME NoSlotAssumption, PlaneInv, QosPops
  PROVE  slot' = slot /\ ToServe' = {s \in Slots : slot[s] # <<>>}
<1>1. slot' = slot /\ next' = next /\ slot_obj' = slot_head
  BY DEF QosPops, QosPopBegins, listVars
<1>2. ToServe' = Reach(next, slot_head)
  BY <1>1 DEF ToServe, Reach
<1>3. Reach(next, slot_head) = Listed
  <2>1. ASSUME NEW C \in SUBSET Slots
        PROVE  (\A u \in C : next[u] # NoSlot => next[u] \in C)
               <=> (\A u \in C, v \in Slots : Leads(u, v) => v \in C)
    <3>1. \A u \in C : next[u] \in Slots \cup {NoSlot}
      BY DEF PlaneInv, TypeOK, QosTypeOK
    <3> QED BY <3>1, NoSlotAssumption DEF Leads
  <2> QED BY <2>1 DEF Reach, Listed
<1>4. \A s \in Slots : s \in Listed <=> slot[s] # <<>>
  BY UsedIsListed DEF PlaneInv, ListInv, Linked
<1>5. Listed \subseteq Slots
  BY DEF Listed
<1> QED BY <1>1, <1>2, <1>3, <1>4, <1>5

\* ... a turn of it takes a packet from one of them, which it does not come
\* to again ...
LEMMA WalkServes ==
  ASSUME NoSlotAssumption, PlaneInv, Popping, PopFrom
  PROVE  /\ slot_obj \in ToServe /\ slot[slot_obj] # <<>>
         /\ ToServe' = ToServe \ {slot_obj}
         /\ slot' = [slot EXCEPT ![slot_obj] = Tail(@)]
<1>1. /\ slot_obj \in Slots /\ slot[slot_obj] # <<>> /\ slot_first = slot_head
      /\ next \in [Slots -> Slots \cup {NoSlot}] /\ next[slot_obj] \in Slots \cup {NoSlot}
  BY PopNonEmpty DEF PlaneInv, TypeOK, QosTypeOK
<1>2. PICK rank \in [Slots -> Int] : Descends(rank)
  BY DEF PlaneInv, ListInv, Ranked
<1> DEFINE Rest == Reach(next, next[slot_obj])
<1>3. ASSUME NEW s \in Rest PROVE s \in Slots /\ rank[s] < rank[slot_obj]
  BY <1>1, <1>2, <1>3, ReachBelow DEF Descends
<1>4. ToServe = {slot_obj} \cup Rest /\ slot_obj \notin Rest
  <2>1. ToServe = {slot_obj} \cup Rest
    BY <1>1, ReachStep DEF ToServe
  <2>2. rank[slot_obj] \in Int
    BY <1>1
  <2> HIDE DEF Rest
  <2> QED BY <1>3, <2>1, <2>2
<1>5. slot_obj' = next[slot_obj] /\ next' \in [Slots -> Slots \cup {NoSlot}]
  BY <1>1 DEF PopFrom, KeepSlot, UnlinkInner, UnlinkFirst
<1>6. ASSUME NEW u \in Rest PROVE next'[u] = next[u]
  <2>1. u \in Slots /\ rank[u] < rank[slot_obj] /\ rank[u] \in Int /\ rank[slot_obj] \in Int
    BY <1>1, <1>3, <1>6
  <2>2. u # slot_obj
    BY <2>1
  <2>3. CASE KeepSlot
    BY <2>3 DEF KeepSlot
  <2>4. CASE UnlinkFirst
    BY <1>1, <2>1, <2>2, <2>4 DEF UnlinkFirst
  <2>5. CASE slot_obj # slot_first /\ UnlinkInner
    <3>1. slot_old \in Slots /\ next[slot_old] = slot_obj
      BY <1>1, <2>5 DEF PlaneInv, CursorOK, Popping
    <3>2. rank[slot_obj] < rank[slot_old]
      BY <1>1, <1>2, <3>1, NoSlotAssumption DEF Descends
    <3>3. u # slot_old
      BY <2>1, <3>1, <3>2
    <3>4. next' = [next EXCEPT ![slot_old] = next[slot_obj], ![slot_obj] = NoSlot]
      BY <2>5 DEF UnlinkInner
    <3> QED BY <1>1, <2>1, <2>2, <3>1, <3>3, <3>4
  <2> QED BY <2>3, <2>4, <2>5 DEF PopFrom
<1>7. ToServe' = Rest
  <2>1. ToServe' = Reach(next', next[slot_obj])
    BY <1>5 DEF ToServe, Reach
  <2>2. Reach(next', next[slot_obj]) = Reach(next, next[slot_obj])
    BY <1>1, <1>5, <1>6, ReachSame
  <2> QED BY <2>1, <2>2
<1>8. slot' = [slot EXCEPT ![slot_obj] = Tail(@)]
  BY DEF PopFrom
<1> HIDE DEF Rest
<1> QED BY <1>1, <1>4, <1>7, <1>8

\* ... and the calls it makes leave the rest of it alone.
LEMMA WalkWaits ==
  ASSUME Call \/ UNCHANGED vars
  PROVE  phase' = phase /\ slot' = slot /\ ToServe' = ToServe
<1>1. UNCHANGED <<phase, slot, next, slot_obj>>
  BY DEF Call, TxWrite, TxEnds, AskSend, AskNoMbuf, HeldDone, vars, qosVars, planeVars,
         listVars, cursorVars
<1> QED BY <1>1 DEF ToServe, Reach

LEMMA WalkNext ==
  ASSUME NoSlotAssumption, PlaneInv, [Next]_vars PROVE WalkStep
<1>1. CASE Call \/ UNCHANGED vars
  BY <1>1, WalkWaits DEF WalkStep
<1>2. CASE QosPops
  <2>1. phase = "sendable" /\ phase' = "pop"
    BY <1>2 DEF QosPops
  <2> QED BY <1>2, <2>1, WalkBegins DEF WalkStep
<1>3. CASE PopForward \/ PopDrop \/ PopAsk
  <2>1. Popping /\ PopFrom /\ phase = "pop" /\ phase' = "pop"
    BY <1>3 DEF PopForward, PopDrop, PopAsk, Popping, planeVars
  <2> QED BY <2>1, WalkServes DEF WalkStep
<1>4. CASE PopEnds
  <2>1. phase = "pop" /\ phase' = "qos" /\ slot' = slot /\ slot_obj = NoSlot
    BY <1>4 DEF PopEnds, qosVars, listVars
  <2>2. ToServe = {}
    BY <2>1, ReachNone DEF ToServe
  <2> QED BY <2>1, <2>2 DEF WalkStep
<1>5. CASE \/ \E ready \in [Fds -> SUBSET {"r", "w"}] : Wait(ready)
           \/ \E d \in Fds : Readable(d) \/ Writable(d)
           \/ IoEnds \/ Receive \/ QosTry \/ QosStops
           \/ \E f \in Firsts : SetExpress(f)
  <2>1. phase # "pop" /\ phase' # "pop"
    BY <1>5 DEF Wait, Readable, Writable, IoEnds, Receive, RxGet, RxEnds, RxEmpty, RxConsume,
                RxQueue, RxForward, RxAsk, QosTry, QosStops, SetExpress
  <2> QED BY <2>1 DEF WalkStep
<1> QED BY <1>1, <1>2, <1>3, <1>4, <1>5 DEF Next, Loop, Turn

\* A walk of ixc_qos_pop serves each slot that held packets at its start
\* once, and no other: however the list changes under it, no slot is left
\* out or served twice.
THEOREM PlaneWalkServesEach == Spec => WalkServesEach
<1>1. PlaneInv /\ [Next]_vars => WalkStep
  BY WalkNext, NoSlotAssumption
<1>2. Spec => [][WalkStep]_vars
  BY <1>1, PlaneInvAlways, PTL DEF Spec
<1> QED BY <1>2 DEF WalkServesEach

-----------------------------------------------------------------------------
(* The transmit queues *)

\* How many calls of ixc_netif_tx_data the packet at position i of a queue
\* waits for at most: the first may only set the flag, each other one writes
\* or drops a packet.
TriesLeft(flag, i) == 2 * i - (IF flag = "FAIL" THEN 1 ELSE 0)

DrainStep ==
  \A d \in Fds : \A i \in DOMAIN sent[d], j \in DOMAIN sent'[d] :
    sent'[d][j] = sent[d][i] =>
      /\ TriesLeft(write_flags'[d], j) <= TriesLeft(write_flags[d], i)
      /\ tx = d /\ (moved' \/ tx' # d) /\ ~moved =>
           TriesLeft(write_flags'[d], j) < TriesLeft(write_flags[d], i)

\* A card that takes nothing does not keep the buffers (the safety half of
\* WanDrains, for every interface): nothing ever puts a packet back, and
\* each call of ixc_netif_tx_data brings each packet of its queue nearer to
\* being written or dropped, at the first write or else at the end.
QueuesDrain == [][DrainStep]_vars

\* A call that has written something has set the flag.
MovedOK == moved => tx \in Fds /\ write_flags[tx] = "OK"

\* What a step may do to the transmit side.
Idles == UNCHANGED <<sent, write_flags, tx, moved>>
Calls == tx = NoFd /\ moved' = FALSE /\ UNCHANGED <<sent, write_flags>>
Sends == tx = NoFd /\ \E d \in Fds, m \in Mbufs : NetifSend(d, m)
Ends  == \E failed \in BOOLEAN : WriteEnds(failed)

LEMMA TransmitCases ==
  ASSUME NoSlotAssumption, FlowAssumption, PlaneInv, [Next]_vars
  PROVE  Idles \/ Calls \/ Sends \/ Write \/ Ends
<1>1. CASE Call
  BY <1>1 DEF Call, TxWrite, TxEnds, AskSend, AskNoMbuf, HeldDone, Idles, Sends, Ends,
              PlaneInv, TypeOK
<1>2. CASE \/ \E ready \in [Fds -> SUBSET {"r", "w"}] : Wait(ready)
           \/ \E d \in Fds : Readable(d)
           \/ IoEnds \/ QosPops \/ QosStops \/ PopDrop \/ PopAsk \/ PopEnds
           \/ \E f \in Firsts : SetExpress(f)
           \/ UNCHANGED vars
  BY <1>2 DEF Wait, Readable, IoEnds, QosPops, QosStops, PopDrop, PopAsk, PopEnds, SetExpress,
              Quiet, Idles, vars, netifVars
<1>3. CASE QosTry \/ \E d \in Fds : Writable(d)
  BY <1>3 DEF QosTry, Writable, Back, TxCall, Calls
<1>4. CASE Receive
  <2>1. CASE \E f \in Flows : RxForward(f)
    <3>1. PICK f \in Flows : RxForward(f)
      BY <2>1
    <3>2. tx = NoFd /\ Out[f] \in Fds /\ hand \in Mbufs /\ NetifSend(Out[f], hand)
      BY <3>1, FlowAssumption DEF RxForward, Back, PlaneInv, TypeOK
    <3> QED BY <3>2 DEF Sends
  <2>2. CASE ~\E f \in Flows : RxForward(f)
    BY <1>4, <2>2 DEF Receive, RxGet, RxEnds, RxEmpty, RxConsume, RxQueue, RxAsk, Quiet, Idles
  <2> QED BY <2>1, <2>2
<1>5. CASE PopForward
  <2> DEFINE d == Out[tag[Popped][1]]
  <2>1. Popping /\ NetifSend(d, Popped) /\ tx = NoFd
    BY <1>5 DEF PopForward, Popping, Back
  <2>2. slot_obj \in Slots /\ 1 \in DOMAIN slot[slot_obj] /\ Popped = slot[slot_obj][1] /\ Popped \in Mbufs
    BY <2>1, PopNonEmpty DEF PlaneInv
  <2>3. d \in Fds
    BY <2>2, FlowAssumption DEF PlaneInv, SlotsTagged
  <2> HIDE DEF d
  <2> QED BY <2>1, <2>2, <2>3 DEF Sends
<1> QED BY <1>1, <1>2, <1>3, <1>4, <1>5 DEF Next, Loop, Turn

LEMMA MovedOKNext ==
  ASSUME NoFdAssumption, PlaneInv, MovedOK, Idles \/ Calls \/ Sends \/ Write \/ Ends
  PROVE  MovedOK'
<1>1. CASE Write
  BY <1>1 DEF Write, MovedOK, PlaneInv, TypeOK, NetifTypeOK
<1>2. CASE Idles
  BY <1>2 DEF Idles, MovedOK
<1>3. CASE Calls \/ Sends \/ Ends
  BY <1>3 DEF Calls, Sends, Ends, NetifSend, TxCall, WriteEnds, MovedOK
<1> QED BY <1>1, <1>2, <1>3

\* A packet that stays in a queue that loses its first moves up by one.
LEMMA MovesUp ==
  ASSUME NEW q \in Seq(Mbufs), Distinct(q), q # <<>>,
         NEW i \in DOMAIN q, NEW j \in DOMAIN Tail(q), Tail(q)[j] = q[i]
  PROVE  i \in Nat /\ j \in Nat /\ i = j + 1
<1>1. j + 1 \in DOMAIN q /\ Tail(q)[j] = q[j + 1] /\ j \in Nat
  BY TailFacts
<1> QED BY <1>1 DEF Distinct

LEMMA DrainNext ==
  ASSUME NoFdAssumption, PlaneInv, MovedOK, MbufConserved, MbufConserved',
         Idles \/ Calls \/ Sends \/ Write \/ Ends
  PROVE  DrainStep
<1> SUFFICES ASSUME NEW d \in Fds, NEW i \in DOMAIN sent[d], NEW j \in DOMAIN sent'[d],
                    sent'[d][j] = sent[d][i]
             PROVE  /\ TriesLeft(write_flags'[d], j) <= TriesLeft(write_flags[d], i)
                    /\ tx = d /\ (moved' \/ tx' # d) /\ ~moved =>
                         TriesLeft(write_flags'[d], j) < TriesLeft(write_flags[d], i)
  BY DEF DrainStep
<1>1. /\ sent[d] \in Seq(Mbufs) /\ Distinct(sent[d]) /\ sent[d] # <<>> /\ i \in Nat
      /\ write_flags \in [Fds -> {"OK", "FAIL"}] /\ sent \in [Fds -> Seq(Mbufs)]
  BY DEF PlaneInv, TypeOK, NetifTypeOK, MbufConserved
<1>2. ASSUME sent'[d] = sent[d] PROVE i = j
  BY <1>1, <1>2 DEF Distinct
<1>3. CASE Idles
  BY <1>1, <1>2, <1>3 DEF Idles, TriesLeft
<1>4. CASE Calls
  BY <1>1, <1>2, <1>4, NoFdAssumption DEF Calls, TriesLeft
<1>5. CASE Sends
  <2>1. PICK c \in Fds, m \in Mbufs : tx = NoFd /\ NetifSend(c, m)
    BY <1>5 DEF Sends
  <2>2. sent'[d] = sent[d] \/ sent'[d] = Append(sent[d], m)
    BY <1>1, <2>1 DEF NetifSend
  <2>3. Distinct(sent'[d])
    BY DEF MbufConserved
  <2>4. i \in DOMAIN sent'[d] /\ sent'[d][i] = sent[d][i]
    BY <1>1, <2>2, AppendFacts
  <2>5. i = j
    BY <2>3, <2>4 DEF Distinct
  <2>6. write_flags' = write_flags /\ tx # d
    BY <2>1, NoFdAssumption DEF NetifSend
  <2> QED BY <1>1, <2>5, <2>6 DEF TriesLeft
<1>6. CASE Write
  <2>1. CASE tx = d
    <3>1. sent'[d] = Tail(sent[d]) /\ write_flags'[d] = "OK"
      BY <1>1, <1>6, <2>1 DEF Write
    <3>2. i = j + 1 /\ j \in Nat
      BY <1>1, <3>1, MovesUp
    <3> QED BY <3>1, <3>2 DEF TriesLeft
  <2>2. CASE tx # d
    <3>1. sent'[d] = sent[d] /\ write_flags'[d] = write_flags[d]
      BY <1>1, <1>6, <2>2 DEF Write
    <3> QED BY <1>1, <1>2, <2>2, <3>1 DEF TriesLeft
  <2> QED BY <2>1, <2>2
<1>7. CASE Ends
  <2>1. PICK failed \in BOOLEAN : WriteEnds(failed)
    BY <1>7 DEF Ends
  <2>2. CASE tx # d
    <3>1. sent'[d] = sent[d] /\ write_flags'[d] = write_flags[d]
      BY <1>1, <2>1, <2>2 DEF WriteEnds
    <3> QED BY <1>1, <1>2, <2>2, <3>1 DEF TriesLeft
  <2>3. CASE tx = d /\ Drops
    <3>1. sent'[d] = Tail(sent[d]) /\ write_flags[d] = "FAIL" /\ ~moved
      BY <1>1, <2>1, <2>3 DEF WriteEnds, Drops, Left, MovedOK
    <3>2. write_flags'[d] = "FAIL"
      BY <1>1, <2>1, <2>3, <3>1 DEF WriteEnds
    <3>3. i = j + 1 /\ j \in Nat
      BY <1>1, <3>1, MovesUp
    <3> QED BY <3>1, <3>2, <3>3 DEF TriesLeft
  <2>4. CASE tx = d /\ ~Drops
    <3>1. sent'[d] = sent[d] /\ write_flags[d] = "OK"
      BY <1>1, <2>1, <2>4 DEF WriteEnds, Drops, Left
    <3>2. write_flags'[d] = IF moved THEN "OK" ELSE "FAIL"
      BY <1>1, <2>1, <2>4, <3>1 DEF WriteEnds
    <3> QED BY <1>1, <1>2, <3>1, <3>2 DEF TriesLeft
  <2> QED BY <2>2, <2>3, <2>4
<1> QED BY <1>3, <1>4, <1>5, <1>6, <1>7

\* A packet that waits at position i of the queue of an interface is gone
\* after 2i calls of ixc_netif_tx_data, whatever the device answers and
\* whatever is queued behind it (netif.c:400).
THEOREM PlaneQueuesDrain == Spec => QueuesDrain
<1>1. Init => MovedOK
  BY DEF Init, NetifInit, MovedOK
<1>2. PlaneInv /\ MovedOK /\ [Next]_vars => MovedOK'
  BY TransmitCases, MovedOKNext, NoSlotAssumption, NoFdAssumption, FlowAssumption
<1>3. Spec => []MovedOK
  BY <1>1, <1>2, PlaneInvAlways, PTL DEF Spec
<1>4. PlaneInv /\ MovedOK /\ MbufConserved /\ MbufConserved' /\ [Next]_vars => DrainStep
  BY TransmitCases, DrainNext, NoSlotAssumption, NoFdAssumption, FlowAssumption
<1>5. Spec => [][DrainStep]_vars
  BY <1>3, <1>4, PlaneInvAlways, PlaneMbufConserved, PTL DEF Spec
<1> QED BY <1>5 DEF QueuesDrain
=============================================================================
