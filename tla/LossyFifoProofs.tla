--------------------------- MODULE LossyFifoProofs ---------------------------
(***************************************************************************)
(* The order of the streams, proved for any number of interfaces, slots,   *)
(* flows and buffers: DataPlane implements LossyFifo.                      *)
(*                                                                         *)
(* A step changes the streams in one of five ways: a packet is appended to *)
(* a transmit queue or to a slot, the first packet leaves the one or the   *)
(* other, or it goes from its slot to the end of the queue of its flow.    *)
(* That the last one changes nothing for the stream, and that appending    *)
(* never touches a packet of another stream, needs to know where a packet  *)
(* with a tag can be.                                                      *)
(***************************************************************************)
EXTENDS DataPlaneProofs

\* A slot holds packets of flows that hash to it.
SlotsFit ==
  \A s \in Slots : \A m \in InSlot(s) :
    tag[m][1] \in Flows /\ tag[m][2] = "queued" /\ SlotOf[tag[m][1]] = s

Placed(m) == (\E d \in Fds : m \in InQueue(d)) \/ (\E s \in Slots : m \in InSlot(s))

\* What is neither in a transmit queue nor in a slot belongs to no stream.
TagsPlaced ==
  \A m \in Mbufs : tag[m] # NoLane => Placed(m)

FifoInv == PlaneInv /\ SlotsFit /\ TagsPlaced

-----------------------------------------------------------------------------
(* Queues: who is in them and who is before whom *)

LEMMA BeforeFacts ==
  ASSUME NEW q, NEW a, NEW b, Before(q, a, b)
  PROVE  a \in Elems(q) /\ b \in Elems(q)
BY DEF Before, Elems

LEMMA TailElems ==
  ASSUME NEW S, NEW q \in Seq(S), q # <<>>, Distinct(q)
  PROVE  /\ Elems(q) = Elems(Tail(q)) \cup {Head(q)}
         /\ Head(q) \notin Elems(Tail(q)) /\ Distinct(Tail(q))
<1>1. /\ Head(q) = q[1] /\ 1 \in DOMAIN q /\ DOMAIN q \subseteq Nat \ {0}
      /\ \A i \in DOMAIN Tail(q) : i + 1 \in DOMAIN q /\ Tail(q)[i] = q[i + 1]
      /\ \A i \in DOMAIN q : i = 1 \/ (i - 1 \in DOMAIN Tail(q) /\ Tail(q)[i - 1] = q[i])
      /\ DOMAIN Tail(q) \subseteq Nat \ {0}
  <2>1. DOMAIN q = 1..Len(q) /\ Len(q) \in Nat
    OBVIOUS
  <2> QED BY <2>1, TailFacts
<1>2. ASSUME NEW i \in DOMAIN Tail(q) PROVE Tail(q)[i] \in Elems(q) /\ Tail(q)[i] # Head(q)
  <2>1. i + 1 \in DOMAIN q /\ Tail(q)[i] = q[i + 1] /\ i + 1 # 1
    BY <1>1
  <2> QED BY <1>1, <2>1 DEF Elems, Distinct
<1>3. ASSUME NEW i \in DOMAIN q, q[i] # Head(q) PROVE q[i] \in Elems(Tail(q))
  BY <1>1, <1>3 DEF Elems
<1>4. Head(q) \in Elems(q)
  BY <1>1 DEF Elems
<1>5. Elems(Tail(q)) \subseteq Elems(q) /\ Head(q) \notin Elems(Tail(q))
  BY <1>2 DEF Elems
<1>6. Elems(q) \subseteq Elems(Tail(q)) \cup {Head(q)}
  BY <1>3 DEF Elems
<1>7. Distinct(Tail(q))
  <2> SUFFICES ASSUME NEW i \in DOMAIN Tail(q), NEW j \in DOMAIN Tail(q), Tail(q)[i] = Tail(q)[j]
               PROVE  i = j
    BY DEF Distinct
  <2>1. i + 1 = j + 1
    BY <1>1 DEF Distinct
  <2> QED BY <2>1, <1>1
<1> QED BY <1>4, <1>5, <1>6, <1>7

\* Taking the first keeps the order of the others, and nobody is before it.
LEMMA TailBefore ==
  ASSUME NEW S, NEW q \in Seq(S), q # <<>>, Distinct(q)
  PROVE  /\ \A a, b : Before(Tail(q), a, b) <=> Before(q, a, b) /\ a # Head(q) /\ b # Head(q)
         /\ \A a : ~Before(q, a, Head(q))
<1>1. /\ Head(q) = q[1] /\ 1 \in DOMAIN q /\ DOMAIN q \subseteq Nat \ {0}
      /\ \A i \in DOMAIN Tail(q) : i + 1 \in DOMAIN q /\ Tail(q)[i] = q[i + 1]
      /\ \A i \in DOMAIN q : i = 1 \/ (i - 1 \in DOMAIN Tail(q) /\ Tail(q)[i - 1] = q[i])
      /\ DOMAIN Tail(q) \subseteq Nat \ {0}
  <2>1. DOMAIN q = 1..Len(q) /\ Len(q) \in Nat
    OBVIOUS
  <2> QED BY <2>1, TailFacts
<1>2. ASSUME NEW a, NEW b, Before(Tail(q), a, b)
      PROVE  Before(q, a, b) /\ a # Head(q) /\ b # Head(q)
  <2>1. PICK i \in DOMAIN Tail(q), j \in DOMAIN Tail(q) : i < j /\ Tail(q)[i] = a /\ Tail(q)[j] = b
    BY <1>2 DEF Before
  <2>2. i + 1 \in DOMAIN q /\ q[i + 1] = a /\ j + 1 \in DOMAIN q /\ q[j + 1] = b /\ i + 1 < j + 1
    BY <1>1, <2>1
  <2>3. a \in Elems(Tail(q)) /\ b \in Elems(Tail(q))
    BY <1>2, BeforeFacts
  <2> QED BY <2>2, <2>3, TailElems DEF Before
<1>3. ASSUME NEW a, NEW b, Before(q, a, b), a # Head(q) PROVE Before(Tail(q), a, b)
  <2>1. PICK i \in DOMAIN q, j \in DOMAIN q : i < j /\ q[i] = a /\ q[j] = b
    BY <1>3 DEF Before
  <2>2. i # 1 /\ j # 1
    BY <1>1, <1>3, <2>1
  <2>3. i - 1 \in DOMAIN Tail(q) /\ j - 1 \in DOMAIN Tail(q) /\ i - 1 < j - 1
    BY <1>1, <2>1, <2>2
  <2>4. Tail(q)[i - 1] = a /\ Tail(q)[j - 1] = b
    BY <1>1, <2>1, <2>2
  <2> QED BY <2>3, <2>4 DEF Before
<1>4. ASSUME NEW a PROVE ~Before(q, a, Head(q))
  <2> SUFFICES ASSUME NEW i \in DOMAIN q, NEW j \in DOMAIN q, i < j, q[j] = Head(q) PROVE FALSE
    BY DEF Before
  <2>1. j = 1
    BY <1>1 DEF Distinct
  <2> QED BY <2>1, <1>1
<1> QED BY <1>2, <1>3, <1>4

\* The first is before all the others.
LEMMA HeadBefore ==
  ASSUME NEW S, NEW q \in Seq(S), q # <<>>, Distinct(q)
  PROVE  \A b : Before(q, Head(q), b) <=> b \in Elems(Tail(q))
<1>1. /\ Head(q) = q[1] /\ 1 \in DOMAIN q
      /\ \A i \in DOMAIN Tail(q) : i + 1 \in DOMAIN q /\ Tail(q)[i] = q[i + 1]
      /\ DOMAIN Tail(q) \subseteq Nat \ {0}
  BY TailFacts
<1>2. ASSUME NEW b, Before(q, Head(q), b) PROVE b \in Elems(Tail(q))
  <2>1. b \in Elems(q)
    BY <1>2, BeforeFacts
  <2>2. b # Head(q)
    BY <1>2, TailBefore
  <2> QED BY <2>1, <2>2, TailElems
<1>3. ASSUME NEW b \in Elems(Tail(q)) PROVE Before(q, Head(q), b)
  <2>1. PICK i \in DOMAIN Tail(q) : Tail(q)[i] = b
    BY DEF Elems
  <2>2. i + 1 \in DOMAIN q /\ q[i + 1] = b /\ 1 < i + 1
    BY <1>1, <2>1
  <2> QED BY <1>1, <2>2 DEF Before
<1> QED BY <1>2, <1>3

\* The packet that is appended comes after all the others.
LEMMA AppendElems ==
  ASSUME NEW S, NEW q \in Seq(S), NEW m \in S
  PROVE  Elems(Append(q, m)) = Elems(q) \cup {m}
<1>1. /\ \A i \in DOMAIN Append(q, m) : i \in DOMAIN q \/ i = Len(q) + 1
      /\ Len(q) + 1 \in DOMAIN Append(q, m) /\ Append(q, m)[Len(q) + 1] = m
      /\ \A i \in DOMAIN q : i \in DOMAIN Append(q, m) /\ Append(q, m)[i] = q[i]
  BY AppendFacts
<1> QED BY <1>1 DEF Elems

LEMMA AppendBefore ==
  ASSUME NEW S, NEW q \in Seq(S), NEW m \in S, m \notin Elems(q)
  PROVE  \A a, b : Before(Append(q, m), a, b) <=> Before(q, a, b) \/ (a \in Elems(q) /\ b = m)
<1> DEFINE last == Len(q) + 1
<1>1. /\ \A i \in DOMAIN Append(q, m) : i \in DOMAIN q \/ i = last
      /\ last \in DOMAIN Append(q, m) /\ Append(q, m)[last] = m
      /\ \A i \in DOMAIN q : i \in DOMAIN Append(q, m) /\ Append(q, m)[i] = q[i]
  BY AppendFacts
<1>2. \A i \in DOMAIN q : i \in Nat /\ i < last
  <2>1. DOMAIN q = 1..Len(q) /\ Len(q) \in Nat
    OBVIOUS
  <2> QED BY <2>1
<1>3. last \in Nat
  OBVIOUS
<1> HIDE DEF last
<1>4. ASSUME NEW a, NEW b, Before(Append(q, m), a, b)
      PROVE  Before(q, a, b) \/ (a \in Elems(q) /\ b = m)
  <2>1. PICK i \in DOMAIN Append(q, m), j \in DOMAIN Append(q, m) :
          i < j /\ Append(q, m)[i] = a /\ Append(q, m)[j] = b
    BY <1>4 DEF Before
  <2>2. i \in DOMAIN q
    BY <1>1, <1>2, <1>3, <2>1
  <2>3. CASE j = last
    BY <2>1, <2>2, <2>3, <1>1 DEF Elems
  <2>4. CASE j \in DOMAIN q
    BY <2>1, <2>2, <2>4, <1>1 DEF Before
  <2> QED BY <2>3, <2>4, <1>1
<1>5. ASSUME NEW a, NEW b, Before(q, a, b) PROVE Before(Append(q, m), a, b)
  BY <1>5, <1>1 DEF Before
<1>6. ASSUME NEW a \in Elems(q) PROVE Before(Append(q, m), a, m)
  BY <1>1, <1>2 DEF Before, Elems
<1> QED BY <1>4, <1>5, <1>6

-----------------------------------------------------------------------------
(* Places and streams *)

LEMMA LaneFacts ==
  ASSUME FlowAssumption
  PROVE  /\ NoLane \notin Lanes
         /\ \A l \in Lanes : /\ l[1] \in Flows /\ l[2] \in {"queued", "direct"}
                             /\ l = <<l[1], l[2]>>
                             /\ Out[l[1]] \in Fds /\ SlotOf[l[1]] \in Slots
BY DEF FlowAssumption, Lanes, NoLane

\* What the conservation of the buffers says of queues and slots.
LEMMA PlacesApart ==
  ASSUME TypeOK, MbufConserved
  PROVE  /\ \A d \in Fds : sent[d] \in Seq(Mbufs) /\ Distinct(sent[d])
                           /\ InQueue(d) = Elems(sent[d]) /\ InQueue(d) \subseteq Mbufs
         /\ \A s \in Slots : slot[s] \in Seq(Mbufs) /\ Distinct(slot[s])
                             /\ InSlot(s) = Elems(slot[s]) /\ InSlot(s) \subseteq Mbufs
         /\ \A c, d \in Fds : c # d => InQueue(c) \cap InQueue(d) = {}
         /\ \A s, t \in Slots : s # t => InSlot(s) \cap InSlot(t) = {}
         /\ \A d \in Fds, s \in Slots : InQueue(d) \cap InSlot(s) = {}
         /\ \A d \in Fds : hand \notin InQueue(d) \/ hand = NoMbuf
         /\ \A s \in Slots : hand \notin InSlot(s) \/ hand = NoMbuf
<1>1. \A d \in Fds : sent[d] \in Seq(Mbufs) /\ InQueue(d) \subseteq Mbufs
  BY DEF TypeOK, NetifTypeOK, InQueue
<1>2. \A s \in Slots : slot[s] \in Seq(Mbufs) /\ InSlot(s) \subseteq Mbufs
  BY DEF TypeOK, QosTypeOK, InSlot
<1>3. /\ \A d \in Fds : InQueue(d) = Elems(sent[d])
      /\ \A s \in Slots : InSlot(s) = Elems(slot[s])
  BY DEF InQueue, InSlot, Elems
<1>4. /\ \A d \in Fds : Distinct(sent[d])
      /\ \A c, d \in Fds : c # d => InQueue(c) \cap InQueue(d) = {}
      /\ \A s \in Slots : Distinct(slot[s])
      /\ \A s, t \in Slots : s # t => InSlot(s) \cap InSlot(t) = {}
  BY DEF MbufConserved
<1>5. /\ \A d \in Fds, s \in Slots : InQueue(d) \cap InSlot(s) = {}
      /\ \A d \in Fds : hand \notin InQueue(d) \/ hand = NoMbuf
      /\ \A s \in Slots : hand \notin InSlot(s) \/ hand = NoMbuf
  BY DEF MbufConserved
<1> QED BY <1>1, <1>2, <1>3, <1>4, <1>5

\* A buffer from ixc_mbuf_get is nowhere.
LEMMA GotApart ==
  ASSUME MbufConserved, NEW m \in Mbufs, MbufGet(m)
  PROVE  /\ \A d \in Fds : m \notin InQueue(d)
         /\ \A s \in Slots : m \notin InSlot(s)
<1>1. m \in pool \/ m \notin heap
  BY DEF MbufGet
<1>2. /\ \A d \in Fds : InQueue(d) \subseteq heap \ pool
      /\ \A s \in Slots : InSlot(s) \subseteq heap \ pool
  BY DEF MbufConserved
<1> QED BY <1>1, <1>2

LEMMA LaneMember ==
  \A l, p : p \in LaneOf(l) <=>
    /\ tag[p] = l
    /\ p \in InQueue(Out[l[1]]) \/ (l[2] = "queued" /\ p \in InSlot(SlotOf[l[1]]))
BY DEF LaneOf, Way

LEMMA OlderMember ==
  \A x : x \in Older <=>
    \E l \in Lanes : x \in LaneOf(l) \X LaneOf(l) /\ Ahead(l, x[1], x[2])
BY DEF Older

\* A packet leaves its stream; the others keep their order.
Gone(p) ==
  \A l \in Lanes :
    /\ LaneOf(l)' = LaneOf(l) \ {p}
    /\ \A a, b \in LaneOf(l)' : Ahead(l, a, b)' <=> Ahead(l, a, b)

\* A packet comes after the others of stream l.
Comes(l, p) ==
  /\ \A k \in Lanes : p \notin LaneOf(k)
  /\ LaneOf(l)' = LaneOf(l) \cup {p}
  /\ \A k \in Lanes \ {l} : LaneOf(k)' = LaneOf(k)
  /\ \A k \in Lanes : \A a, b \in LaneOf(k) : Ahead(k, a, b)' <=> Ahead(k, a, b)
  /\ \A a \in LaneOf(l) : Ahead(l, a, p)' /\ ~Ahead(l, p, a)'
  /\ ~Ahead(l, p, p)'

LaneMap == [l \in Lanes |-> LaneOf(l)]

\* Nothing changes for the streams.
Steady ==
  \A l \in Lanes :
    /\ LaneOf(l)' = LaneOf(l)
    /\ \A a, b \in LaneOf(l) : Ahead(l, a, b)' <=> Ahead(l, a, b)

LEMMA SteadyStreams ==
  ASSUME Steady PROVE UNCHANGED <<LaneMap, Older>>
<1>1. \A x : x \in Older' <=>
        \E l \in Lanes : x \in LaneOf(l)' \X LaneOf(l)' /\ Ahead(l, x[1], x[2])'
  BY DEF Older
<1>2. ASSUME NEW x, NEW l \in Lanes
      PROVE  x \in LaneOf(l)' \X LaneOf(l)' /\ Ahead(l, x[1], x[2])' <=>
             x \in LaneOf(l) \X LaneOf(l) /\ Ahead(l, x[1], x[2])
  BY DEF Steady
<1>3. \A x : x \in Older' <=> x \in Older
  BY <1>1, <1>2, OlderMember
<1>4. Older' = Older
  BY <1>3 DEF Older
<1>5. LaneMap' = LaneMap
  BY DEF Steady, LaneMap
<1> QED BY <1>4, <1>5

LEMMA GoneStreams ==
  ASSUME NEW p, Gone(p)
  PROVE  /\ \A l \in Lanes : p \in LaneOf(l) => Streams!Leave(l, p)
         /\ (\A l \in Lanes : p \notin LaneOf(l)) => UNCHANGED <<LaneMap, Older>>
<1>1. Older' = {x \in Older : p \notin {x[1], x[2]}}
  <2>1. \A x : x \in Older' <=>
          \E l \in Lanes : x \in LaneOf(l)' \X LaneOf(l)' /\ Ahead(l, x[1], x[2])'
    BY DEF Older
  <2>2. ASSUME NEW x PROVE x \in Older' <=> x \in Older /\ p \notin {x[1], x[2]}
    <3>1. ASSUME NEW l \in Lanes
          PROVE  x \in LaneOf(l)' \X LaneOf(l)' /\ Ahead(l, x[1], x[2])' <=>
                 (x \in LaneOf(l) \X LaneOf(l) /\ Ahead(l, x[1], x[2])) /\ p \notin {x[1], x[2]}
      BY DEF Gone
    <3> QED BY <2>1, <3>1, OlderMember
  <2> QED BY <2>2
<1>2. ASSUME NEW l \in Lanes, p \in LaneOf(l) PROVE Streams!Leave(l, p)
  <2>1. LaneMap' = [LaneMap EXCEPT ![l] = @ \ {p}]
    <3>1. ASSUME NEW k \in Lanes PROVE LaneOf(k)' = IF k = l THEN LaneOf(l) \ {p} ELSE LaneOf(k)
      <4>1. k # l => p \notin LaneOf(k)
        BY <1>2, LaneMember
      <4> QED BY <4>1 DEF Gone
    <3> QED BY <3>1 DEF LaneMap
  <2> QED BY <1>1, <1>2, <2>1 DEF Streams!Leave, LaneMap
<1>3. ASSUME \A l \in Lanes : p \notin LaneOf(l) PROVE UNCHANGED <<LaneMap, Older>>
  <2>1. \A l \in Lanes : LaneOf(l)' = LaneOf(l)
    BY <1>3 DEF Gone
  <2>2. LaneMap' = LaneMap
    BY <2>1 DEF LaneMap
  <2>3. \A x \in Older : p \notin {x[1], x[2]}
    BY <1>3, OlderMember
  <2> QED BY <1>1, <2>2, <2>3
<1> QED BY <1>2, <1>3

LEMMA ComesStreams ==
  ASSUME NEW l \in Lanes, NEW p, Comes(l, p), wire' = NoMbuf
  PROVE  Streams!Admit(l, p)
<1>1. Older' = Older \cup (LaneOf(l) \X {p})
  <2>1. \A x : x \in Older' <=>
          \E k \in Lanes : x \in LaneOf(k)' \X LaneOf(k)' /\ Ahead(k, x[1], x[2])'
    BY DEF Older
  <2>2. ASSUME NEW x, NEW k \in Lanes
        PROVE  x \in LaneOf(k)' \X LaneOf(k)' /\ Ahead(k, x[1], x[2])' <=>
               \/ x \in LaneOf(k) \X LaneOf(k) /\ Ahead(k, x[1], x[2])
               \/ k = l /\ x \in LaneOf(l) \X {p}
    <3>1. CASE k # l
      <4>1. LaneOf(k)' = LaneOf(k)
        BY <3>1 DEF Comes
      <4> QED BY <3>1, <4>1 DEF Comes
    <3>2. CASE k = l
      <4>1. LaneOf(k)' = LaneOf(k) \cup {p} /\ p \notin LaneOf(k)
        BY <3>2 DEF Comes
      <4>2. CASE x \in LaneOf(k) \X LaneOf(k)
        BY <3>2, <4>1, <4>2 DEF Comes
      <4>3. CASE x \in LaneOf(k) \X {p}
        BY <3>2, <4>1, <4>3 DEF Comes
      <4>4. CASE x \in {p} \X (LaneOf(k) \cup {p})
        BY <3>2, <4>1, <4>4 DEF Comes
      <4> QED BY <3>2, <4>1, <4>2, <4>3, <4>4
    <3> QED BY <3>1, <3>2
  <2> QED BY <2>1, <2>2, OlderMember
<1>2. LaneMap' = [LaneMap EXCEPT ![l] = @ \cup {p}]
  BY DEF LaneMap, Comes
<1>3. \A k \in Lanes : p \notin LaneOf(k)
  BY DEF Comes
<1> QED BY <1>1, <1>2, <1>3 DEF Streams!Admit, Streams!UnderWay, LaneMap

\* A step gives packet m the tag v and may move it.
LEMMA TagsStep ==
  ASSUME TypeOK, SlotsFit, TagsPlaced, NEW m, NEW v,
         \A x \in Mbufs : tag'[x] = IF x = m THEN v ELSE tag[x],
         \A s \in Slots : InSlot(s)' \subseteq InSlot(s) \cup {m},
         \A s \in Slots : InSlot(s)' \subseteq Mbufs,
         \A s \in Slots : m \in InSlot(s)' =>
           v[1] \in Flows /\ v[2] = "queued" /\ SlotOf[v[1]] = s,
         v # NoLane => Placed(m)',
         \A x \in Mbufs : x # m /\ Placed(x) => Placed(x)'
  PROVE  SlotsFit' /\ TagsPlaced'
<1>1. SlotsFit'
  <2> SUFFICES ASSUME NEW s \in Slots, NEW x \in InSlot(s)'
               PROVE  tag'[x][1] \in Flows /\ tag'[x][2] = "queued" /\ SlotOf[tag'[x][1]] = s
    BY DEF SlotsFit
  <2>1. x \in Mbufs
    OBVIOUS
  <2>2. CASE x = m
    BY <2>1, <2>2
  <2>3. CASE x # m
    BY <2>1, <2>3 DEF SlotsFit
  <2> QED BY <2>2, <2>3
<1>2. TagsPlaced'
  <2> SUFFICES ASSUME NEW x \in Mbufs, tag'[x] # NoLane PROVE Placed(x)'
    BY DEF TagsPlaced
  <2> QED BY DEF TagsPlaced
<1> QED BY <1>1, <1>2

-----------------------------------------------------------------------------
(* What moving a packet does to the streams *)

\* The first packet of a transmit queue leaves.
LEMMA QueueLeaves ==
  ASSUME FlowAssumption, TypeOK, MbufConserved, SlotsFit, TagsPlaced,
         NEW d \in Fds, sent[d] # <<>>,
         sent' = [sent EXCEPT ![d] = Tail(@)], slot' = slot,
         tag' = [tag EXCEPT ![Head(sent[d])] = NoLane]
  PROVE  /\ SlotsFit' /\ TagsPlaced'
         /\ Gone(Head(sent[d])) /\ Head(sent[d]) \in InQueue(d)
         /\ \A l \in Lanes : Head(sent[d]) \in LaneOf(l) =>
              \A q \in LaneOf(l) : <<q, Head(sent[d])>> \notin Older
<1> DEFINE h == Head(sent[d])
<1>1. h \in Mbufs /\ h \in InQueue(d)
  BY TailFacts, TailElems, PlacesApart
<1>2. \A m \in Mbufs : tag'[m] = IF m = h THEN NoLane ELSE tag[m]
  BY DEF TypeOK
<1>3. \A c \in Fds : InQueue(c)' = InQueue(c) \ {h}
  <2> SUFFICES ASSUME NEW c \in Fds PROVE Elems(sent'[c]) = Elems(sent[c]) \ {h}
    BY PlacesApart DEF InQueue, Elems
  <2>1. sent'[c] = IF c = d THEN Tail(sent[d]) ELSE sent[c]
    BY DEF TypeOK, NetifTypeOK
  <2>2. CASE c = d
    BY <2>1, <2>2, PlacesApart, TailElems
  <2>3. CASE c # d
    BY <2>1, <2>3, <1>1, PlacesApart
  <2> QED BY <2>2, <2>3
<1>4. \A s \in Slots : InSlot(s)' = InSlot(s) /\ h \notin InSlot(s)
  BY <1>1, PlacesApart DEF InSlot
<1>5. \A c \in Fds : \A a, b : a # h /\ b # h => (Before(sent[c], a, b)' <=> Before(sent[c], a, b))
  <2> SUFFICES ASSUME NEW c \in Fds, NEW a, NEW b, a # h, b # h
               PROVE  Before(sent[c], a, b)' <=> Before(sent[c], a, b)
    OBVIOUS
  <2>0. Before(sent[c], a, b)' <=> Before(sent'[c], a, b)
    BY DEF Before
  <2>1. sent'[c] = IF c = d THEN Tail(sent[d]) ELSE sent[c]
    BY DEF TypeOK, NetifTypeOK
  <2>2. CASE c = d
    BY <2>0, <2>1, <2>2, PlacesApart, TailBefore
  <2> QED BY <2>0, <2>1, <2>2
<1>6. \A q : ~Before(sent[d], q, h)
  BY PlacesApart, TailBefore
<1> HIDE DEF h
<1>7. ASSUME NEW l \in Lanes PROVE LaneOf(l)' = LaneOf(l) \ {h}
  <2>1. LaneOf(l)' = {m \in InQueue(Out[l[1]])' \cup (IF l[2] = "queued" THEN InSlot(SlotOf[l[1]])' ELSE {}) :
                        tag'[m] = l}
    BY DEF LaneOf, Way
  <2>2. InQueue(Out[l[1]]) \subseteq Mbufs /\ InSlot(SlotOf[l[1]]) \subseteq Mbufs
    BY LaneFacts, PlacesApart
  <2> QED BY <2>1, <2>2, <1>1, <1>2, <1>3, <1>4, LaneFacts DEF LaneOf, Way
<1>8. ASSUME NEW l \in Lanes, NEW a \in LaneOf(l)', NEW b \in LaneOf(l)'
      PROVE  Ahead(l, a, b)' <=> Ahead(l, a, b)
  <2>1. a # h /\ b # h
    BY <1>7
  <2>2. \A s \in Slots : Before(slot[s], a, b)' <=> Before(slot[s], a, b)
    BY DEF Before
  <2>3. Before(sent[Out[l[1]]], a, b)' <=> Before(sent[Out[l[1]]], a, b)
    BY <2>1, <1>5, LaneFacts
  <2>4. /\ a \in InQueue(Out[l[1]])' <=> a \in InQueue(Out[l[1]])
        /\ b \in InSlot(SlotOf[l[1]])' <=> b \in InSlot(SlotOf[l[1]])
    BY <2>1, <1>3, <1>4, LaneFacts
  <2>5. Before(slot[SlotOf[l[1]]], a, b)' <=> Before(slot[SlotOf[l[1]]], a, b)
    BY <2>2, LaneFacts
  <2> QED BY <2>3, <2>4, <2>5 DEF Ahead
<1>9. ASSUME NEW l \in Lanes, h \in LaneOf(l), NEW q \in LaneOf(l)
      PROVE  <<q, h>> \notin Older
  <2> SUFFICES ASSUME NEW k \in Lanes, h \in LaneOf(k), Ahead(k, q, h) PROVE FALSE
    BY OlderMember
  <2>1. Out[k[1]] = d
    BY <1>1, <1>4, LaneFacts, LaneMember, PlacesApart
  <2>2. h \notin InSlot(SlotOf[k[1]]) /\ InSlot(SlotOf[k[1]]) = Elems(slot[SlotOf[k[1]]])
    BY <1>4, LaneFacts, PlacesApart
  <2>3. ~Before(slot[SlotOf[k[1]]], q, h)
    BY <2>2, BeforeFacts
  <2> QED BY <2>1, <2>2, <2>3, <1>6 DEF Ahead
<1>10. SlotsFit' /\ TagsPlaced'
  <2>1. \A s \in Slots : InSlot(s)' \subseteq InSlot(s) \cup {h}
    BY <1>1, <1>3, <1>4
  <2>2. \A s \in Slots : InSlot(s)' \subseteq Mbufs
    BY <1>1, <1>3, <1>4, PlacesApart
  <2>3. \A s \in Slots : h \in InSlot(s)' =>
          NoLane[1] \in Flows /\ NoLane[2] = "queued" /\ SlotOf[NoLane[1]] = s
    BY <1>1, <1>3, <1>4, PlacesApart
  <2>4. NoLane # NoLane => Placed(h)'
    BY <1>1, <1>3, <1>4, LaneFacts DEF Placed
  <2>5. \A x \in Mbufs : x # h /\ Placed(x) => Placed(x)'
    BY <1>1, <1>3, <1>4 DEF Placed
  <2> QED BY <1>2, <2>1, <2>2, <2>3, <2>4, <2>5, TagsStep
<1> QED BY <1>10, <1>1, <1>7, <1>8, <1>9 DEF Gone, h

\* The first packet of a slot leaves.
LEMMA SlotLeaves ==
  ASSUME FlowAssumption, TypeOK, MbufConserved, SlotsFit, TagsPlaced,
         NEW s \in Slots, slot[s] # <<>>,
         slot' = [slot EXCEPT ![s] = Tail(@)], sent' = sent,
         tag' = [tag EXCEPT ![Head(slot[s])] = NoLane]
  PROVE  /\ SlotsFit' /\ TagsPlaced'
         /\ Gone(Head(slot[s])) /\ Head(slot[s]) \in InSlot(s)
<1> DEFINE h == Head(slot[s])
<1>1. h \in Mbufs /\ h \in InSlot(s)
  BY TailFacts, TailElems, PlacesApart
<1>2. \A m \in Mbufs : tag'[m] = IF m = h THEN NoLane ELSE tag[m]
  BY DEF TypeOK
<1>3. \A t \in Slots : InSlot(t)' = InSlot(t) \ {h}
  <2> SUFFICES ASSUME NEW t \in Slots PROVE Elems(slot'[t]) = Elems(slot[t]) \ {h}
    BY PlacesApart DEF InSlot, Elems
  <2>1. slot'[t] = IF t = s THEN Tail(slot[s]) ELSE slot[t]
    BY DEF TypeOK, QosTypeOK
  <2>2. CASE t = s
    BY <2>1, <2>2, PlacesApart, TailElems
  <2>3. CASE t # s
    BY <2>1, <2>3, <1>1, PlacesApart
  <2> QED BY <2>2, <2>3
<1>4. \A c \in Fds : InQueue(c)' = InQueue(c) /\ h \notin InQueue(c)
  BY <1>1, PlacesApart DEF InQueue
<1>5. \A t \in Slots : \A a, b : a # h /\ b # h => (Before(slot[t], a, b)' <=> Before(slot[t], a, b))
  <2> SUFFICES ASSUME NEW t \in Slots, NEW a, NEW b, a # h, b # h
               PROVE  Before(slot[t], a, b)' <=> Before(slot[t], a, b)
    OBVIOUS
  <2>0. Before(slot[t], a, b)' <=> Before(slot'[t], a, b)
    BY DEF Before
  <2>1. slot'[t] = IF t = s THEN Tail(slot[s]) ELSE slot[t]
    BY DEF TypeOK, QosTypeOK
  <2>2. CASE t = s
    BY <2>0, <2>1, <2>2, PlacesApart, TailBefore
  <2> QED BY <2>0, <2>1, <2>2
<1> HIDE DEF h
<1>7. ASSUME NEW l \in Lanes PROVE LaneOf(l)' = LaneOf(l) \ {h}
  <2>1. LaneOf(l)' = {m \in InQueue(Out[l[1]])' \cup (IF l[2] = "queued" THEN InSlot(SlotOf[l[1]])' ELSE {}) :
                        tag'[m] = l}
    BY DEF LaneOf, Way
  <2>2. InQueue(Out[l[1]]) \subseteq Mbufs /\ InSlot(SlotOf[l[1]]) \subseteq Mbufs
    BY LaneFacts, PlacesApart
  <2> QED BY <2>1, <2>2, <1>1, <1>2, <1>3, <1>4, LaneFacts DEF LaneOf, Way
<1>8. ASSUME NEW l \in Lanes, NEW a \in LaneOf(l)', NEW b \in LaneOf(l)'
      PROVE  Ahead(l, a, b)' <=> Ahead(l, a, b)
  <2>1. a # h /\ b # h
    BY <1>7
  <2>2. \A c \in Fds : Before(sent[c], a, b)' <=> Before(sent[c], a, b)
    BY DEF Before
  <2>3. Before(slot[SlotOf[l[1]]], a, b)' <=> Before(slot[SlotOf[l[1]]], a, b)
    BY <2>1, <1>5, LaneFacts
  <2>4. /\ a \in InQueue(Out[l[1]])' <=> a \in InQueue(Out[l[1]])
        /\ b \in InSlot(SlotOf[l[1]])' <=> b \in InSlot(SlotOf[l[1]])
    BY <2>1, <1>3, <1>4, LaneFacts
  <2>5. Before(sent[Out[l[1]]], a, b)' <=> Before(sent[Out[l[1]]], a, b)
    BY <2>2, LaneFacts
  <2> QED BY <2>3, <2>4, <2>5 DEF Ahead
<1>10. SlotsFit' /\ TagsPlaced'
  <2>1. \A t \in Slots : InSlot(t)' \subseteq InSlot(t) \cup {h}
    BY <1>1, <1>3, <1>4
  <2>2. \A t \in Slots : InSlot(t)' \subseteq Mbufs
    BY <1>1, <1>3, <1>4, PlacesApart
  <2>3. \A t \in Slots : h \in InSlot(t)' =>
          NoLane[1] \in Flows /\ NoLane[2] = "queued" /\ SlotOf[NoLane[1]] = t
    BY <1>1, <1>3, <1>4, PlacesApart
  <2>4. NoLane # NoLane => Placed(h)'
    BY <1>1, <1>3, <1>4, LaneFacts DEF Placed
  <2>5. \A x \in Mbufs : x # h /\ Placed(x) => Placed(x)'
    BY <1>1, <1>3, <1>4 DEF Placed
  <2> QED BY <1>2, <2>1, <2>2, <2>3, <2>4, <2>5, TagsStep
<1> QED BY <1>10, <1>1, <1>7, <1>8 DEF Gone, h

\* A packet that is not queued, or has no flow, is appended to a transmit
\* queue.
LEMMA QueueComes ==
  ASSUME FlowAssumption, TypeOK, MbufConserved, SlotsFit, TagsPlaced,
         NEW d \in Fds, NEW m \in Mbufs, NEW v,
         \A c \in Fds : m \notin InQueue(c), \A s \in Slots : m \notin InSlot(s),
         sent' = [sent EXCEPT ![d] = Append(@, m)], slot' = slot,
         tag' = [tag EXCEPT ![m] = v],
         v = NoLane \/ (v \in Lanes /\ v[2] = "direct" /\ Out[v[1]] = d)
  PROVE  /\ SlotsFit' /\ TagsPlaced'
         /\ IF v \in Lanes THEN Comes(v, m)
            ELSE Gone(m) /\ \A l \in Lanes : m \notin LaneOf(l)
<1>2. \A x \in Mbufs : tag'[x] = IF x = m THEN v ELSE tag[x]
  BY DEF TypeOK
<1>3. \A c \in Fds : InQueue(c)' = IF c = d THEN InQueue(c) \cup {m} ELSE InQueue(c)
  <2> SUFFICES ASSUME NEW c \in Fds
               PROVE  Elems(sent'[c]) = IF c = d THEN Elems(sent[c]) \cup {m} ELSE Elems(sent[c])
    BY PlacesApart DEF InQueue, Elems
  <2>1. sent'[c] = IF c = d THEN Append(sent[d], m) ELSE sent[c]
    BY DEF TypeOK, NetifTypeOK
  <2>2. CASE c = d
    BY <2>1, <2>2, PlacesApart, AppendElems
  <2>3. CASE c # d
    BY <2>1, <2>3
  <2> QED BY <2>2, <2>3
<1>4. \A s \in Slots : InSlot(s)' = InSlot(s)
  BY DEF InSlot
<1>5. \A c \in Fds : \A a, b :
        Before(sent[c], a, b)' <=> Before(sent[c], a, b) \/ (c = d /\ a \in InQueue(d) /\ b = m)
  <2> SUFFICES ASSUME NEW c \in Fds, NEW a, NEW b
               PROVE  Before(sent[c], a, b)' <=>
                        Before(sent[c], a, b) \/ (c = d /\ a \in InQueue(d) /\ b = m)
    OBVIOUS
  <2>0. Before(sent[c], a, b)' <=> Before(sent'[c], a, b)
    BY DEF Before
  <2>1. sent'[c] = IF c = d THEN Append(sent[d], m) ELSE sent[c]
    BY DEF TypeOK, NetifTypeOK
  <2> QED BY <2>0, <2>1, PlacesApart, AppendBefore
<1>6. ASSUME NEW l \in Lanes
      PROVE  m \notin LaneOf(l) /\ LaneOf(l)' = IF l = v THEN LaneOf(l) \cup {m} ELSE LaneOf(l)
  <2>1. LaneOf(l)' = {x \in InQueue(Out[l[1]])' \cup (IF l[2] = "queued" THEN InSlot(SlotOf[l[1]])' ELSE {}) :
                        tag'[x] = l}
    BY DEF LaneOf, Way
  <2>2. InQueue(Out[l[1]]) \subseteq Mbufs /\ InSlot(SlotOf[l[1]]) \subseteq Mbufs
    BY LaneFacts, PlacesApart
  <2>3. m \notin LaneOf(l) /\ LaneOf(l) \subseteq Mbufs
    BY <2>2, LaneFacts DEF LaneOf, Way
  <2> QED BY <2>1, <2>2, <2>3, <1>2, <1>3, <1>4, LaneFacts DEF LaneOf, Way
<1>7. ASSUME NEW l \in Lanes, NEW a \in LaneOf(l), NEW b \in LaneOf(l)
      PROVE  Ahead(l, a, b)' <=> Ahead(l, a, b)
  <2>1. a # m /\ b # m
    BY <1>6
  <2>2. \A s \in Slots : Before(slot[s], a, b)' <=> Before(slot[s], a, b)
    BY DEF Before
  <2>3. Before(sent[Out[l[1]]], a, b)' <=> Before(sent[Out[l[1]]], a, b)
    BY <2>1, <1>5, LaneFacts
  <2>4. /\ a \in InQueue(Out[l[1]])' <=> a \in InQueue(Out[l[1]])
        /\ b \in InSlot(SlotOf[l[1]])' <=> b \in InSlot(SlotOf[l[1]])
    BY <2>1, <1>3, <1>4, LaneFacts
  <2>5. Before(slot[SlotOf[l[1]]], a, b)' <=> Before(slot[SlotOf[l[1]]], a, b)
    BY <2>2, LaneFacts
  <2> QED BY <2>3, <2>4, <2>5 DEF Ahead
<1>8. ASSUME v \in Lanes, NEW a \in LaneOf(v) \cup {m}
      PROVE  (a # m => Ahead(v, a, m)') /\ ~Ahead(v, m, a)'
  <2>1. Out[v[1]] = d /\ v[2] = "direct"
    BY <1>8, LaneFacts
  <2>2. a # m => Before(sent[d], a, m)'
    BY <2>1, <1>5 DEF LaneOf, Way
  <2>3. ~Before(sent[d], m, a)'
    <3>1. m \notin Elems(sent[d]) /\ m \notin InQueue(d)
      BY PlacesApart
    <3>2. ~Before(sent[d], m, a)
      BY <3>1, BeforeFacts
    <3> QED BY <1>5, <3>1, <3>2
  <2> QED BY <2>1, <2>2, <2>3 DEF Ahead
<1>11. SlotsFit' /\ TagsPlaced'
  <2>1. \A s \in Slots : InSlot(s)' \subseteq InSlot(s) \cup {m}
    BY <1>3, <1>4
  <2>2. \A s \in Slots : InSlot(s)' \subseteq Mbufs
    BY <1>3, <1>4, PlacesApart
  <2>3. \A s \in Slots : m \in InSlot(s)' =>
          v[1] \in Flows /\ v[2] = "queued" /\ SlotOf[v[1]] = s
    BY <1>3, <1>4, PlacesApart
  <2>4. v # NoLane => Placed(m)'
    BY <1>3, <1>4, LaneFacts DEF Placed
  <2>5. \A x \in Mbufs : x # m /\ Placed(x) => Placed(x)'
    BY <1>3, <1>4 DEF Placed
  <2> QED BY <1>2, <2>1, <2>2, <2>3, <2>4, <2>5, TagsStep
<1>9. CASE v \in Lanes
  BY <1>6, <1>7, <1>8, <1>9, <1>11 DEF Comes
<1>10. CASE v \notin Lanes
  <2>1. \A l \in Lanes : m \notin LaneOf(l) /\ LaneOf(l)' = LaneOf(l) \ {m} /\ LaneOf(l)' = LaneOf(l)
    BY <1>6, <1>10
  <2> QED BY <2>1, <1>7, <1>10, <1>11 DEF Gone
<1> QED BY <1>9, <1>10

\* A queued packet is appended to the slot of its flow.
LEMMA SlotComes ==
  ASSUME FlowAssumption, TypeOK, MbufConserved, SlotsFit, TagsPlaced,
         NEW m \in Mbufs, NEW f \in Flows,
         \A c \in Fds : m \notin InQueue(c), \A s \in Slots : m \notin InSlot(s),
         slot' = [slot EXCEPT ![SlotOf[f]] = Append(@, m)], sent' = sent,
         tag' = [tag EXCEPT ![m] = <<f, "queued">>]
  PROVE  /\ SlotsFit' /\ TagsPlaced'
         /\ Comes(<<f, "queued">>, m)
<1> DEFINE v == <<f, "queued">>
           d == SlotOf[f]
<1>1. v \in Lanes /\ d \in Slots /\ v[1] = f /\ v[2] = "queued"
  BY DEF Lanes, FlowAssumption
<1>2. \A x \in Mbufs : tag'[x] = IF x = m THEN v ELSE tag[x]
  BY DEF TypeOK
<1>0. \A s \in Slots : slot'[s] = IF s = d THEN Append(slot[d], m) ELSE slot[s]
  BY DEF TypeOK, QosTypeOK
<1>d. SlotOf[v[1]] = d
  BY <1>1
<1> HIDE DEF v, d
<1>3. \A s \in Slots : InSlot(s)' = IF s = d THEN InSlot(s) \cup {m} ELSE InSlot(s)
  <2> SUFFICES ASSUME NEW s \in Slots
               PROVE  Elems(slot'[s]) = IF s = d THEN Elems(slot[s]) \cup {m} ELSE Elems(slot[s])
    BY PlacesApart DEF InSlot, Elems
  <2>1. CASE s = d
    BY <1>0, <1>1, <2>1, PlacesApart, AppendElems
  <2>2. CASE s # d
    BY <1>0, <2>2
  <2> QED BY <2>1, <2>2
<1>4. \A c \in Fds : InQueue(c)' = InQueue(c)
  BY DEF InQueue
<1>5. \A s \in Slots : \A a, b :
        Before(slot[s], a, b)' <=> Before(slot[s], a, b) \/ (s = d /\ a \in InSlot(d) /\ b = m)
  <2> SUFFICES ASSUME NEW s \in Slots, NEW a, NEW b
               PROVE  Before(slot[s], a, b)' <=>
                        Before(slot[s], a, b) \/ (s = d /\ a \in InSlot(d) /\ b = m)
    OBVIOUS
  <2>1. Before(slot[s], a, b)' <=> Before(slot'[s], a, b)
    BY DEF Before
  <2> QED BY <1>0, <1>1, <2>1, PlacesApart, AppendBefore
<1>6. ASSUME NEW l \in Lanes
      PROVE  m \notin LaneOf(l) /\ LaneOf(l)' = IF l = v THEN LaneOf(l) \cup {m} ELSE LaneOf(l)
  <2>1. LaneOf(l)' = {x \in InQueue(Out[l[1]])' \cup (IF l[2] = "queued" THEN InSlot(SlotOf[l[1]])' ELSE {}) :
                        tag'[x] = l}
    BY DEF LaneOf, Way
  <2>2. InQueue(Out[l[1]]) \subseteq Mbufs /\ InSlot(SlotOf[l[1]]) \subseteq Mbufs
    BY LaneFacts, PlacesApart
  <2>3. m \notin LaneOf(l) /\ LaneOf(l) \subseteq Mbufs
    BY <2>2, LaneFacts DEF LaneOf, Way
  <2> QED BY <2>1, <2>2, <2>3, <1>1, <1>d, <1>2, <1>3, <1>4, LaneFacts DEF LaneOf, Way
<1>7. ASSUME NEW l \in Lanes, NEW a \in LaneOf(l), NEW b \in LaneOf(l)
      PROVE  Ahead(l, a, b)' <=> Ahead(l, a, b)
  <2>1. a # m /\ b # m
    BY <1>6
  <2>2. \A c \in Fds : Before(sent[c], a, b)' <=> Before(sent[c], a, b)
    BY DEF Before
  <2>3. Before(slot[SlotOf[l[1]]], a, b)' <=> Before(slot[SlotOf[l[1]]], a, b)
    BY <2>1, <1>5, LaneFacts
  <2>4. /\ a \in InQueue(Out[l[1]])' <=> a \in InQueue(Out[l[1]])
        /\ b \in InSlot(SlotOf[l[1]])' <=> b \in InSlot(SlotOf[l[1]])
    BY <2>1, <1>3, <1>4, LaneFacts
  <2>5. Before(sent[Out[l[1]]], a, b)' <=> Before(sent[Out[l[1]]], a, b)
    BY <2>2, LaneFacts
  <2> QED BY <2>3, <2>4, <2>5 DEF Ahead
<1>8. ASSUME NEW a \in LaneOf(v) \cup {m}
      PROVE  (a # m => Ahead(v, a, m)') /\ ~Ahead(v, m, a)'
  <2>1. a # m => (a \in InQueue(Out[v[1]])' /\ m \in InSlot(d)') \/ Before(slot[d], a, m)'
    BY <1>1, <1>d, <1>3, <1>4, <1>5, LaneFacts DEF LaneOf, Way
  <2>2. ~Before(slot[d], m, a)'
    <3>1. m \notin Elems(slot[d]) /\ m \notin InSlot(d)
      BY <1>1, PlacesApart
    <3>2. ~Before(slot[d], m, a)
      BY <3>1, BeforeFacts
    <3> QED BY <1>1, <1>5, <3>1, <3>2
  <2>3. m \notin InQueue(Out[v[1]])'
    BY <1>1, <1>4, LaneFacts
  <2>4. ~Before(sent[Out[v[1]]], m, a)'
    <3>1. Before(sent[Out[v[1]]], m, a)' => Before(sent[Out[v[1]]], m, a)
      BY DEF Before
    <3> QED BY <3>1, <1>1, LaneFacts, PlacesApart, BeforeFacts
  <2> QED BY <1>1, <1>d, <2>1, <2>2, <2>3, <2>4 DEF Ahead
<1>9. Comes(v, m)
  BY <1>1, <1>6, <1>7, <1>8 DEF Comes
<1>11. SlotsFit' /\ TagsPlaced'
  <2>1. \A s \in Slots : InSlot(s)' \subseteq InSlot(s) \cup {m}
    BY <1>1, <1>d, <1>3, <1>4
  <2>2. \A s \in Slots : InSlot(s)' \subseteq Mbufs
    BY <1>1, <1>d, <1>3, <1>4, PlacesApart
  <2>3. \A s \in Slots : m \in InSlot(s)' =>
          v[1] \in Flows /\ v[2] = "queued" /\ SlotOf[v[1]] = s
    BY <1>1, <1>d, <1>3, <1>4, PlacesApart
  <2>4. v # NoLane => Placed(m)'
    BY <1>1, <1>d, <1>3, <1>4, LaneFacts DEF Placed
  <2>5. \A x \in Mbufs : x # m /\ Placed(x) => Placed(x)'
    BY <1>1, <1>d, <1>3, <1>4 DEF Placed
  <2> QED BY <1>2, <2>1, <2>2, <2>3, <2>4, <2>5, TagsStep
<1> QED BY <1>11, <1>9 DEF v

\* The first packet of a slot: it is there and nowhere else, ahead of the
\* others, and its queue is that of its flow.
HeadFacts(s, h) ==
  /\ h \in Mbufs /\ h \in InSlot(s)
  /\ \A c \in Fds : h \notin InQueue(c)
  /\ \A t \in Slots : t # s => h \notin InSlot(t)
  /\ Elems(Tail(slot[s])) = Elems(slot[s]) \ {h}
  /\ \A a, b : Before(Tail(slot[s]), a, b) <=> Before(slot[s], a, b) /\ a # h /\ b # h
  /\ \A a : ~Before(slot[s], a, h)
  /\ \A b : Before(slot[s], h, b) <=> b \in InSlot(s) \ {h}
  /\ tag[h] \in Lanes /\ tag[h][2] = "queued" /\ tag[h][1] \in Flows
  /\ SlotOf[tag[h][1]] = s /\ Out[tag[h][1]] \in Fds

LEMMA SlotHead ==
  ASSUME FlowAssumption, TypeOK, MbufConserved, SlotsFit,
         NEW s \in Slots, slot[s] # <<>>, NEW h, h = Head(slot[s])
  PROVE  HeadFacts(s, h)
<1>1. PICK q : q = slot[s]
  OBVIOUS
<1>2. q \in Seq(Mbufs) /\ q # <<>> /\ Distinct(q) /\ InSlot(s) = Elems(q) /\ h = Head(q)
  BY <1>1, PlacesApart
<1>3. Elems(q) = Elems(Tail(q)) \cup {h} /\ h \notin Elems(Tail(q))
  BY <1>2, TailElems
<1>4. /\ \A a, b : Before(Tail(q), a, b) <=> Before(q, a, b) /\ a # h /\ b # h
      /\ \A a : ~Before(q, a, h)
  <2>1. q \in Seq(Mbufs) /\ q # <<>> /\ Distinct(q)
    BY <1>2
  <2>2. /\ \A a, b : Before(Tail(q), a, b) <=> Before(q, a, b) /\ a # Head(q) /\ b # Head(q)
        /\ \A a : ~Before(q, a, Head(q))
    BY ONLY <2>1, TailBefore
  <2> QED BY <1>2, <2>2
<1>5. \A b : Before(q, h, b) <=> b \in InSlot(s) \ {h}
  <2>1. \A b : Before(q, h, b) <=> b \in Elems(Tail(q))
    BY <1>2, HeadBefore
  <2> QED BY <2>1, <1>2, <1>3
<1>6. h \in Mbufs /\ h \in InSlot(s)
  BY <1>2, <1>3, PlacesApart
<1>7. /\ \A c \in Fds : h \notin InQueue(c)
      /\ \A t \in Slots : t # s => h \notin InSlot(t)
  BY <1>6, PlacesApart
<1>8. /\ tag[h] \in Lanes /\ tag[h][2] = "queued" /\ tag[h][1] \in Flows
      /\ SlotOf[tag[h][1]] = s /\ Out[tag[h][1]] \in Fds
  <2>1. tag[h][1] \in Flows /\ tag[h][2] = "queued" /\ SlotOf[tag[h][1]] = s
    BY <1>6 DEF SlotsFit
  <2>2. tag[h] \in Lanes
    BY <1>6, <2>1 DEF TypeOK, NoLane, Lanes
  <2>3. Out[tag[h][1]] \in Fds
    BY <2>1 DEF FlowAssumption
  <2> QED BY <2>1, <2>2, <2>3
<1> QED BY <1>1, <1>3, <1>4, <1>5, <1>6, <1>7, <1>8 DEF HeadFacts

\* It goes to the end of the queue of its flow.
HeadMoves(s, h, v, d) ==
  /\ slot[s] # <<>> /\ h = Head(slot[s]) /\ v = tag[h] /\ d = Out[v[1]]
  /\ \A t \in Slots : slot'[t] = IF t = s THEN Tail(slot[s]) ELSE slot[t]
  /\ \A c \in Fds : sent'[c] = IF c = d THEN Append(sent[d], h) ELSE sent[c]
  /\ tag' = tag

\* The stream already had it between the one and the other.
LEMMA HeadToQueue ==
  ASSUME FlowAssumption, TypeOK, MbufConserved, SlotsFit, TagsPlaced,
         NEW s \in Slots, NEW h, NEW v, NEW d, HeadMoves(s, h, v, d)
  PROVE  /\ SlotsFit' /\ TagsPlaced'
         /\ Steady
<1>h. slot[s] # <<>> /\ h = Head(slot[s]) /\ v = tag[h] /\ d = Out[v[1]] /\ tag' = tag
  BY DEF HeadMoves
<1>f. HeadFacts(s, h)
  BY <1>h, SlotHead
<1>1. /\ h \in Mbufs /\ h \in InSlot(s) /\ \A c \in Fds : h \notin InQueue(c)
      /\ \A t \in Slots : t # s => h \notin InSlot(t)
  BY <1>h, <1>f DEF HeadFacts
<1>2. v \in Lanes /\ v[2] = "queued" /\ SlotOf[v[1]] = s /\ d \in Fds /\ v[1] \in Flows
  BY <1>h, <1>f DEF HeadFacts
<1>3. \A t \in Slots : slot'[t] = IF t = s THEN Tail(slot[s]) ELSE slot[t]
  BY DEF HeadMoves
<1>4. \A c \in Fds : sent'[c] = IF c = d THEN Append(sent[d], h) ELSE sent[c]
  BY DEF HeadMoves
<1>0. /\ \A t \in Slots : InSlot(t) = Elems(slot[t]) /\ InSlot(t) \subseteq Mbufs
      /\ \A c \in Fds : /\ sent[c] \in Seq(Mbufs) /\ InQueue(c) = Elems(sent[c])
                         /\ InQueue(c) \subseteq Mbufs
  BY PlacesApart
<1>5. \A t \in Slots : InSlot(t)' = InSlot(t) \ {h}
  <2> SUFFICES ASSUME NEW t \in Slots PROVE Elems(slot'[t]) = Elems(slot[t]) \ {h}
    BY PlacesApart DEF InSlot, Elems
  <2>1. CASE t = s
    BY <1>h, <1>3, <2>1, <1>f DEF HeadFacts
  <2>2. CASE t # s
    <3>1. h \notin Elems(slot[t])
      BY <1>0, <1>1, <2>2
    <3> QED BY <1>3, <2>2, <3>1
  <2> QED BY <2>1, <2>2
<1>6. \A t \in Slots : \A a, b :
        Before(slot[t], a, b)' <=> Before(slot[t], a, b) /\ a # h /\ b # h
  <2> SUFFICES ASSUME NEW t \in Slots, NEW a, NEW b
               PROVE  Before(slot[t], a, b)' <=> Before(slot[t], a, b) /\ a # h /\ b # h
    OBVIOUS
  <2>1. Before(slot[t], a, b)' <=> Before(slot'[t], a, b)
    BY DEF Before
  <2>2. CASE t = s
    <3>1. Before(Tail(slot[s]), a, b) <=> Before(slot[s], a, b) /\ a # h /\ b # h
      BY <1>f DEF HeadFacts
    <3>2. slot'[t] = Tail(slot[s])
      BY <1>3, <2>2
    <3> QED BY <2>1, <2>2, <3>1, <3>2
  <2>3. CASE t # s
    <3>1. h \notin Elems(slot[t])
      BY <1>0, <1>1, <2>3
    <3>2. Before(slot[t], a, b) => a # h /\ b # h
      BY <3>1, BeforeFacts
    <3> QED BY <1>3, <2>1, <2>3, <3>2
  <2> QED BY <2>2, <2>3
<1>7. \A b : Before(slot[s], h, b) <=> b \in InSlot(s) \ {h}
  BY <1>h, <1>f DEF HeadFacts
<1>8. \A a : ~Before(slot[s], a, h)
  BY <1>h, <1>f DEF HeadFacts
<1>9. \A c \in Fds : InQueue(c)' = IF c = d THEN InQueue(c) \cup {h} ELSE InQueue(c)
  <2> SUFFICES ASSUME NEW c \in Fds
               PROVE  Elems(sent'[c]) = IF c = d THEN Elems(sent[c]) \cup {h} ELSE Elems(sent[c])
    BY PlacesApart DEF InQueue, Elems
  <2>1. CASE c = d
    <3>1. Elems(Append(sent[d], h)) = Elems(sent[d]) \cup {h}
      BY <1>0, <1>1, <1>2, AppendElems
    <3> QED BY <1>4, <2>1, <3>1
  <2>2. CASE c # d
    BY <1>4, <2>2
  <2> QED BY <2>1, <2>2
<1>10. \A c \in Fds : \A a, b :
        Before(sent[c], a, b)' <=> Before(sent[c], a, b) \/ (c = d /\ a \in InQueue(d) /\ b = h)
  <2> SUFFICES ASSUME NEW c \in Fds, NEW a, NEW b
               PROVE  Before(sent[c], a, b)' <=>
                        Before(sent[c], a, b) \/ (c = d /\ a \in InQueue(d) /\ b = h)
    OBVIOUS
  <2>1. Before(sent[c], a, b)' <=> Before(sent'[c], a, b)
    BY DEF Before
  <2>2. CASE c = d
    <3>1. sent[d] \in Seq(Mbufs) /\ h \notin Elems(sent[d]) /\ InQueue(d) = Elems(sent[d])
      BY <1>0, <1>1, <1>2
    <3>2. PICK q : q = sent[d]
      OBVIOUS
    <3>3. \A x, y : Before(Append(q, h), x, y) <=> Before(q, x, y) \/ (x \in Elems(q) /\ y = h)
      <4>1. q \in Seq(Mbufs) /\ h \in Mbufs /\ h \notin Elems(q)
        BY <1>1, <3>1, <3>2
      <4> QED BY ONLY <4>1, AppendBefore
    <3>4. sent'[c] = Append(q, h)
      BY <1>4, <2>2, <3>2
    <3>5. Before(Append(q, h), a, b) <=> Before(q, a, b) \/ (a \in Elems(q) /\ b = h)
      BY <3>3
    <3> QED BY <2>1, <2>2, <3>1, <3>2, <3>4, <3>5
  <2>3. CASE c # d
    BY <1>4, <2>1, <2>3
  <2> QED BY <2>2, <2>3
<1>11. \A c \in Fds : \A a : ~Before(sent[c], h, a) /\ ~Before(sent[c], a, h)
  <2>1. \A c \in Fds : h \notin Elems(sent[c])
    BY <1>0, <1>1
  <2> QED BY <2>1, BeforeFacts
<1>12. /\ \A x \in Mbufs : tag'[x] = tag[x]
       /\ tag[h] = v /\ d = Out[v[1]]
  BY <1>h
<1>13. ASSUME NEW l \in Lanes PROVE LaneOf(l)' = LaneOf(l)
  <2> DEFINE Q == InQueue(Out[l[1]])
             B == InSlot(SlotOf[l[1]])
  <2>1. LaneOf(l)' = {x \in Q' \cup (IF l[2] = "queued" THEN B' ELSE {}) : tag'[x] = l}
    BY DEF LaneOf, Way
  <2>2. LaneOf(l) = {x \in Q \cup (IF l[2] = "queued" THEN B ELSE {}) : tag[x] = l}
    BY DEF LaneOf, Way
  <2>3. Q \subseteq Mbufs /\ B \subseteq Mbufs
    BY LaneFacts, PlacesApart
  <2>4. /\ Q' = IF Out[l[1]] = d THEN Q \cup {h} ELSE Q
        /\ B' = B \ {h}
    BY <1>5, <1>9, LaneFacts
  <2>5. h \notin Q /\ (v = l => h \in B /\ l[2] = "queued" /\ Out[l[1]] = d)
    BY <1>1, <1>2, <1>12, LaneFacts
  <2> HIDE DEF Q, B
  <2>6. \A x : tag'[x] = tag[x]
    BY <1>h
  <2>7. CASE v = l
    <3>1. /\ Q' = Q \cup {h} /\ B' = B \ {h} /\ l[2] = "queued" /\ h \in B /\ tag[h] = l
      BY <2>4, <2>5, <2>7, <1>12
    <3>2. Q' \cup B' = Q \cup B
      BY <3>1
    <3> QED BY <2>1, <2>2, <2>6, <3>1, <3>2
  <2>8. CASE v # l
    <3>1. tag[h] # l
      BY <2>8, <1>12
    <3>2. \A x : x # h => (x \in Q' <=> x \in Q) /\ (x \in B' <=> x \in B)
      BY <2>4
    <3> QED BY <2>1, <2>2, <2>6, <3>1, <3>2
  <2> QED BY <2>7, <2>8
<1>14. ASSUME NEW l \in Lanes, NEW a \in LaneOf(l), NEW b \in LaneOf(l)
       PROVE  Ahead(l, a, b)' <=> Ahead(l, a, b)
  <2> DEFINE q == Out[l[1]]
             t == SlotOf[l[1]]
  <2>1. q \in Fds /\ t \in Slots /\ tag[a] = l /\ tag[b] = l
    BY LaneFacts, LaneMember
  <2>2. Ahead(l, a, b) <=> \/ Before(sent[q], a, b)
                           \/ l[2] = "queued" /\ Before(slot[t], a, b)
                           \/ l[2] = "queued" /\ a \in InQueue(q) /\ b \in InSlot(t)
    BY DEF Ahead
  <2>3. Ahead(l, a, b)' <=> \/ Before(sent[q], a, b)'
                            \/ l[2] = "queued" /\ Before(slot[t], a, b)'
                            \/ l[2] = "queued" /\ a \in InQueue(q)' /\ b \in InSlot(t)'
    BY DEF Ahead
  <2>4. a = h \/ b = h => l = v /\ q = d /\ t = s /\ l[2] = "queued"
    BY <2>1, <1>2, <1>12
  <2> HIDE DEF q, t
  <2>5. Before(sent[q], a, b)' <=> Before(sent[q], a, b) \/ (q = d /\ a \in InQueue(d) /\ b = h)
    BY <2>1, <1>10
  <2>6. Before(slot[t], a, b)' <=> Before(slot[t], a, b) /\ a # h /\ b # h
    BY <2>1, <1>6
  <2>7. /\ a \in InQueue(q)' <=> a \in InQueue(q) \/ (q = d /\ a = h)
        /\ b \in InSlot(t)' <=> b \in InSlot(t) /\ b # h
    BY <2>1, <1>5, <1>9
  <2>8. CASE a # h /\ b # h
    BY <2>2, <2>3, <2>5, <2>6, <2>7, <2>8
  <2>9. CASE a = h
    <3>1. q = d /\ t = s /\ l[2] = "queued"
      BY <2>4, <2>9
    <3>2. ~Before(sent[q], a, b) /\ a \notin InQueue(q) /\ (b = h => b \notin InQueue(q))
      BY <2>1, <2>9, <1>1, <1>11
    <3>3. Before(slot[t], a, b) <=> b \in InSlot(t) /\ b # h
      BY <2>9, <3>1, <1>7
    <3> QED BY <2>2, <2>3, <2>5, <2>6, <2>7, <2>9, <3>1, <3>2, <3>3
  <2>10. CASE b = h /\ a # h
    <3>1. q = d /\ t = s /\ l[2] = "queued"
      BY <2>4, <2>10
    <3>2. ~Before(sent[q], a, b) /\ ~Before(slot[t], a, b) /\ b \in InSlot(t)
      BY <2>1, <2>10, <3>1, <1>1, <1>8, <1>11
    <3> QED BY <2>2, <2>3, <2>5, <2>6, <2>7, <2>10, <3>1, <3>2
  <2> QED BY <2>8, <2>9, <2>10
<1>15. SlotsFit' /\ TagsPlaced'
  <2>1. \A t \in Slots : InSlot(t)' \subseteq InSlot(t) \cup {h}
    BY <1>5
  <2>2. \A t \in Slots : InSlot(t)' \subseteq Mbufs
    BY <1>0, <1>5
  <2>3. \A t \in Slots : h \in InSlot(t)' =>
          v[1] \in Flows /\ v[2] = "queued" /\ SlotOf[v[1]] = t
    BY <1>5
  <2>4. v # NoLane => Placed(h)'
    <3>1. h \in InQueue(d)'
      BY <1>2, <1>9
    <3> QED BY <1>2, <3>1 DEF Placed
  <2>5. \A x \in Mbufs : x # h /\ Placed(x) => Placed(x)'
    BY <1>1, <1>2, <1>5, <1>9 DEF Placed
  <2>6. \A x \in Mbufs : tag'[x] = IF x = h THEN v ELSE tag[x]
    BY <1>12
  <2> QED BY <2>6, <2>1, <2>2, <2>3, <2>4, <2>5, TagsStep
<1> QED BY <1>15, <1>13, <1>14 DEF Steady

LEMMA SlotToQueue ==
  ASSUME FlowAssumption, TypeOK, MbufConserved, SlotsFit, TagsPlaced,
         NEW s \in Slots, slot[s] # <<>>,
         slot' = [slot EXCEPT ![s] = Tail(@)],
         sent' = [sent EXCEPT ![Out[tag[Head(slot[s])][1]]] = Append(@, Head(slot[s]))],
         tag' = tag
  PROVE  /\ SlotsFit' /\ TagsPlaced'
         /\ Steady
<1>1. PICK h : h = Head(slot[s])
  OBVIOUS
<1>2. PICK v : v = tag[h]
  OBVIOUS
<1>3. PICK d : d = Out[v[1]]
  OBVIOUS
<1>4. d \in Fds
  BY <1>1, <1>2, <1>3, SlotHead DEF HeadFacts
<1>5. \A t \in Slots : slot'[t] = IF t = s THEN Tail(slot[s]) ELSE slot[t]
  BY DEF TypeOK, QosTypeOK
<1>6. sent' = [sent EXCEPT ![d] = Append(sent[d], h)]
  BY <1>1, <1>2, <1>3
<1>7. \A c \in Fds : sent'[c] = IF c = d THEN Append(sent[d], h) ELSE sent[c]
  BY <1>4, <1>6 DEF TypeOK, NetifTypeOK
<1>8. HeadMoves(s, h, v, d)
  BY <1>1, <1>2, <1>3, <1>5, <1>7 DEF HeadMoves
<1> QED BY <1>8, HeadToQueue

\* No queue, slot or tag changes.
LEMMA StaysSteady ==
  ASSUME SlotsFit, TagsPlaced, UNCHANGED <<sent, slot, tag>>
  PROVE  Steady /\ SlotsFit' /\ TagsPlaced'
<1>1. SlotsFit' /\ TagsPlaced'
  BY DEF SlotsFit, TagsPlaced, Placed, InQueue, InSlot
<1>2. \A l \in Lanes : LaneOf(l)' = LaneOf(l)
  BY DEF LaneOf, Way, InQueue, InSlot
<1>3. \A l \in Lanes : \A a, b : Ahead(l, a, b)' <=> Ahead(l, a, b)
  BY DEF Ahead, Before, InQueue, InSlot
<1> QED BY <1>1, <1>2, <1>3 DEF Steady

-----------------------------------------------------------------------------
(* Every step is a step of the streams *)

\* What the proof of an action shows.
Refines == SlotsFit' /\ TagsPlaced' /\ Streams!Next

LEMMA QuietStep ==
  ASSUME UNCHANGED <<LaneMap, Older>>, wire' = NoMbuf PROVE Streams!Next
BY DEF Streams!Next, Streams!Quiet, LaneMap

LEMMA LostStep ==
  ASSUME FlowAssumption, TypeOK, MbufConserved, NEW p, Gone(p), wire' = NoMbuf PROVE Streams!Next
<1>1. CASE \A l \in Lanes : p \notin LaneOf(l)
  BY <1>1, GoneStreams, QuietStep
<1>2. ASSUME NEW l \in Lanes, p \in LaneOf(l) PROVE Streams!Next
  <2>1. Streams!Leave(l, p)
    BY <1>2, GoneStreams
  <2>2. p \in Mbufs
    BY <1>2, LaneFacts, PlacesApart DEF LaneOf, Way
  <2>3. Streams!Lose(l, p)
    BY <2>1 DEF Streams!Lose
  <2> QED BY <2>2, <2>3 DEF Streams!Next
<1> QED BY <1>1, <1>2

LEMMA AdmitStep ==
  ASSUME NEW l \in Lanes, NEW p \in Mbufs, Comes(l, p), wire' = NoMbuf PROVE Streams!Next
<1>1. Streams!Admit(l, p)
  BY ComesStreams
<1> QED BY <1>1 DEF Streams!Next

LEMMA TxWriteRefines ==
  ASSUME FlowAssumption, FifoInv, MbufConserved, TxWrite PROVE Refines
<1> USE DEF FifoInv, MbufConserved, PlaneInv
<1>1. /\ tx \in Fds /\ sent[tx] # <<>> /\ slot' = slot /\ wire' = Head(sent[tx])
      /\ sent' = [sent EXCEPT ![tx] = Tail(@)]
      /\ tag' = [tag EXCEPT ![Head(sent[tx])] = NoLane]
  BY DEF TxWrite, Write, TypeOK, NetifTypeOK, qosVars, listVars
<1>2. PICK h : h = Head(sent[tx])
  OBVIOUS
<1>3. /\ SlotsFit' /\ TagsPlaced' /\ Gone(h) /\ h \in InQueue(tx)
      /\ \A l \in Lanes : h \in LaneOf(l) => \A q \in LaneOf(l) : <<q, h>> \notin Older
  BY <1>1, <1>2, QueueLeaves
<1>4. h \in Mbufs /\ wire' = h
  BY <1>1, <1>2, <1>3, PlacesApart
<1>5. CASE \A l \in Lanes : h \notin LaneOf(l)
  <2>1. UNCHANGED <<LaneMap, Older>>
    BY <1>3, <1>5, GoneStreams
  <2>2. Streams!Other(h)
    BY <1>4, <1>5, <2>1 DEF Streams!Other, Streams!UnderWay, LaneMap
  <2> QED BY <1>3, <1>4, <2>2 DEF Refines, Streams!Next
<1>6. ASSUME NEW l \in Lanes, h \in LaneOf(l) PROVE Refines
  <2>1. Streams!Leave(l, h)
    BY <1>3, <1>6, GoneStreams
  <2>2. Streams!Deliver(l, h)
    BY <1>3, <1>4, <1>6, <2>1 DEF Streams!Deliver
  <2> QED BY <1>3, <1>4, <2>2 DEF Refines, Streams!Next
<1> QED BY <1>5, <1>6

LEMMA TxEndsRefines ==
  ASSUME FlowAssumption, FifoInv, MbufConserved, NEW failed \in BOOLEAN, TxEnds(failed) PROVE Refines
<1> USE DEF FifoInv, MbufConserved, PlaneInv
<1>1. /\ tx \in Fds /\ slot' = slot /\ wire' = NoMbuf /\ sent' = [sent EXCEPT ![tx] = Left]
  BY DEF TxEnds, WriteEnds, TypeOK, NetifTypeOK, qosVars, listVars
<1>2. CASE Drops
  <2>1. /\ sent[tx] # <<>> /\ sent' = [sent EXCEPT ![tx] = Tail(@)]
        /\ tag' = [tag EXCEPT ![Head(sent[tx])] = NoLane]
    BY <1>1, <1>2 DEF TxEnds, Drops, Left
  <2>2. PICK h : h = Head(sent[tx])
    OBVIOUS
  <2>3. SlotsFit' /\ TagsPlaced' /\ Gone(h)
    BY <1>1, <2>1, <2>2, QueueLeaves
  <2> QED BY <1>1, <2>3, LostStep DEF Refines
<1>3. CASE ~Drops
  <2>1. sent' = sent
    BY <1>1, <1>3 DEF Left, TypeOK, NetifTypeOK
  <2>2. tag' = tag
    BY <1>3 DEF TxEnds
  <2> QED BY <1>1, <2>1, <2>2, StaysSteady, SteadyStreams, QuietStep DEF Refines
<1> QED BY <1>2, <1>3

LEMMA AskRefines ==
  ASSUME FlowAssumption, FifoInv, MbufConserved, NEW m \in Mbufs, AskSend(m) PROVE Refines
<1>0. TypeOK /\ MbufConserved /\ SlotsFit /\ TagsPlaced
  BY DEF FifoInv, PlaneInv
<1>1. /\ ask \in Fds /\ slot' = slot /\ wire' = NoMbuf /\ tag' = tag /\ MbufGet(m)
      /\ sent' = [sent EXCEPT ![ask] = Append(@, m)]
  BY <1>0 DEF AskSend, NetifSend, TypeOK, qosVars, listVars
<1>2. /\ \A d \in Fds : m \notin InQueue(d)
      /\ \A s \in Slots : m \notin InSlot(s)
  BY <1>0, <1>1, GotApart
<1>3. tag[m] = NoLane /\ tag' = [tag EXCEPT ![m] = NoLane]
  <2>1. tag[m] = NoLane
    BY <1>0, <1>2 DEF TagsPlaced, Placed
  <2> QED BY <1>0, <1>1, <2>1 DEF TypeOK
<1>4. SlotsFit' /\ TagsPlaced' /\ Gone(m)
  <2>1. NoLane \notin Lanes
    BY LaneFacts
  <2>2. /\ tag' = [tag EXCEPT ![m] = NoLane]
        /\ sent' = [sent EXCEPT ![ask] = Append(@, m)]
        /\ ask \in Fds /\ slot' = slot
    BY <1>1, <1>3
  <2> QED BY <1>0, <1>2, <2>1, <2>2, QueueComes
<1> QED BY <1>0, <1>1, <1>4, LostStep DEF Refines

LEMMA RxForwardRefines ==
  ASSUME FlowAssumption, FifoInv, MbufConserved, NEW f \in Flows, RxForward(f) PROVE Refines
<1> USE DEF FifoInv, MbufConserved, PlaneInv
<1>1. /\ Out[f] \in Fds /\ hand \in Mbufs /\ hand # NoMbuf /\ slot' = slot /\ wire' = NoMbuf
      /\ sent' = [sent EXCEPT ![Out[f]] = Append(@, hand)]
      /\ tag' = [tag EXCEPT ![hand] = <<f, "direct">>]
  BY DEF RxForward, NetifSend, FlowAssumption, TypeOK, qosVars, listVars
<1>2. /\ \A d \in Fds : hand \notin InQueue(d)
      /\ \A s \in Slots : hand \notin InSlot(s)
  BY <1>1, PlacesApart
<1>3. <<f, "direct">> \in Lanes
  BY DEF Lanes
<1>4. PICK m, v : m = hand /\ v = <<f, "direct">>
  OBVIOUS
<1>5. SlotsFit' /\ TagsPlaced' /\ Comes(v, m)
  <2>1. v \in Lanes /\ v[2] = "direct" /\ v[1] = f /\ m \in Mbufs
    BY <1>1, <1>3, <1>4
  <2> QED BY <1>1, <1>2, <1>4, <2>1, QueueComes
<1> QED BY <1>1, <1>3, <1>4, <1>5, AdmitStep DEF Refines

LEMMA RxQueueRefines ==
  ASSUME FlowAssumption, NoSlotAssumption, FifoInv, MbufConserved, NEW f \in Flows, RxQueue(f) PROVE Refines
<1> USE DEF FifoInv, MbufConserved, PlaneInv
<1>1. /\ hand \in Mbufs /\ hand # NoMbuf /\ sent' = sent /\ wire' = NoMbuf /\ SlotOf[f] \in Slots
      /\ QosPut(SlotOf[f], hand) /\ tag' = [tag EXCEPT ![hand] = <<f, "queued">>]
  BY DEF RxQueue, Quiet, FlowAssumption, TypeOK
<1>2. slot' = [slot EXCEPT ![SlotOf[f]] = Append(@, hand)]
  BY <1>1, PutKeepsList
<1>3. /\ \A d \in Fds : hand \notin InQueue(d)
      /\ \A s \in Slots : hand \notin InSlot(s)
  BY <1>1, PlacesApart
<1>4. PICK m : m = hand
  OBVIOUS
<1>5. SlotsFit' /\ TagsPlaced' /\ Comes(<<f, "queued">>, m)
  BY <1>1, <1>2, <1>3, <1>4, SlotComes
<1>6. <<f, "queued">> \in Lanes
  BY DEF Lanes
<1> QED BY <1>1, <1>4, <1>5, <1>6, AdmitStep DEF Refines

LEMMA PopRefines ==
  ASSUME FlowAssumption, NoSlotAssumption, FifoInv, MbufConserved, PopForward \/ PopDrop \/ PopAsk PROVE Refines
<1> USE DEF FifoInv, MbufConserved, PlaneInv
<1>1. Popping /\ PopFrom /\ phase' = phase
  BY DEF PopForward, PopDrop, PopAsk, planeVars
<1>2. /\ slot_obj \in Slots /\ slot[slot_obj] # <<>> /\ Head(slot[slot_obj]) = Popped
      /\ slot' = [slot EXCEPT ![slot_obj] = Tail(@)]
  <2>1. slot_obj \in Slots /\ slot[slot_obj] # <<>>
    BY <1>1, PopNonEmpty
  <2>2. slot' = [slot EXCEPT ![slot_obj] = Tail(@)]
    BY <1>1, PopKeepsList
  <2> QED BY <2>1, <2>2 DEF Popped
<1>3. CASE PopForward
  <2>1. /\ tag' = tag /\ wire' = NoMbuf
        /\ sent' = [sent EXCEPT ![Out[tag[Head(slot[slot_obj])][1]]] = Append(@, Head(slot[slot_obj]))]
    BY <1>2, <1>3 DEF PopForward, NetifSend, planeVars
  <2>2. SlotsFit' /\ TagsPlaced' /\ Steady
    BY <1>2, <2>1, SlotToQueue
  <2> QED BY <2>1, <2>2, SteadyStreams, QuietStep DEF Refines
<1>4. CASE PopDrop \/ PopAsk
  <2>1. /\ tag' = [tag EXCEPT ![Head(slot[slot_obj])] = NoLane] /\ wire' = NoMbuf /\ sent' = sent
    BY <1>2, <1>4 DEF PopDrop, PopAsk, Quiet
  <2>2. PICK h : h = Head(slot[slot_obj])
    OBVIOUS
  <2>3. SlotsFit' /\ TagsPlaced' /\ Gone(h)
    BY <1>2, <2>1, <2>2, SlotLeaves
  <2> QED BY <2>1, <2>3, LostStep DEF Refines
<1> QED BY <1>3, <1>4

\* The other steps move no packet of a stream.
LEMMA OthersRefine ==
  ASSUME FlowAssumption, FifoInv, MbufConserved,
         \/ Still \/ AskNoMbuf \/ HeldDone \/ RxEmpty \/ RxConsume \/ QosPops
         \/ \E m \in Mbufs : RxGet(m)
         \/ \E d \in Fds : RxAsk(d)
  PROVE  Refines
<1>1. UNCHANGED <<sent, slot, tag>> /\ wire' = NoMbuf
  <2> USE DEF Quiet, qosVars, listVars
  <2>1. CASE Still
    BY <2>1 DEF Still, Wait, Readable, Writable, SetExpress, IoEnds, RxEnds, QosTry, QosStops, PopEnds
  <2>2. CASE ~Still
    BY <2>2 DEF AskNoMbuf, HeldDone, RxEmpty, RxConsume, QosPops, QosPopBegins, RxGet, RxAsk
  <2> QED BY <2>1, <2>2
<1> QED BY <1>1, StaysSteady, SteadyStreams, QuietStep DEF FifoInv, MbufConserved, Refines

LEMMA FifoStep ==
  ASSUME MbufAssumption, NoSlotAssumption, FlowAssumption, FifoInv, Next
  PROVE  Refines
<1>1. MbufConserved
  BY AccountsConserve DEF FifoInv, PlaneInv
<1>2. CASE Call
  BY <1>1, <1>2, TxWriteRefines, TxEndsRefines, AskRefines, OthersRefine DEF Call
<1>3. CASE Still
  BY <1>1, <1>3, OthersRefine
<1>4. CASE Receive
  BY <1>1, <1>3, <1>4, RxQueueRefines, RxForwardRefines, OthersRefine DEF Receive, Still
<1>5. CASE Turn
  BY <1>1, <1>3, <1>5, PopRefines, OthersRefine DEF Turn, Still
<1> QED BY <1>2, <1>3, <1>4, <1>5 DEF Next, Loop, Still

LEMMA FifoInvNext ==
  ASSUME MbufAssumption, NoSlotAssumption, NoFdAssumption, FlowAssumption, FifoInv, [Next]_vars
  PROVE  FifoInv' /\ [Streams!Next]_<<LaneMap, Older, wire>>
<1>1. PlaneInv'
  BY PlaneInvNext DEF FifoInv
<1>2. CASE Next
  BY <1>1, <1>2, FifoStep DEF Refines, FifoInv
<1>3. CASE UNCHANGED vars
  <2>1. UNCHANGED <<sent, slot, tag, wire>>
    BY <1>3 DEF vars, netifVars, qosVars, listVars, planeVars
  <2> QED BY <1>1, <2>1, StaysSteady, SteadyStreams DEF FifoInv
<1> QED BY <1>2, <1>3

-----------------------------------------------------------------------------
(* The theorems *)

LEMMA FifoInvInit ==
  ASSUME MbufAssumption, NoSlotAssumption, NoFdAssumption, FlowAssumption, Init
  PROVE  FifoInv /\ Streams!Init
<1>1. \A d \in Fds : InQueue(d) = {}
  BY DEF Init, NetifInit, InQueue
<1>2. \A s \in Slots : InSlot(s) = {}
  BY DEF Init, QosInit, InSlot
<1>3. SlotsFit /\ TagsPlaced
  BY <1>2 DEF SlotsFit, TagsPlaced, Init
<1>4. \A l \in Lanes : LaneOf(l) = {}
  BY <1>1, <1>2, LaneFacts DEF LaneOf, Way
<1>5. Older = {}
  BY <1>4, OlderMember
<1>6. wire = NoMbuf
  BY DEF Init, NetifInit
<1>7. PlaneInv
  BY PlaneInvInit
<1> QED BY <1>3, <1>4, <1>5, <1>6, <1>7 DEF FifoInv, Streams!Init

\* A packet with a tag is where its stream goes: in the slot that its flow
\* hashes to, or in a transmit queue (RxQueue, RxForward, ixc_qos_pop).
THEOREM FifoInvAlways == Spec => []FifoInv
<1>1. Init => FifoInv
  BY FifoInvInit, MbufAssumption, NoSlotAssumption, NoFdAssumption, FlowAssumption
<1>2. FifoInv /\ [Next]_vars => FifoInv'
  BY FifoInvNext, MbufAssumption, NoSlotAssumption, NoFdAssumption, FlowAssumption
<1> QED BY <1>1, <1>2, PTL DEF Spec

\* The data plane keeps the order of every stream: a packet that is read
\* comes after those of its stream, what is written is the oldest of its
\* stream, and the hand-over from slot to transmit queue changes nothing
\* (qos.c, netif.c).
THEOREM PlaneImplementsLossyFifo == Spec => ImplementsLossyFifo
<1>1. Init => Streams!Init
  BY FifoInvInit, MbufAssumption, NoSlotAssumption, NoFdAssumption, FlowAssumption
<1>2. FifoInv /\ [Next]_vars => [Streams!Next]_<<LaneMap, Older, wire>>
  BY FifoInvNext, MbufAssumption, NoSlotAssumption, NoFdAssumption, FlowAssumption
<1>3. FifoInv /\ [Next]_vars => [Streams!Next]_Streams!vars
  BY <1>2 DEF Streams!vars, LaneMap
<1> QED BY <1>1, <1>3, FifoInvAlways, PTL DEF Spec, ImplementsLossyFifo, Streams!Spec

\* Nobody overtakes: as long as a packet is under way, no later one of its
\* stream is written and none gets before it, although both may move from
\* slot to queue under different callbacks.
NobodyOvertakes ==
  [][\A l \in Lanes : \A a, b \in LaneOf(l) :
       Ahead(l, a, b) /\ a \in LaneOf(l)' =>
         wire' # b /\ (b \in LaneOf(l)' => Ahead(l, a, b)')]_vars

THEOREM PlaneNobodyOvertakes == Spec => NobodyOvertakes
<1> DEFINE Step ==
      \A l \in Lanes : \A a, b \in LaneOf(l) :
        Ahead(l, a, b) /\ a \in LaneOf(l)' =>
          wire' # b /\ (b \in LaneOf(l)' => Ahead(l, a, b)')
<1>1. FifoInv /\ [Next]_vars => [Step]_vars
  <2> SUFFICES ASSUME FifoInv, Next, NEW l \in Lanes, NEW a \in LaneOf(l), NEW b \in LaneOf(l),
                      Ahead(l, a, b), a \in LaneOf(l)'
               PROVE  wire' # b /\ (b \in LaneOf(l)' => Ahead(l, a, b)')
    OBVIOUS
  <2>1. Streams!Next
    BY FifoStep, MbufAssumption, NoSlotAssumption, FlowAssumption DEF Refines
  <2>2. <<a, b>> \in Older
    BY OlderMember
  <2>3. \A k \in Lanes : b \in LaneOf(k) => k = l
    BY LaneMember
  <2>4. b \in Mbufs /\ b # NoMbuf
    <3>1. b \in Mbufs
      <4>1. TypeOK /\ MbufConserved
        BY AccountsConserve DEF FifoInv, PlaneInv
      <4>2. InQueue(Out[l[1]]) \subseteq Mbufs /\ InSlot(SlotOf[l[1]]) \subseteq Mbufs
        BY <4>1, LaneFacts, FlowAssumption, PlacesApart
      <4> QED BY <4>2 DEF LaneOf, Way
    <3> QED BY <3>1, MbufAssumption DEF MbufAssumption
  <2>5. wire' # b
    BY <2>1, <2>2, <2>3, <2>4
       DEF Streams!Next, Streams!Quiet, Streams!Other, Streams!UnderWay, Streams!Admit,
           Streams!Deliver, Streams!Leave, Streams!Lose
  <2>6. ASSUME b \in LaneOf(l)' PROVE Ahead(l, a, b)'
    <3>1. /\ \A k \in Lanes : a \in LaneOf(k)' => k = l
          /\ \A k \in Lanes : a \in LaneOf(k) => k = l
      BY LaneMember DEF LaneOf
    <3>2. /\ \A k \in Lanes : LaneMap'[k] = LaneOf(k)' /\ LaneMap[k] = LaneOf(k)
          /\ LaneMap = [k \in Lanes |-> LaneOf(k)]
      BY DEF LaneMap
    <3>3. ASSUME NEW k \in Lanes, NEW p, Streams!Leave(k, p) PROVE <<a, b>> \in Older'
      <4>1. p \in LaneOf(k) /\ LaneOf(k)' = LaneOf(k) \ {p}
        BY <3>2, <3>3 DEF Streams!Leave, LaneMap
      <4>2. p # a /\ p # b
        BY <2>3, <2>6, <3>1, <4>1
      <4> QED BY <2>2, <3>3, <4>2 DEF Streams!Leave
    <3>4. <<a, b>> \in Older'
      BY <2>1, <2>2, <3>3
         DEF Streams!Next, Streams!Quiet, Streams!Other, Streams!Admit, Streams!Deliver, Streams!Lose
    <3>5. PICK k \in Lanes : a \in LaneOf(k)' /\ Ahead(k, a, b)'
      BY <3>4 DEF Older
    <3> QED BY <3>1, <3>5
  <2> QED BY <2>5, <2>6
<1> QED BY <1>1, FifoInvAlways, PTL DEF Spec, NobodyOvertakes
=============================================================================
