----------------------------- MODULE NatProofs -----------------------------
(***************************************************************************)
(* Proofs about source NAT for any number of flows, sessions, nodes and    *)
(* ids, any ring and any timeouts.  Most of them hold however long the     *)
(* loop is held up; that every session has a timer and is deleted in time, *)
(* in the last part, needs that two turns of the loop are less than one    *)
(* turn of the ring apart (NoStall).                                       *)
(***************************************************************************)
EXTENDS Nat, TimeWheelProofs

(***************************************************************************)
(* The inductive invariant: the wheel's own, that maps and sessions agree, *)
(* and that a node with a callback to come belongs to a session that is    *)
(* allocated and has no other timer.  (No part is inductive without the    *)
(* others: a callback may only unlink the session of its node because that *)
(* session is allocated.)                                                  *)
(***************************************************************************)
\* No callback will run on a session that was freed, or twice for one.
PendingOwned == \A n \in Pending : data[n] \in live /\ tdata[data[n]] = n

NatSound == TypeOK /\ WheelSound /\ SessionsLinked /\ PendingOwned

(***************************************************************************)
(* NAT ids.                                                                *)
(***************************************************************************)
LEMMA IdSetType ==
  ASSUME NEW p \in Protocols PROVE IdSetOf(p) \in IdSets
  BY DEF IdSets

\* What a packet from the LAN does to the sessions.
LEMMA LanCases ==
  ASSUME Lan
  PROVE  \/ \E k \in Flows, syn \in BOOLEAN : Renew(k, syn)
         \/ \E k \in Flows, i \in Ids, s \in Sessions, m \in Nodes : Open(k, i, s, m)
         \/ UNCHANGED <<live, flow, id, young, age, tdata, lan2wan, wan2lan>>
  <1>1. \A k \in Flows, i \in Ids : OpenNoMemory(k, i) =>
          UNCHANGED <<live, flow, id, young, age, tdata, lan2wan, wan2lan>>
    BY DEF OpenNoMemory, GiveBack
  <1>2. \A k \in Flows, i \in Ids, s \in Sessions, m \in Nodes : OpenMapFails(k, i, s, m) =>
          UNCHANGED <<live, flow, id, young, age, tdata, lan2wan, wan2lan>>
    BY DEF OpenMapFails, GiveBack
  <1> QED BY <1>1, <1>2 DEF Lan

LEMMA PutBackType ==
  ASSUME NEW free \in [IdSets -> [Ids -> Nat]], NEW p \in Protocols, NEW i \in Ids
  PROVE  PutBack(free, p, i) \in [IdSets -> [Ids -> Nat]]
  BY IdSetType DEF PutBack

LEMMA IdSpaceType == IdSpace \in Nat \ {0} /\ Ids \subseteq Nat
  BY IdsAssumption DEF IdSpace, Ids

LEMMA TakeIdType ==
  ASSUME TypeOK, NEW p \in Protocols, NEW i \in Ids, CanGet(p, i)
  PROVE  /\ FreeIdsAfter(p, i) \in [IdSets -> [Ids -> Nat]]
         /\ CurIdAfter(p, i) \in [IdSets -> Ids]
  <1>1. IdSetOf(p) \in IdSets
    BY IdSetType
  <1>2. freeIds \in [IdSets -> [Ids -> Nat]] /\ curId \in [IdSets -> Ids]
    BY DEF TypeOK
  <1>3. FreeIdsAfter(p, i) \in [IdSets -> [Ids -> Nat]]
    BY <1>1, <1>2 DEF FreeIdsAfter, Reuses, Reusable
  <1>4. \A c \in Ids : (c + 1) % IdSpace \in Ids
    BY ModRange, IdSpaceType DEF Ids
  <1>5. CurIdAfter(p, i) \in [IdSets -> Ids]
    BY <1>1, <1>2, <1>4 DEF CurIdAfter
  <1> QED BY <1>3, <1>5

(***************************************************************************)
(* Sessions.                                                               *)
(***************************************************************************)
\* What Unlink does to a session that is linked: both keys, the id and the
\* object go.
LEMMA UnlinkAll ==
  ASSUME TypeOK, SessionsLinked, NEW s \in live, Unlink(s)
  PROVE  /\ wan2lan' = [wan2lan EXCEPT ![WanKey(s)] = NoSession]
         /\ lan2wan' = [lan2wan EXCEPT ![flow[s]] = NoSession]
         /\ live' = live \ {s}
         /\ freeIds' = PutBack(freeIds, flow[s].proto, id[s])
         /\ flow' = [flow EXCEPT ![s] = NoFlow]
         /\ id' = [id EXCEPT ![s] = 0]
         /\ young' = [young EXCEPT ![s] = FALSE]
         /\ age' = [age EXCEPT ![s] = 0]
         /\ tdata' = [tdata EXCEPT ![s] = NoNode]
  <1>1. wan2lan[WanKey(s)] = s /\ lan2wan[flow[s]] = s
    BY DEF SessionsLinked
  <1> QED BY <1>1 DEF Unlink

LEMMA UnlinkKeepsType ==
  ASSUME TypeOK, SessionsLinked, WheelTypeOK', NEW s \in live, Unlink(s)
  PROVE  TypeOK'
  <1>1. flow[s] \in Flows /\ flow[s].proto \in Protocols /\ s \in Sessions /\ id[s] \in Ids
    BY FlowsAssumption DEF SessionsLinked, TypeOK
  <1>2. freeIds' \in [IdSets -> [Ids -> Nat]]
    BY <1>1, UnlinkAll, PutBackType DEF TypeOK
  <1>3. 0 \in Ids
    BY IdSpaceType DEF Ids
  <1>4. UNCHANGED <<curId, idRange, portMap>>
    BY DEF Unlink
  <1>5. WanKey(s) \in WanKeys
    BY <1>1 DEF WanKey, WanKeys
  <1>6. /\ lan2wan' \in [Flows -> Sessions \cup {NoSession}]
        /\ wan2lan' \in [WanKeys -> Sessions \cup {NoSession}]
        /\ live' \subseteq Sessions
    BY <1>1, <1>5, UnlinkAll DEF TypeOK
  <1>7. flow' \in [Sessions -> Flows \cup {NoFlow}] /\ young' \in [Sessions -> BOOLEAN]
    BY <1>1, UnlinkAll DEF TypeOK
  <1>8. id' \in [Sessions -> Ids] /\ age' \in [Sessions -> Int]
    BY <1>1, <1>3, UnlinkAll DEF TypeOK
  <1>9. tdata' \in [Sessions -> Nodes \cup {NoNode}]
    BY <1>1, UnlinkAll DEF TypeOK
  <1> QED BY <1>2, <1>4, <1>6, <1>7, <1>8, <1>9 DEF TypeOK

LEMMA UnlinkKeepsLinks ==
  ASSUME TypeOK, SessionsLinked, NEW s \in live, Unlink(s)
  PROVE  SessionsLinked'
  <1>1. /\ lan2wan \in [Flows -> Sessions \cup {NoSession}]
        /\ wan2lan \in [WanKeys -> Sessions \cup {NoSession}]
        /\ flow \in [Sessions -> Flows \cup {NoFlow}] /\ id \in [Sessions -> Ids]
        /\ live \subseteq Sessions /\ NoSession \notin Sessions
    BY SessionAssumption DEF TypeOK, Sessions
  <1>2. /\ lan2wan' = [lan2wan EXCEPT ![flow[s]] = NoSession]
        /\ wan2lan' = [wan2lan EXCEPT ![WanKey(s)] = NoSession]
        /\ live' = live \ {s}
        /\ flow' = [flow EXCEPT ![s] = NoFlow] /\ id' = [id EXCEPT ![s] = 0]
    BY UnlinkAll
  <1>3. \A x \in live : flow[x] \in Flows /\ flow[x].proto \in Protocols /\ WanKey(x) \in WanKeys
    BY <1>1, FlowsAssumption DEF SessionsLinked, WanKey, WanKeys
  <1>4. \A x \in live \ {s} : flow'[x] = flow[x] /\ id'[x] = id[x]
    BY <1>1, <1>2
  <1>5. ASSUME NEW k \in Flows, lan2wan'[k] # NoSession
        PROVE  lan2wan'[k] \in live' /\ flow'[lan2wan'[k]] = k
    <2>1. lan2wan'[k] = lan2wan[k] /\ lan2wan[k] \in live /\ flow[lan2wan[k]] = k
      BY <1>1, <1>2, <1>3, <1>5 DEF SessionsLinked
    <2>2. lan2wan[k] # s
      BY <1>1, <1>2, <1>3, <1>5, <2>1
    <2> QED BY <1>2, <1>4, <2>1, <2>2
  <1>6. ASSUME NEW w \in WanKeys, wan2lan'[w] # NoSession
        PROVE  /\ wan2lan'[w] \in live'
               /\ <<flow'[wan2lan'[w]].proto, id'[wan2lan'[w]]>> = w
    <2>1. wan2lan'[w] = wan2lan[w] /\ wan2lan[w] \in live /\ WanKey(wan2lan[w]) = w
      BY <1>1, <1>2, <1>3, <1>6 DEF SessionsLinked
    <2>2. wan2lan[w] # s
      BY <1>1, <1>2, <1>3, <1>6, <2>1
    <2> QED BY <1>2, <1>4, <2>1, <2>2 DEF WanKey
  <1>7. ASSUME NEW x \in live'
        PROVE  flow'[x] \in Flows /\ lan2wan'[flow'[x]] = x /\ wan2lan'[<<flow'[x].proto, id'[x]>>] = x
    <2>1. x \in live \ {s} /\ lan2wan[flow[x]] = x /\ wan2lan[WanKey(x)] = x
      BY <1>2, <1>7 DEF SessionsLinked
    <2>2. flow[x] # flow[s] /\ WanKey(x) # WanKey(s)
      BY <2>1 DEF SessionsLinked
    <2> QED BY <1>1, <1>2, <1>3, <1>4, <2>1, <2>2 DEF WanKey
  <1> QED BY <1>5, <1>6, <1>7 DEF SessionsLinked, WanKey

\* The callback of n unlinks the session of n, and n leaves the wheel.
LEMMA UnlinkSound ==
  ASSUME NatSound, NEW n \in todo, FireOnly(n), Unlink(data[n])
  PROVE  NatSound'
  <1> USE DEF NatSound
  <1>1. WheelSound' /\ n \in Pending /\ Pending' = Pending \ {n}
    BY SoundFireOnly
  <1>2. data[n] \in live /\ tdata[data[n]] = n
    BY <1>1 DEF PendingOwned
  <1>3. TypeOK' /\ SessionsLinked'
    BY <1>1, <1>2, UnlinkKeepsType, UnlinkKeepsLinks DEF WheelSound
  <1>4. live' = live \ {data[n]} /\ tdata' = [tdata EXCEPT ![data[n]] = NoNode]
    BY <1>2, UnlinkAll
  <1>5. data' = [data EXCEPT ![n] = NoData]
    BY DEF FireOnly
  <1>6. /\ live \subseteq Sessions /\ tdata \in [Sessions -> Nodes \cup {NoNode}]
        /\ data \in [Nodes -> Data \cup {NoData}] /\ Pending \subseteq Nodes
    BY DEF TypeOK, WheelTypeOK, Pending, Listed
  <1>7. PendingOwned'
    <2>1. ASSUME NEW y \in Pending' PROVE data'[y] \in live' /\ tdata'[data'[y]] = y
      BY <1>1, <1>2, <1>4, <1>5, <1>6 DEF PendingOwned
    <2> QED BY <2>1 DEF PendingOwned
  <1> QED BY <1>1, <1>3, <1>7

\* The callback of n arms m for the session of n.
LEMMA RearmSound ==
  ASSUME NatSound, NEW n \in todo, NEW m \in Nodes, Rearm(n, m)
  PROVE  NatSound'
  <1> USE DEF NatSound
  <1>1. FireRearm(n, m)
    BY DEF Rearm
  <1>2. /\ WheelSound' /\ n \in Pending /\ m \notin Pending
        /\ Pending' \subseteq (Pending \ {n}) \cup {m}
    BY <1>1, SoundFireRearm
  <1>3. data[n] \in live /\ tdata[data[n]] = n
    BY <1>2 DEF PendingOwned
  <1>4. /\ tdata' = [tdata EXCEPT ![data[n]] = m]
        /\ data' = [data EXCEPT ![m] = data[n], ![n] = NoData]
        /\ UNCHANGED <<lan2wan, wan2lan, live, flow, id, young, age, freeIds, curId, idRange, portMap>>
    BY <1>1 DEF Rearm, FireRearm
  <1>5. /\ live \subseteq Sessions /\ tdata \in [Sessions -> Nodes \cup {NoNode}]
        /\ data \in [Nodes -> Data \cup {NoData}] /\ Pending \subseteq Nodes
    BY DEF TypeOK, WheelTypeOK, Pending, Listed
  <1>6. TypeOK'
    BY <1>2, <1>3, <1>4, <1>5 DEF TypeOK, WheelSound
  <1>7. SessionsLinked'
    BY <1>4 DEF SessionsLinked, WanKey
  <1>8. PendingOwned'
    <2>1. ASSUME NEW y \in Pending' PROVE data'[y] \in live' /\ tdata'[data'[y]] = y
      BY <1>2, <1>3, <1>4, <1>5 DEF PendingOwned
    <2> QED BY <2>1 DEF PendingOwned
  <1> QED BY <1>2, <1>6, <1>7, <1>8

\* A session is opened.
LEMMA OpenSound ==
  ASSUME NatSound, NEW k \in Flows, NEW i \in Ids, NEW s \in Sessions, NEW m \in Nodes,
         Open(k, i, s, m)
  PROVE  NatSound'
  <1> USE DEF NatSound
  <1>1. Arm(m, s, FALSE) /\ FirstPacket(k, i) /\ s \notin live /\ ~Collides(k, i)
    BY DEF Open
  <1>2. WheelSound' /\ m \notin Pending /\ Pending' \subseteq Pending \cup {m}
    BY <1>1, SoundArm DEF Sessions
  <1>3. /\ lan2wan' = [lan2wan EXCEPT ![k] = s]
        /\ wan2lan' = [wan2lan EXCEPT ![<<k.proto, i>>] = s]
        /\ live' = live \cup {s}
        /\ flow' = [flow EXCEPT ![s] = k] /\ id' = [id EXCEPT ![s] = i]
        /\ tdata' = [tdata EXCEPT ![s] = m]
        /\ data' = [data EXCEPT ![m] = s]
    BY <1>1 DEF Open, Arm, ArmAfter
  <1>4. k.proto \in Protocols /\ CanGet(k.proto, i) /\ lan2wan[k] = NoSession
    BY <1>1, FlowsAssumption DEF FirstPacket
  <1>5. <<k.proto, i>> \in WanKeys /\ wan2lan[<<k.proto, i>>] = NoSession
    BY <1>1, <1>4 DEF WanKeys, Collides
  <1>6. /\ lan2wan \in [Flows -> Sessions \cup {NoSession}]
        /\ wan2lan \in [WanKeys -> Sessions \cup {NoSession}]
        /\ flow \in [Sessions -> Flows \cup {NoFlow}] /\ id \in [Sessions -> Ids]
        /\ live \subseteq Sessions /\ NoSession \notin Sessions
        /\ tdata \in [Sessions -> Nodes \cup {NoNode}]
        /\ data \in [Nodes -> Data \cup {NoData}] /\ Pending \subseteq Nodes
    BY SessionAssumption DEF TypeOK, Sessions, WheelTypeOK, Pending, Listed
  <1>7. TypeOK'
    <2>1. freeIds' \in [IdSets -> [Ids -> Nat]] /\ curId' \in [IdSets -> Ids]
      BY <1>4, TakeIdType DEF Open
    <2>2. young' \in [Sessions -> BOOLEAN]
      <3>1. young' = [young EXCEPT ![s] = k.proto \in {"icmp", "tcp"}]
        BY DEF Open
      <3>2. (k.proto \in {"icmp", "tcp"}) \in BOOLEAN
        OBVIOUS
      <3> QED BY <3>1, <3>2 DEF TypeOK
    <2>3. age' \in [Sessions -> Int]
      BY DEF Open, TypeOK
    <2>4. /\ lan2wan' \in [Flows -> Sessions \cup {NoSession}]
          /\ wan2lan' \in [WanKeys -> Sessions \cup {NoSession}]
          /\ live' \subseteq Sessions
      BY <1>3, <1>5, <1>6
    <2>5. flow' \in [Sessions -> Flows \cup {NoFlow}] /\ id' \in [Sessions -> Ids]
      BY <1>3, <1>6
    <2>6. tdata' \in [Sessions -> Nodes \cup {NoNode}]
      BY <1>3, <1>6
    <2>7. idRange' = idRange /\ portMap' = portMap
      BY DEF Open
    <2> QED BY <1>2, <2>1, <2>2, <2>3, <2>4, <2>5, <2>6, <2>7 DEF TypeOK, WheelSound
  <1>8. \A x \in live : /\ flow'[x] = flow[x] /\ id'[x] = id[x]
                        /\ flow[x] \in Flows /\ flow[x] # k
                        /\ WanKey(x) \in WanKeys /\ WanKey(x) # <<k.proto, i>>
    BY <1>1, <1>3, <1>4, <1>5, <1>6, FlowsAssumption DEF SessionsLinked, WanKey, WanKeys
  <1>9. SessionsLinked'
    <2>1. ASSUME NEW f \in Flows, lan2wan'[f] # NoSession
          PROVE  lan2wan'[f] \in live' /\ flow'[lan2wan'[f]] = f
      <3>1. CASE f = k
        BY <1>3, <1>6, <3>1
      <3>2. CASE f # k
        BY <1>3, <1>6, <1>8, <2>1, <3>2 DEF SessionsLinked
      <3> QED BY <3>1, <3>2
    <2>2. ASSUME NEW w \in WanKeys, wan2lan'[w] # NoSession
          PROVE  wan2lan'[w] \in live' /\ <<flow'[wan2lan'[w]].proto, id'[wan2lan'[w]]>> = w
      <3>1. CASE w = <<k.proto, i>>
        BY <1>3, <1>5, <1>6, <3>1
      <3>2. CASE w # <<k.proto, i>>
        BY <1>3, <1>6, <1>8, <2>2, <3>2 DEF SessionsLinked, WanKey
      <3> QED BY <3>1, <3>2
    <2>3. ASSUME NEW x \in live'
          PROVE  flow'[x] \in Flows /\ lan2wan'[flow'[x]] = x
                 /\ wan2lan'[<<flow'[x].proto, id'[x]>>] = x
      <3>1. CASE x = s
        BY <1>3, <1>5, <1>6, <3>1
      <3>2. CASE x # s
        BY <1>3, <1>6, <1>8, <2>3, <3>2 DEF SessionsLinked, WanKey
      <3> QED BY <3>1, <3>2
    <2> QED BY <2>1, <2>2, <2>3 DEF SessionsLinked, WanKey
  <1>10. PendingOwned'
    <2>1. ASSUME NEW y \in Pending' PROVE data'[y] \in live' /\ tdata'[data'[y]] = y
      BY <1>1, <1>2, <1>3, <1>6 DEF PendingOwned
    <2> QED BY <2>1 DEF PendingOwned
  <1> QED BY <1>2, <1>7, <1>9, <1>10

\* What the maps, sessions and timers are about does not change.
LinkVars == <<lan2wan, wan2lan, live, flow, id, tdata>>

LEMMA SameLinks ==
  ASSUME SessionsLinked, UNCHANGED LinkVars PROVE SessionsLinked'
  BY DEF SessionsLinked, WanKey, LinkVars

LEMMA OwnedStill ==
  ASSUME PendingOwned, UNCHANGED LinkVars, Pending' \subseteq Pending,
         \A n \in Pending' : data'[n] = data[n]
  PROVE  PendingOwned'
  BY DEF PendingOwned, LinkVars

LEMMA GiveBackType ==
  ASSUME TypeOK, NEW k \in Flows, NEW i \in Ids, FirstPacket(k, i), GiveBack(k, i)
  PROVE  /\ freeIds' \in [IdSets -> [Ids -> Nat]]
         /\ curId' \in [IdSets -> Ids]
  BY FlowsAssumption, TakeIdType, PutBackType DEF FirstPacket, GiveBack

LEMMA OpenNoMemorySound ==
  ASSUME NatSound, NEW k \in Flows, NEW i \in Ids, OpenNoMemory(k, i)
  PROVE  NatSound'
  <1> USE DEF NatSound
  <1>1. WheelSound' /\ Pending' = Pending
    BY SoundStutter DEF OpenNoMemory
  <1>2. TypeOK'
    BY <1>1, GiveBackType DEF OpenNoMemory, GiveBack, TypeOK, WheelSound
  <1>3. SessionsLinked' /\ PendingOwned'
    BY <1>1, SameLinks, OwnedStill DEF OpenNoMemory, GiveBack, LinkVars, wheelVars
  <1> QED BY <1>1, <1>2, <1>3

\* The node of a session that could not be opened stays on the ring, but it
\* is not pending.
LEMMA OpenMapFailsSound ==
  ASSUME NatSound, NEW k \in Flows, NEW i \in Ids, NEW s \in Sessions, NEW m \in Nodes,
         OpenMapFails(k, i, s, m)
  PROVE  NatSound'
  <1> USE DEF NatSound
  <1>1. Arm(m, s, TRUE)
    BY DEF OpenMapFails
  <1>2. WheelSound' /\ m \notin Pending /\ Pending' \subseteq Pending
    BY <1>1, SoundArm DEF Sessions
  <1>3. TypeOK'
    BY <1>2, GiveBackType DEF OpenMapFails, GiveBack, TypeOK, WheelSound
  <1>4. \A n \in Pending : data'[n] = data[n]
    BY <1>1, <1>2 DEF Arm, ArmAfter, TypeOK, WheelTypeOK, Pending, Listed
  <1>5. SessionsLinked' /\ PendingOwned'
    BY <1>2, <1>4, SameLinks, OwnedStill DEF OpenMapFails, GiveBack, LinkVars
  <1> QED BY <1>2, <1>3, <1>5

LEMMA RenewSound ==
  ASSUME NatSound, NEW k \in Flows, NEW syn \in BOOLEAN, Renew(k, syn)
  PROVE  NatSound'
  <1> USE DEF NatSound
  <1>1. WheelSound' /\ Pending' = Pending
    BY SoundStutter DEF Renew
  <1>2. lan2wan[k] \in Sessions
    BY DEF Renew, TypeOK, SessionsLinked
  <1>3. young' \in [Sessions -> BOOLEAN] /\ age' \in [Sessions -> Int]
    <2>1. (young[lan2wan[k]] /\ ~(k.proto = "tcp" /\ ~syn)) \in BOOLEAN
      OBVIOUS
    <2>2. young' = [young EXCEPT ![lan2wan[k]] = young[lan2wan[k]] /\ ~(k.proto = "tcp" /\ ~syn)]
      BY DEF Renew
    <2> QED BY <1>2, <2>1, <2>2 DEF Renew, TypeOK
  <1>4. TypeOK'
    BY <1>1, <1>3 DEF Renew, TypeOK, WheelSound
  <1>5. SessionsLinked' /\ PendingOwned'
    BY <1>1, SameLinks, OwnedStill DEF Renew, LinkVars, wheelVars
  <1> QED BY <1>1, <1>4, <1>5

LEMMA OperatorSound ==
  ASSUME NatSound, Operator PROVE NatSound'
  <1> USE DEF NatSound
  <1>1. UNCHANGED wheelVars /\ UNCHANGED LinkVars /\ UNCHANGED <<young, age, freeIds>>
    BY DEF Operator, PortMapAdd, PortMapDel, SetIdRange, natVars, LinkVars
  <1>2. WheelSound' /\ Pending' = Pending
    BY <1>1, SoundStutter
  <1>3. curId' \in [IdSets -> Ids] /\ idRange' \in [min : Ids, max : Ids]
    <2>1. CASE \E r \in Rules : PortMapAdd(r) \/ PortMapDel(r)
      BY <2>1 DEF PortMapAdd, PortMapDel, natVars, TypeOK
    <2>2. ASSUME NEW r \in Ranges, SetIdRange(r)
          PROVE  curId' \in [IdSets -> Ids] /\ idRange' \in [min : Ids, max : Ids]
      <3>1. r \in [min : Ids, max : Ids]
        BY RangesAssumption
      <3> QED BY <2>2, <3>1 DEF SetIdRange
    <2> QED BY <2>1, <2>2 DEF Operator
  <1>4. portMap' \subseteq Rules
    BY DEF Operator, PortMapAdd, PortMapDel, SetIdRange, TypeOK
  <1>5. TypeOK'
    BY <1>1, <1>2, <1>3, <1>4 DEF TypeOK, WheelSound, LinkVars
  <1>6. SessionsLinked' /\ PendingOwned'
    BY <1>1, <1>2, SameLinks, OwnedStill DEF wheelVars
  <1> QED BY <1>2, <1>5, <1>6

LEMMA ElapseSound ==
  ASSUME NatSound, NEW d \in ClockSteps, Elapse(d) PROVE NatSound'
  <1> USE DEF NatSound
  <1>1. WheelSound' /\ Pending' = Pending
    BY SoundClock, ClockAssumption DEF Elapse
  <1>2. age' \in [Sessions -> Int]
    BY ClockAssumption, AgeCapAssumption DEF Elapse, TypeOK
  <1>3. TypeOK'
    BY <1>1, <1>2 DEF Elapse, TypeOK, WheelSound
  <1>4. SessionsLinked' /\ PendingOwned'
    BY <1>1, SameLinks, OwnedStill DEF Elapse, LinkVars, ClockStep, nodeVars
  <1> QED BY <1>1, <1>3, <1>4

\* The steps of the wheel that run no callback.
LEMMA WheelStepSound ==
  ASSUME NatSound, Handle \/ NextSlot \/ \E n \in Nodes : Skip(n)
  PROVE  NatSound' /\ UNCHANGED <<natVars, portMap>> /\ \A x \in Pending : data'[x] = data[x]
  <1> USE DEF NatSound
  <1>1. UNCHANGED <<natVars, portMap>>
    BY DEF Handle, NextSlot, Skip
  <1>2. WheelSound' /\ Pending' \subseteq Pending /\ \A x \in Pending : data'[x] = data[x]
    <2>1. CASE Handle
      BY <2>1, SoundHandleBegin DEF Handle, HandleBegin, nodeVars
    <2>2. CASE NextSlot
      BY <2>2, SoundSlotDone DEF NextSlot, SlotDone
    <2>3. ASSUME NEW n \in Nodes, Skip(n)
          PROVE  WheelSound' /\ Pending' \subseteq Pending /\ \A x \in Pending : data'[x] = data[x]
      <3>1. n \in todo /\ SkipDeleted(n) /\ n \notin Pending
        BY <2>3 DEF Skip, SkipDeleted, Pending
      <3>2. \A x \in Pending : x # n /\ data'[x] = data[x]
        BY <3>1 DEF SkipDeleted, TypeOK, WheelTypeOK, Pending, Listed
      <3> QED BY <3>1, <3>2, SoundSkip
    <2> QED BY <2>1, <2>2, <2>3
  <1>3. TypeOK'
    BY <1>1, <1>2 DEF natVars, TypeOK, WheelSound
  <1>4. SessionsLinked' /\ PendingOwned'
    BY <1>1, <1>2, SameLinks, OwnedStill DEF natVars, LinkVars
  <1> QED BY <1>1, <1>2, <1>3, <1>4

(***************************************************************************)
(* The invariant holds in every reachable state.                           *)
(***************************************************************************)
LEMMA NatSoundInit ==
  ASSUME Init PROVE NatSound
  <1>1. WheelSound /\ Pending = {}
    BY SoundInit DEF Init
  <1>2. TypeOK
    <2>1. 0 \in Ids /\ IdMin \in Ids /\ IdMax \in Ids
      BY IdsAssumption, IdSpaceType DEF Ids
    <2>2. freeIds \in [IdSets -> [Ids -> Nat]] /\ curId \in [IdSets -> Ids]
      BY <2>1 DEF Init
    <2>3. idRange \in [min : Ids, max : Ids] /\ portMap \subseteq Rules
      BY <2>1 DEF Init
    <2>4. /\ lan2wan \in [Flows -> Sessions \cup {NoSession}]
          /\ wan2lan \in [WanKeys -> Sessions \cup {NoSession}]
          /\ live \subseteq Sessions
      BY DEF Init
    <2>5. /\ flow \in [Sessions -> Flows \cup {NoFlow}]
          /\ young \in [Sessions -> BOOLEAN]
          /\ tdata \in [Sessions -> Nodes \cup {NoNode}]
      BY DEF Init
    <2>6. id \in [Sessions -> Ids] /\ age \in [Sessions -> Int]
      BY <2>1 DEF Init
    <2> QED BY <1>1, <2>2, <2>3, <2>4, <2>5, <2>6 DEF TypeOK, WheelSound
  <1>3. SessionsLinked /\ PendingOwned
    BY <1>1 DEF Init, SessionsLinked, PendingOwned
  <1> QED BY <1>1, <1>2, <1>3 DEF NatSound

LEMMA NatSoundNext ==
  ASSUME NatSound, [Next]_vars PROVE NatSound'
  <1>1. CASE Lan
    BY <1>1, RenewSound, OpenNoMemorySound, OpenSound, OpenMapFailsSound DEF Lan
  <1>2. CASE Operator
    BY <1>2, OperatorSound
  <1>3. CASE Wheel
    <2>1. CASE Handle \/ NextSlot \/ \E n \in Nodes : Skip(n)
      BY <2>1, WheelStepSound
    <2>2. ASSUME NEW n \in Nodes, Expire(n) PROVE NatSound'
      BY <2>2, UnlinkSound DEF Expire
    <2>3. ASSUME NEW n \in Nodes, RearmNoMemory(n) PROVE NatSound'
      BY <2>3, UnlinkSound DEF RearmNoMemory
    <2>4. ASSUME NEW n \in Nodes, NEW m \in Nodes, Rearm(n, m) PROVE NatSound'
      BY <2>4, RearmSound DEF Rearm
    <2> QED BY <1>3, <2>1, <2>2, <2>3, <2>4 DEF Wheel, Fire
  <1>4. CASE Time
    BY <1>4, ElapseSound DEF Time
  <1>5. CASE UNCHANGED vars
    <2>1. UNCHANGED wheelVars /\ UNCHANGED LinkVars
      BY <1>5 DEF vars, natVars, LinkVars
    <2>2. WheelSound' /\ Pending' = Pending
      BY <2>1, SoundStutter DEF NatSound
    <2>3. SessionsLinked' /\ PendingOwned'
      BY <2>1, <2>2, SameLinks, OwnedStill DEF NatSound, wheelVars
    <2>4. TypeOK'
      BY <1>5, <2>2 DEF NatSound, TypeOK, vars, natVars, WheelSound
    <2> QED BY <2>2, <2>3, <2>4 DEF NatSound
  <1> QED BY <1>1, <1>2, <1>3, <1>4, <1>5 DEF Next

\* In every reachable state the maps and the sessions of NAT agree, and who
\* has a callback to come is allocated (nat.c:204-240, 330-420, 549-583).
THEOREM NatSoundAlways ==
  Spec => []NatSound
  <1>1. Init => NatSound
    BY NatSoundInit
  <1>2. NatSound /\ [Next]_vars => NatSound'
    BY NatSoundNext
  <1> QED BY <1>1, <1>2, PTL DEF Spec

\* Every variable keeps its type, however long the loop is held up: no id
\* leaves the 16 bits of an unsigned short, no slot the ring (nat.c:148-202,
\* timer.c:64-75).
THEOREM NatTypeCorrect ==
  Spec => []TypeOK
  <1>1. NatSound => TypeOK
    BY DEF NatSound
  <1> QED BY <1>1, NatSoundAlways, PTL

\* A session is allocated exactly as long as both maps find it under its two
\* keys (ixc_nat_do, ixc_nat_del_cb).
THEOREM NatSessionsLinked ==
  Spec => []SessionsLinked
  <1>1. NatSound => SessionsLinked
    BY DEF NatSound
  <1> QED BY <1>1, NatSoundAlways, PTL

\* However long the loop is held up, no callback runs on a session that was
\* freed, or twice for one (ixc_nat_timeout_cb, time_wheel_timeout).
THEOREM NatNoStrayCallback ==
  Spec => []PendingOwned
  <1>1. NatSound => PendingOwned
    BY DEF NatSound
  <1> QED BY <1>1, NatSoundAlways, PTL

(***************************************************************************)
(* NAT implements the table of distinct bindings.                          *)
(***************************************************************************)
LEMMA SameBinding ==
  ASSUME NatSound, UNCHANGED <<lan2wan, id>> PROVE UNCHANGED Binding
  BY DEF Binding

LEMMA OpenBinds ==
  ASSUME NatSound, NEW k \in Flows, NEW i \in Ids, NEW s \in Sessions, NEW m \in Nodes,
         Open(k, i, s, m)
  PROVE  Table!Bind(k, i)
  <1>1. /\ lan2wan[k] = NoSession /\ s \notin live /\ wan2lan[<<k.proto, i>>] = NoSession
        /\ lan2wan' = [lan2wan EXCEPT ![k] = s] /\ id' = [id EXCEPT ![s] = i]
    BY DEF Open, FirstPacket, Collides
  <1>2. /\ lan2wan \in [Flows -> Sessions \cup {NoSession}] /\ id \in [Sessions -> Ids]
        /\ live \subseteq Sessions /\ NoSession \notin Sessions
    BY SessionAssumption DEF NatSound, TypeOK, Sessions
  <1>3. \A f \in Flows : lan2wan[f] # NoSession => lan2wan[f] \in live /\ flow[lan2wan[f]] = f
    BY DEF NatSound, SessionsLinked
  <1>4. NoId \notin Ids
    BY IdSpaceType DEF NoId, Ids
  <1>5. ASSUME NEW f \in Flows, f.proto = k.proto PROVE Binding[f] # i
    <2>1. CASE lan2wan[f] = NoSession
      BY <1>4, <2>1 DEF Binding
    <2>2. CASE lan2wan[f] # NoSession
      <3>1. wan2lan[<<f.proto, id[lan2wan[f]]>>] = lan2wan[f]
        BY <1>3, <2>2 DEF NatSound, SessionsLinked, WanKey
      <3> QED BY <1>1, <1>5, <2>2, <3>1 DEF Binding
    <2> QED BY <2>1, <2>2
  <1>6. Binding' = [Binding EXCEPT ![k] = i]
    <2>1. ASSUME NEW f \in Flows
          PROVE  (IF lan2wan'[f] = NoSession THEN NoId ELSE id'[lan2wan'[f]])
                   = IF f = k THEN i ELSE Binding[f]
      BY <1>1, <1>2, <1>3 DEF Binding
    <2> QED BY <2>1 DEF Binding
  <1>7. Binding[k] = NoId
    BY <1>1 DEF Binding
  <1> QED BY <1>5, <1>6, <1>7 DEF Table!Bind, Table!Available

LEMMA UnlinkUnbinds ==
  ASSUME NatSound, NEW n \in todo, FireOnly(n), Unlink(data[n])
  PROVE  Table!Unbind(flow[data[n]])
  <1>1. n \in Pending /\ data[n] \in live
    BY SoundFireOnly DEF NatSound, PendingOwned
  <1> DEFINE s == data[n]
  <1>2. /\ lan2wan' = [lan2wan EXCEPT ![flow[s]] = NoSession]
        /\ id' = [id EXCEPT ![s] = 0]
    BY <1>1, UnlinkAll DEF NatSound
  <1>3. /\ lan2wan \in [Flows -> Sessions \cup {NoSession}] /\ id \in [Sessions -> Ids]
        /\ s \in Sessions /\ s # NoSession
        /\ flow[s] \in Flows /\ lan2wan[flow[s]] = s
    BY <1>1, SessionAssumption DEF NatSound, TypeOK, Sessions, SessionsLinked
  <1>4. \A f \in Flows : f # flow[s] => lan2wan[f] # s
    BY <1>3 DEF NatSound, SessionsLinked
  <1>5. NoId \notin Ids
    BY IdSpaceType DEF NoId, Ids
  <1>6. Binding[flow[s]] # NoId
    BY <1>3, <1>5 DEF Binding
  <1>7. Binding' = [Binding EXCEPT ![flow[s]] = NoId]
    <2>1. ASSUME NEW f \in Flows
          PROVE  (IF lan2wan'[f] = NoSession THEN NoId ELSE id'[lan2wan'[f]])
                   = IF f = flow[s] THEN NoId ELSE Binding[f]
      BY <1>2, <1>3, <1>4 DEF Binding
    <2> QED BY <2>1 DEF Binding
  <1> QED BY <1>6, <1>7 DEF Table!Unbind

LEMMA StepImplementsTable ==
  ASSUME NatSound, [Next]_vars PROVE [Table!Next]_Binding
  <1>1. CASE \E k \in Flows, i \in Ids, s \in Sessions, m \in Nodes : Open(k, i, s, m)
    BY <1>1, OpenBinds DEF Table!Next
  <1>2. ASSUME NEW n \in Nodes, Expire(n) \/ RearmNoMemory(n) PROVE [Table!Next]_Binding
    <2>1. n \in todo /\ FireOnly(n) /\ Unlink(data[n])
      BY <1>2 DEF Expire, RearmNoMemory
    <2>2. flow[data[n]] \in Flows
      BY <2>1, SoundFireOnly DEF NatSound, PendingOwned, SessionsLinked
    <2> QED BY <2>1, <2>2, UnlinkUnbinds DEF Table!Next
  <1>3. CASE \E k \in Flows, i \in Ids : \/ OpenNoMemory(k, i)
                                         \/ \E s \in Sessions, m \in Nodes : OpenMapFails(k, i, s, m)
    BY <1>3, SameBinding DEF OpenNoMemory, OpenMapFails, GiveBack
  <1>4. CASE \E k \in Flows, syn \in BOOLEAN : Renew(k, syn)
    BY <1>4, SameBinding DEF Renew
  <1>5. CASE Operator
    BY <1>5, SameBinding DEF Operator, PortMapAdd, PortMapDel, SetIdRange, natVars
  <1>6. CASE Handle \/ NextSlot \/ \E n \in Nodes : Skip(n) \/ \E m \in Nodes : Rearm(n, m)
    BY <1>6, SameBinding DEF Handle, NextSlot, Skip, Rearm, natVars
  <1>7. CASE Time \/ UNCHANGED vars
    BY <1>7, SameBinding DEF Time, Elapse, vars, natVars
  <1> QED BY <1>1, <1>2, <1>3, <1>4, <1>5, <1>6, <1>7 DEF Next, Lan, Wheel, Fire

\* NAT implements NatTable: whatever fails, expires or is reconfigured, a bound
\* flow keeps its id and no two flows of one protocol share one.
THEOREM NatImplementsTable ==
  Spec => ImplementsNatTable
  <1>1. Init => Table!Init
    BY DEF Init, Table!Init, Binding
  <1>2. NatSound /\ [Next]_vars => [Table!Next]_Binding
    BY StepImplementsTable
  <1> QED BY <1>1, <1>2, NatSoundAlways, PTL DEF Spec, ImplementsNatTable, Table!Spec

\* Of two flows of one protocol with a session at the same time each shows an
\* id of its own (the id sets, cur_id and the refusal of map_add together).
THEOREM NatBindingsDistinct ==
  Spec => []Table!Distinct
  <1> DEFINE P == Binding \in [Flows -> Ids \cup {NoId}] /\ Table!Distinct
  <1>1. Table!Init => P
    BY DEF Table!Init, Table!Distinct
  <1>2. P /\ [Table!Next]_Binding => P'
    BY DEF Table!Next, Table!Bind, Table!Unbind, Table!Available, Table!Distinct
  <1>3. Table!Spec => []P
    BY <1>1, <1>2, PTL DEF Table!Spec
  <1>4. P => Table!Distinct
    OBVIOUS
  <1> QED BY <1>3, <1>4, NatImplementsTable, PTL DEF ImplementsNatTable

(***************************************************************************)
(* No NAT id is lost or given out twice, until the range is changed.       *)
(***************************************************************************)
\* An operator who sets a range sets another one than the first.
InitialNotOffered == [min |-> IdMin, max |-> IdMax] \notin Ranges

Issued(p, i) == IdMin <= i /\ i < curId[p]

\* One clause of IdsConserved.
IdConserved(p, i) ==
  IF Issued(p, i)
  THEN \/ freeIds[p][i] = 1 /\ Holders(p, i) = {}
       \/ freeIds[p][i] = 0 /\ \E s \in live : Holders(p, i) = {s}
  ELSE freeIds[p][i] = 0 /\ Holders(p, i) = {}

IdInv ==
  InitialRange =>
    /\ \A p \in IdSets : IdMin <= curId[p] /\ curId[p] <= IdMax + 1
    /\ \A p \in IdSets, i \in Ids : IdConserved(p, i)

LEMMA IdInvInit ==
  ASSUME Init PROVE IdInv
  <1>1. \A p \in IdSets, i \in Ids : Holders(p, i) = {} /\ freeIds[p][i] = 0 /\ curId[p] = IdMin
    BY DEF Init, Holders
  <1>2. Ids \subseteq Nat
    BY IdSpaceType
  <1> QED BY <1>1, <1>2, IdsAssumption DEF Init, IdInv, IdConserved, Issued

\* Whether ids are conserved is a matter of these.
LEMMA IdInvSame ==
  ASSUME IdInv, UNCHANGED <<live, flow, id, freeIds, curId, idRange>> PROVE IdInv'
  BY DEF IdInv, IdConserved, Issued, Holders, InitialRange

\* What taking an id does to the entry of that id and to the others.
LEMMA TakeId ==
  ASSUME NatSound, IdInv, InitialRange, NEW k \in Protocols, NEW i \in Ids, CanGet(k, i)
  PROVE  /\ FreeIdsAfter(k, i) \in [IdSets -> [Ids -> Nat]]
         /\ CurIdAfter(k, i) \in [IdSets -> Ids]
         /\ Holders(IdSetOf(k), i) = {}
         /\ FreeIdsAfter(k, i)[IdSetOf(k)][i] = 0
         /\ IdMin <= i /\ i <= IdMax /\ i < CurIdAfter(k, i)[IdSetOf(k)]
         /\ \A p \in IdSets : /\ IdMin <= CurIdAfter(k, i)[p]
                              /\ CurIdAfter(k, i)[p] <= IdMax + 1
         /\ \A p \in IdSets, j \in Ids : p # IdSetOf(k) \/ j # i =>
              /\ FreeIdsAfter(k, i)[p][j] = freeIds[p][j]
              /\ j < CurIdAfter(k, i)[p] <=> j < curId[p]
  <1> DEFINE q == IdSetOf(k)
  <1>1. /\ q \in IdSets /\ freeIds \in [IdSets -> [Ids -> Nat]] /\ curId \in [IdSets -> Ids]
        /\ Ids \subseteq Nat /\ i \in Nat /\ curId[q] \in Nat /\ idRange.max = IdMax
        /\ IdMin \in Nat /\ IdMax \in Nat /\ IdMax + 1 < IdSpace /\ IdSpace \in Nat \ {0}
    <2>1. /\ q \in IdSets /\ freeIds \in [IdSets -> [Ids -> Nat]] /\ curId \in [IdSets -> Ids]
          /\ idRange.max = IdMax
      BY IdSetType DEF NatSound, TypeOK, InitialRange
    <2>2. IdSpace \in Nat \ {0} /\ Ids \subseteq Nat
      BY IdSpaceType DEF Ids
    <2>3. IdMin \in Nat /\ IdMax \in Nat /\ IdMax + 1 < IdSpace
      BY IdsAssumption, <2>2 DEF Ids
    <2> QED BY <2>1, <2>2, <2>3
  <1>2. /\ \A p \in IdSets : IdMin <= curId[p] /\ curId[p] <= IdMax + 1 /\ curId[p] \in Nat
        /\ IdConserved(q, i)
    BY <1>1 DEF IdInv
  <1>3. /\ FreeIdsAfter(k, i) \in [IdSets -> [Ids -> Nat]]
        /\ CurIdAfter(k, i) \in [IdSets -> Ids]
    BY TakeIdType DEF NatSound
  <1>4. CASE Reuses(k, i)
    <2>1. freeIds[q][i] > 0 /\ ~Issues(k, i)
      BY <1>4 DEF Reuses, Reusable, Issues
    <2>2. freeIds[q][i] = 1 /\ Holders(q, i) = {} /\ IdMin <= i /\ i < curId[q]
      BY <1>1, <1>2, <2>1 DEF IdConserved, Issued
    <2>3. CurIdAfter(k, i) = curId /\ FreeIdsAfter(k, i) = [freeIds EXCEPT ![q][i] = @ - 1]
      BY <1>4, <2>1 DEF CurIdAfter, FreeIdsAfter
    <2>4. i <= IdMax
      BY <1>1, <1>2, <2>2
    <2> QED BY <1>1, <1>2, <1>3, <2>2, <2>3, <2>4
  <1>5. CASE ~Reuses(k, i)
    <2>1. Issues(k, i) /\ i = curId[q] /\ i <= IdMax
      BY <1>1, <1>5 DEF CanGet, Issues, Fresh
    <2>2. (i + 1) % IdSpace = i + 1
      <3>1. PICK j \in Int : j = i + 1 /\ j \in 0 .. 2 * IdSpace - 1 /\ j < IdSpace
        BY <1>1, <2>1
      <3>2. j % IdSpace = j
        BY <1>1, <3>1, ModWrap
      <3> QED BY <3>1, <3>2
    <2>3. freeIds[q][i] = 0 /\ Holders(q, i) = {}
      BY <1>1, <1>2, <2>1 DEF IdConserved, Issued
    <2>4. CurIdAfter(k, i) = [curId EXCEPT ![q] = i + 1] /\ FreeIdsAfter(k, i) = freeIds
      BY <1>1, <1>5, <2>1, <2>2 DEF CurIdAfter, FreeIdsAfter
    <2>5. ASSUME NEW j \in Ids, j # i PROVE j < i + 1 <=> j < curId[q]
      BY <1>1, <2>1, <2>5
    <2> QED BY <1>1, <1>2, <1>3, <2>1, <2>3, <2>4, <2>5
  <1> QED BY <1>4, <1>5

LEMMA IdInvOpen ==
  ASSUME NatSound, IdInv, InitialRange,
         NEW k \in Flows, NEW i \in Ids, NEW s \in Sessions, NEW m \in Nodes, Open(k, i, s, m)
  PROVE  IdInv'
  <1> DEFINE q == IdSetOf(k.proto)
  <1>1. /\ k.proto \in Protocols /\ CanGet(k.proto, i) /\ s \notin live /\ q \in IdSets
        /\ curId' = CurIdAfter(k.proto, i) /\ freeIds' = FreeIdsAfter(k.proto, i)
        /\ live' = live \cup {s} /\ flow' = [flow EXCEPT ![s] = k] /\ id' = [id EXCEPT ![s] = i]
        /\ idRange' = idRange
    BY FlowsAssumption, IdSetType DEF Open, FirstPacket
  <1>2. flow \in [Sessions -> Flows \cup {NoFlow}] /\ id \in [Sessions -> Ids] /\ live \subseteq Sessions
    BY DEF NatSound, TypeOK
  <1>3. \A x \in live : flow'[x] = flow[x] /\ id'[x] = id[x]
    BY <1>1, <1>2
  <1>4. /\ flow'[s] = k /\ id'[s] = i
    BY <1>1, <1>2
  <1>5. ASSUME NEW p \in IdSets, NEW j \in Ids PROVE IdConserved(p, j)'
    <2>1. CASE p = q /\ j = i
      <3>1. Holders(p, j)' = {s}
        BY <1>1, <1>3, <1>4, <2>1, TakeId DEF Holders
      <3>2. Issued(p, j)' /\ freeIds'[p][j] = 0
        BY <1>1, <2>1, TakeId DEF Issued
      <3> QED BY <1>1, <3>1, <3>2 DEF IdConserved
    <2>2. CASE p # q \/ j # i
      <3>1. Holders(p, j)' = Holders(p, j)
        BY <1>1, <1>3, <1>4, <2>2 DEF Holders
      <3>2. (Issued(p, j)' <=> Issued(p, j)) /\ freeIds'[p][j] = freeIds[p][j]
        BY <1>1, <2>2, TakeId DEF Issued
      <3>3. IdConserved(p, j)
        BY DEF IdInv
      <3> QED BY <1>1, <3>1, <3>2, <3>3 DEF IdConserved
    <2> QED BY <2>1, <2>2
  <1>6. \A p \in IdSets : IdMin <= curId'[p] /\ curId'[p] <= IdMax + 1
    BY <1>1, TakeId
  <1> QED BY <1>5, <1>6 DEF IdInv

LEMMA IdInvGiveBack ==
  ASSUME NatSound, IdInv, InitialRange, NEW k \in Flows, NEW i \in Ids, FirstPacket(k, i), GiveBack(k, i)
  PROVE  IdInv'
  <1> DEFINE q == IdSetOf(k.proto)
             taken == FreeIdsAfter(k.proto, i)
  <1>1. /\ k.proto \in Protocols /\ CanGet(k.proto, i) /\ q \in IdSets
        /\ curId' = CurIdAfter(k.proto, i) /\ freeIds' = PutBack(taken, k.proto, i)
        /\ UNCHANGED <<live, flow, id, idRange>>
    BY FlowsAssumption, IdSetType DEF FirstPacket, GiveBack
  <1>2. idRange.min = IdMin /\ idRange.max = IdMax /\ IdMin \in Nat /\ IdMax \in Nat /\ i \in Nat
    BY IdsAssumption, IdSpaceType DEF InitialRange
  <1>3. IdMin <= i /\ i <= IdMax /\ taken \in [IdSets -> [Ids -> Nat]]
    BY <1>1, TakeId
  <1>4. freeIds' = [taken EXCEPT ![q][i] = @ + 1]
    BY <1>1, <1>2, <1>3 DEF PutBack
  <1>5. ASSUME NEW p \in IdSets, NEW j \in Ids PROVE IdConserved(p, j)'
    <2>1. Holders(p, j)' = Holders(p, j)
      BY <1>1 DEF Holders
    <2>2. CASE p = q /\ j = i
      <3>1. taken[p][j] = 0 /\ Holders(p, j) = {}
        BY <1>1, <2>2, TakeId
      <3>2. freeIds'[p][j] = 1
        BY <1>1, <1>3, <1>4, <2>2, <3>1
      <3>3. Issued(p, j)'
        BY <1>1, <2>2, TakeId DEF Issued
      <3> QED BY <2>1, <3>1, <3>2, <3>3 DEF IdConserved
    <2>3. CASE p # q \/ j # i
      <3>1. freeIds'[p][j] = taken[p][j]
        BY <1>1, <1>3, <1>4, <2>3
      <3>2. (Issued(p, j)' <=> Issued(p, j)) /\ taken[p][j] = freeIds[p][j]
        BY <1>1, <2>3, TakeId DEF Issued
      <3>3. IdConserved(p, j)
        BY DEF IdInv
      <3> QED BY <1>1, <2>1, <3>1, <3>2, <3>3 DEF IdConserved
    <2> QED BY <2>2, <2>3
  <1>6. \A p \in IdSets : IdMin <= curId'[p] /\ curId'[p] <= IdMax + 1
    BY <1>1, TakeId
  <1> QED BY <1>5, <1>6 DEF IdInv

LEMMA IdInvUnlink ==
  ASSUME NatSound, IdInv, InitialRange, NEW s \in live, Unlink(s)
  PROVE  IdInv'
  <1> DEFINE q == IdSetOf(flow[s].proto)
             i == id[s]
  <1>1. /\ live' = live \ {s} /\ freeIds' = PutBack(freeIds, flow[s].proto, i)
        /\ flow' = [flow EXCEPT ![s] = NoFlow] /\ id' = [id EXCEPT ![s] = 0]
        /\ UNCHANGED <<curId, idRange>>
    BY UnlinkAll DEF NatSound, Unlink
  <1>2. /\ freeIds \in [IdSets -> [Ids -> Nat]] /\ live \subseteq Sessions
        /\ flow \in [Sessions -> Flows \cup {NoFlow}] /\ id \in [Sessions -> Ids]
        /\ curId \in [IdSets -> Ids]
    BY DEF NatSound, TypeOK
  <1>3. q \in IdSets /\ i \in Ids /\ i \in Nat /\ s \in Holders(q, i) /\ curId[q] \in Nat
    BY <1>2, FlowsAssumption, IdSetType, IdSpaceType DEF NatSound, SessionsLinked, Holders
  <1>4. IdConserved(q, i) /\ curId[q] <= IdMax + 1
    BY <1>3 DEF IdInv
  <1>5. Issued(q, i) /\ freeIds[q][i] = 0 /\ Holders(q, i) = {s}
    BY <1>3, <1>4 DEF IdConserved
  <1>6. idRange.min = IdMin /\ idRange.max = IdMax /\ IdMin \in Nat /\ IdMax \in Nat
    BY IdsAssumption DEF InitialRange
  <1>7. freeIds' = [freeIds EXCEPT ![q][i] = @ + 1]
    BY <1>1, <1>3, <1>4, <1>5, <1>6 DEF PutBack, Issued
  <1>8. ASSUME NEW p \in IdSets, NEW j \in Ids PROVE IdConserved(p, j)'
    <2>1. Holders(p, j)' = Holders(p, j) \ {s}
      <3>1. \A x \in live \ {s} : flow'[x] = flow[x] /\ id'[x] = id[x]
        BY <1>1, <1>2
      <3> QED BY <1>1, <3>1 DEF Holders
    <2>2. Issued(p, j)' <=> Issued(p, j)
      BY <1>1 DEF Issued
    <2>3. CASE p = q /\ j = i
      <3>1. freeIds'[p][j] = 1
        BY <1>2, <1>3, <1>5, <1>7, <2>3
      <3> QED BY <1>5, <2>1, <2>2, <2>3, <3>1 DEF IdConserved
    <2>4. CASE p # q \/ j # i
      <3>1. s \notin Holders(p, j)
        BY <2>4 DEF Holders
      <3>2. freeIds'[p][j] = freeIds[p][j]
        BY <1>2, <1>3, <1>7, <2>4
      <3>3. IdConserved(p, j) /\ Holders(p, j)' = Holders(p, j)
        BY <2>1, <3>1 DEF IdInv
      <3>4. \A x \in live : Holders(p, j) = {x} => x \in live'
        BY <1>1, <3>1
      <3> QED BY <2>2, <3>2, <3>3, <3>4 DEF IdConserved
    <2> QED BY <2>3, <2>4
  <1>9. \A p \in IdSets : IdMin <= curId'[p] /\ curId'[p] <= IdMax + 1
    BY <1>1 DEF IdInv
  <1> QED BY <1>8, <1>9 DEF IdInv

\* A range, once changed, is never the first one again.
LEMMA RangeStaysChanged ==
  ASSUME InitialNotOffered, [Next]_vars, idRange' # idRange
  PROVE  ~InitialRange'
  <1>1. \E r \in Ranges : SetIdRange(r)
    <2>1. ~Lan
      <3>1. ASSUME NEW k \in Flows, NEW syn \in BOOLEAN, Renew(k, syn) PROVE FALSE
        BY <3>1 DEF Renew
      <3>2. ASSUME NEW k \in Flows, NEW i \in Ids, GiveBack(k, i) PROVE FALSE
        BY <3>2 DEF GiveBack
      <3>3. ASSUME NEW k \in Flows, NEW i \in Ids, NEW s \in Sessions, NEW m \in Nodes,
                   Open(k, i, s, m)
            PROVE  FALSE
        BY <3>3 DEF Open
      <3> QED BY <3>1, <3>2, <3>3 DEF Lan, OpenNoMemory, OpenMapFails
    <2>2. ~Wheel
      BY DEF Wheel, Handle, NextSlot, Fire, Skip, Expire, RearmNoMemory, Unlink, Rearm, natVars
    <2>3. ~Time /\ ~UNCHANGED vars
      BY DEF Time, Elapse, vars, natVars
    <2> QED BY <2>1, <2>2, <2>3 DEF Next, Operator, PortMapAdd, PortMapDel, natVars
  <1> QED BY <1>1 DEF SetIdRange, InitialRange, InitialNotOffered

LEMMA IdInvNext ==
  ASSUME NatSound, IdInv, InitialNotOffered, [Next]_vars PROVE IdInv'
  <1>1. CASE ~InitialRange'
    BY <1>1 DEF IdInv
  <1>2. CASE InitialRange'
    <2>1. InitialRange /\ UNCHANGED idRange
      BY <1>2, RangeStaysChanged DEF InitialRange
    <2>2. ASSUME NEW k \in Flows, NEW i \in Ids, NEW s \in Sessions, NEW m \in Nodes,
                 Open(k, i, s, m)
          PROVE  IdInv'
      BY <2>1, <2>2, IdInvOpen
    <2>3. ASSUME NEW k \in Flows, NEW i \in Ids, FirstPacket(k, i), GiveBack(k, i) PROVE IdInv'
      BY <2>1, <2>3, IdInvGiveBack
    <2>4. ASSUME NEW n \in todo, FireOnly(n), Unlink(data[n]) PROVE IdInv'
      <3>1. data[n] \in live
        BY <2>4, SoundFireOnly DEF NatSound, PendingOwned
      <3> QED BY <2>1, <2>4, <3>1, IdInvUnlink
    <2>5. ASSUME UNCHANGED <<live, flow, id, freeIds, curId, idRange>> PROVE IdInv'
      BY <2>5, IdInvSame
    <2>6. CASE Lan
      BY <2>2, <2>3, <2>5, <2>6 DEF Lan, Renew, OpenNoMemory, OpenMapFails
    <2>7. CASE Operator
      <3>1. \A r \in Ranges : r # idRange
        BY <2>1 DEF InitialRange, InitialNotOffered
      <3> QED BY <2>1, <2>5, <2>7, <3>1 DEF Operator, PortMapAdd, PortMapDel, SetIdRange, natVars
    <2>8. CASE Wheel
      BY <2>4, <2>5, <2>8
         DEF Wheel, Fire, Handle, NextSlot, Skip, Expire, RearmNoMemory, Rearm, natVars
    <2>9. CASE Time \/ UNCHANGED vars
      BY <2>5, <2>9 DEF Time, Elapse, vars, natVars
    <2> QED BY <2>6, <2>7, <2>8, <2>9 DEF Next
  <1> QED BY <1>1, <1>2

\* Until an operator changes the range, every NAT id below cur_id is on the
\* free list once or held by one session (ixc_nat_id_get, ixc_nat_id_put).
THEOREM NatIdsConserved ==
  ASSUME InitialNotOffered PROVE Spec => []IdsConserved
  <1>1. Init => IdInv
    BY IdInvInit
  <1>2. NatSound /\ IdInv /\ [Next]_vars => IdInv'
    BY IdInvNext
  <1>3. IdInv => IdsConserved
    BY DEF IdInv, IdsConserved, IdConserved, Issued
  <1> QED BY <1>1, <1>2, <1>3, NatSoundAlways, PTL DEF Spec

(***************************************************************************)
(* A flow that is heard from keeps its binding.                            *)
(***************************************************************************)
\* Only a callback that finds a session silent, or that finds no memory to
\* arm its timer again, takes a session or its id away.
THEOREM NatActiveKeepsId ==
  ASSUME ~MallocFails PROVE Spec => ActiveKeepsId
  <1> DEFINE Kept(s) == s \in live' /\ flow'[s] = flow[s] /\ id'[s] = id[s]
  <1>1. ASSUME NatSound, Next, NEW s \in live, age[s] < TimeoutOf(s) PROVE Kept(s)
    <2>1. /\ flow \in [Sessions -> Flows \cup {NoFlow}] /\ id \in [Sessions -> Ids]
          /\ live \subseteq Sessions
      BY <1>1 DEF NatSound, TypeOK
    <2>2. CASE Lan
      <3>1. ASSUME NEW k \in Flows, NEW i \in Ids, NEW x \in Sessions, NEW m \in Nodes,
                   Open(k, i, x, m)
            PROVE  Kept(s)
        <4>1. /\ x # s /\ live' = live \cup {x}
              /\ flow' = [flow EXCEPT ![x] = k] /\ id' = [id EXCEPT ![x] = i]
          BY <3>1 DEF Open
        <4> QED BY <2>1, <4>1
      <3>2. ASSUME UNCHANGED <<live, flow, id>> PROVE Kept(s)
        BY <3>2
      <3>3. ASSUME NEW k \in Flows, NEW syn \in BOOLEAN, Renew(k, syn) PROVE Kept(s)
        BY <3>3 DEF Renew
      <3> QED BY <2>2, <3>1, <3>2, <3>3, LanCases
    <2>3. ASSUME NEW n \in Nodes, Expire(n) PROVE Kept(s)
      <3>1. n \in todo /\ FireOnly(n) /\ Unlink(data[n]) /\ ~(age[data[n]] < TimeoutOf(data[n]))
        BY <2>3 DEF Expire, Active
      <3>2. data[n] \in live /\ data[n] # s
        BY <1>1, <3>1, SoundFireOnly DEF NatSound, PendingOwned
      <3>3. /\ live' = live \ {data[n]} /\ flow' = [flow EXCEPT ![data[n]] = NoFlow]
            /\ id' = [id EXCEPT ![data[n]] = 0]
        BY <1>1, <3>1, <3>2, UnlinkAll DEF NatSound
      <3> QED BY <2>1, <3>2, <3>3
    <2>4. CASE Operator \/ Time
      BY <1>1, <2>4 DEF Operator, PortMapAdd, PortMapDel, SetIdRange, Time, Elapse, natVars
    <2>5. CASE Wheel /\ ~\E n \in Nodes : Expire(n)
      BY <1>1, <2>5 DEF Wheel, Handle, NextSlot, Fire, Skip, Rearm, RearmNoMemory, natVars
    <2> QED BY <1>1, <2>2, <2>3, <2>4, <2>5 DEF Next
  <1>2. NatSound /\ [Next]_vars =>
          [\A s \in live : age[s] < TimeoutOf(s)
             => s \in live' /\ flow'[s] = flow[s] /\ id'[s] = id[s]]_vars
    BY <1>1
  <1> QED BY <1>2, NatSoundAlways, PTL DEF Spec, ActiveKeepsId

(***************************************************************************)
(* Answers reach the host that asked, if no port map record is for a port  *)
(* of a range ids are taken from.  (The run nat_port_map shows what        *)
(* happens otherwise.)  An id is always one of a range that was set at     *)
(* some time, as long as cur_id does not wrap around.                      *)
(***************************************************************************)
Offered == {i \in Ids : (IdMin <= i /\ i <= IdMax) \/ \E r \in Ranges : r.min <= i /\ i <= r.max}

RulesApart == \A r \in Rules : r.port \notin Offered

NoWrap == \A r \in Ranges : r.max + 1 \in Ids

OfferInv ==
  /\ idRange \in Ranges \cup {[min |-> IdMin, max |-> IdMax]}
  /\ \A p \in IdSets : idRange.min <= curId[p]
  /\ \A p \in IdSets, i \in Ids : freeIds[p][i] > 0 => i \in Offered
  /\ \A s \in live : id[s] \in Offered

LEMMA PutBackOffered ==
  ASSUME NEW free \in [IdSets -> [Ids -> Nat]], NEW p \in Protocols, NEW j \in Ids, j \in Offered,
         \A q \in IdSets, i \in Ids : free[q][i] > 0 => i \in Offered,
         NEW q \in IdSets, NEW i \in Ids, PutBack(free, p, j)[q][i] > 0
  PROVE  i \in Offered
  BY IdSetType DEF PutBack

\* What id_get returns, and where it leaves cur_id and the free list.
LEMMA GetOffered ==
  ASSUME NatSound, OfferInv, NoWrap, NEW p \in Protocols, NEW i \in Ids, CanGet(p, i)
  PROVE  /\ i \in Offered
         /\ \A q \in IdSets : idRange.min <= CurIdAfter(p, i)[q]
         /\ \A q \in IdSets, j \in Ids : FreeIdsAfter(p, i)[q][j] > 0 => j \in Offered
  <1>1. /\ freeIds \in [IdSets -> [Ids -> Nat]] /\ curId \in [IdSets -> Ids]
        /\ IdSetOf(p) \in IdSets /\ Ids \subseteq Nat /\ IdSpace \in Nat \ {0}
    BY IdSetType, IdSpaceType DEF NatSound, TypeOK
  <1>2. idRange.min \in Nat /\ idRange.max \in Nat /\ idRange.max + 1 \in Ids
    <2>1. CASE idRange \in Ranges
      BY <1>1, <2>1, RangesAssumption DEF NoWrap
    <2>2. CASE idRange = [min |-> IdMin, max |-> IdMax]
      BY <2>2, IdsAssumption
    <2> QED BY <2>1, <2>2 DEF OfferInv
  <1>3. CASE Reuses(p, i)
    <2>1. freeIds[IdSetOf(p)][i] > 0
      BY <1>3 DEF Reuses, Reusable
    <2>2. ~Issues(p, i)
      BY <1>3 DEF Reuses, Issues
    <2> QED BY <1>1, <1>3, <2>1, <2>2 DEF OfferInv, CurIdAfter, FreeIdsAfter
  <1>4. CASE Issues(p, i)
    <2>1. i = curId[IdSetOf(p)] /\ i <= idRange.max /\ ~Reuses(p, i) /\ idRange.min <= i
      BY <1>1, <1>4 DEF Issues, Fresh, Reuses, OfferInv
    <2>2. i \in Offered
      BY <2>1 DEF OfferInv, Offered
    <2>3. i + 1 \in Ids /\ (i + 1) % IdSpace = i + 1
      <3>1. i + 1 \in 0 .. 2 * IdSpace - 1 /\ i + 1 < IdSpace /\ i + 1 \in Int
        <4>1. i \in Int /\ i + 1 \in Int /\ 0 <= i + 1
          BY <1>1
        <4>2. i <= idRange.max /\ idRange.max \in Nat
          BY <1>2, <2>1
        <4>4. idRange.max + 1 < IdSpace
          <5>1. PICK n \in Nat : n = idRange.max + 1
            BY <1>2
          <5>2. n \in 0 .. IdSpace - 1
            BY <1>2, <5>1 DEF Ids
          <5> QED BY <1>1, <5>1, <5>2
        <4>3. i + 1 < IdSpace
          BY <1>1, <4>1, <4>2, <4>4
        <4> QED BY <1>1, <4>1, <4>3
      <3>2. PICK x \in Int : x = i + 1
        BY <3>1
      <3>3. x % IdSpace = x
        BY <1>1, <3>1, <3>2, ModWrap
      <3> QED BY <3>1, <3>2, <3>3, <1>1 DEF Ids
    <2>4. CurIdAfter(p, i) = [curId EXCEPT ![IdSetOf(p)] = i + 1]
      BY <1>1, <1>4, <2>1, <2>3 DEF CurIdAfter
    <2> QED BY <1>1, <1>2, <2>1, <2>2, <2>4 DEF OfferInv, FreeIdsAfter
  <1> QED BY <1>3, <1>4 DEF CanGet

LEMMA OfferInvInit ==
  ASSUME Init PROVE OfferInv
  BY IdsAssumption DEF Init, OfferInv

LEMMA OfferSame ==
  ASSUME OfferInv, UNCHANGED <<idRange, curId, freeIds, live, id>> PROVE OfferInv'
  BY DEF OfferInv

LEMMA OfferInvLan ==
  ASSUME NatSound, OfferInv, NoWrap, Lan PROVE OfferInv'
  <1>1. ASSUME NEW k \in Flows, NEW syn \in BOOLEAN, Renew(k, syn) PROVE OfferInv'
    BY <1>1, OfferSame DEF Renew
  <1>2. ASSUME NEW k \in Flows, NEW i \in Ids, FirstPacket(k, i), GiveBack(k, i) PROVE OfferInv'
    <2>1. k.proto \in Protocols /\ CanGet(k.proto, i)
      BY <1>2, FlowsAssumption DEF FirstPacket
    <2>2. /\ curId' = CurIdAfter(k.proto, i)
          /\ freeIds' = PutBack(FreeIdsAfter(k.proto, i), k.proto, i)
          /\ UNCHANGED <<idRange, live, id>>
      BY <1>2 DEF GiveBack
    <2>3. FreeIdsAfter(k.proto, i) \in [IdSets -> [Ids -> Nat]]
      BY <2>1, TakeIdType DEF NatSound
    <2>4. \A q \in IdSets, j \in Ids : freeIds'[q][j] > 0 => j \in Offered
      BY <2>1, <2>2, <2>3, GetOffered, PutBackOffered
    <2> QED BY <2>1, <2>2, <2>4, GetOffered DEF OfferInv
  <1>3. ASSUME NEW k \in Flows, NEW i \in Ids, NEW s \in Sessions, NEW m \in Nodes, Open(k, i, s, m)
        PROVE  OfferInv'
    <2>1. k.proto \in Protocols /\ CanGet(k.proto, i)
      BY <1>3, FlowsAssumption DEF Open, FirstPacket
    <2>2. /\ curId' = CurIdAfter(k.proto, i) /\ freeIds' = FreeIdsAfter(k.proto, i)
          /\ idRange' = idRange /\ live' = live \cup {s} /\ id' = [id EXCEPT ![s] = i]
      BY <1>3 DEF Open
    <2>3. \A x \in live' : id'[x] \in Offered
      BY <2>1, <2>2, GetOffered DEF OfferInv, NatSound, TypeOK
    <2> QED BY <2>1, <2>2, <2>3, GetOffered DEF OfferInv
  <1> QED BY <1>1, <1>2, <1>3 DEF Lan, OpenNoMemory, OpenMapFails

LEMMA OfferInvNext ==
  ASSUME NatSound, OfferInv, NoWrap, [Next]_vars PROVE OfferInv'
  <1>1. ASSUME NEW n \in Nodes, n \in todo, FireOnly(n), Unlink(data[n]) PROVE OfferInv'
    <2>1. PICK s \in live : s = data[n]
      BY <1>1, SoundFireOnly DEF NatSound, PendingOwned
    <2>2. /\ live' = live \ {s} /\ freeIds' = PutBack(freeIds, flow[s].proto, id[s])
          /\ id' = [id EXCEPT ![s] = 0] /\ UNCHANGED <<curId, idRange>>
      BY <1>1, <2>1, UnlinkAll DEF NatSound, Unlink
    <2>3. flow[s].proto \in Protocols /\ id[s] \in Ids /\ id[s] \in Offered
      BY <2>1, FlowsAssumption DEF NatSound, SessionsLinked, TypeOK, OfferInv
    <2>4. \A q \in IdSets, j \in Ids : freeIds'[q][j] > 0 => j \in Offered
      BY <2>2, <2>3, PutBackOffered DEF NatSound, TypeOK, OfferInv
    <2>5. \A x \in live' : id'[x] \in Offered
      BY <2>2 DEF OfferInv, NatSound, TypeOK
    <2> QED BY <2>2, <2>4, <2>5 DEF OfferInv
  <1>2. ASSUME NEW r \in Ranges, SetIdRange(r) PROVE OfferInv'
    <2>1. /\ idRange' = r /\ curId' = [p \in IdSets |-> r.min] /\ r.min \in Ids /\ Ids \subseteq Nat
          /\ UNCHANGED <<freeIds, live, id>>
      BY <1>2, RangesAssumption, IdSpaceType DEF SetIdRange
    <2>2. r.min \in Nat /\ \A p \in IdSets : curId'[p] = r.min
      BY <2>1
    <2>3. \A p \in IdSets : r.min <= curId'[p]
      BY <2>2
    <2> QED BY <2>1, <2>3 DEF OfferInv
  <1>3. CASE Wheel
    BY <1>1, <1>3, OfferSame
       DEF Wheel, Handle, NextSlot, Fire, Skip, Expire, Rearm, RearmNoMemory, natVars
  <1>4. CASE Operator
    BY <1>2, <1>4, OfferSame DEF Operator, PortMapAdd, PortMapDel, natVars
  <1>5. CASE Time \/ UNCHANGED vars
    BY <1>5, OfferSame DEF Time, Elapse, vars, natVars
  <1> QED BY <1>3, <1>4, <1>5, OfferInvLan DEF Next

\* htons() is injective on what an unsigned short holds.
LEMMA TwoDigits ==
  ASSUME NEW b \in Nat \ {0}, NEW x \in 0 .. b - 1, NEW y \in 0 .. b - 1,
         NEW z \in 0 .. b - 1, NEW w \in 0 .. b - 1, x * b + y = z * b + w
  PROVE  x = z /\ y = w
  <1>1. ~(x < z)
    <2> SUFFICES ASSUME x < z PROVE FALSE
      OBVIOUS
    <2>1. (z - x) * b >= b
      BY z - x \in Nat \ {0}
    <2>2. (z - x) * b = z * b - x * b
      OBVIOUS
    <2> QED BY <2>1, <2>2
  <1>2. ~(z < x)
    <2> SUFFICES ASSUME z < x PROVE FALSE
      OBVIOUS
    <2>1. (x - z) * b >= b
      BY x - z \in Nat \ {0}
    <2>2. (x - z) * b = x * b - z * b
      OBVIOUS
    <2> QED BY <2>1, <2>2
  <1> QED BY <1>1, <1>2

LEMMA DivRange ==
  ASSUME NEW b \in Nat \ {0}, NEW x \in 0 .. b * b - 1
  PROVE  x \div b \in 0 .. b - 1 /\ x = (x \div b) * b + (x % b)
  <1>1. x \in Nat /\ x < b * b
    OBVIOUS
  <1>2. x \div b < b
    BY <1>1, DivBound
  <1> QED BY <1>1, <1>2

LEMMA SwapInjective ==
  ASSUME NEW i \in Ids, NEW j \in Ids, Swap(i) = Swap(j) PROVE i = j
  <1>1. ByteBase \in Nat \ {0} /\ i \in 0 .. ByteBase * ByteBase - 1 /\ j \in 0 .. ByteBase * ByteBase - 1
    BY IdsAssumption, IdSpaceType DEF Ids, IdSpace
  <1>2. i % ByteBase \in 0 .. ByteBase - 1 /\ j % ByteBase \in 0 .. ByteBase - 1
    BY <1>1, ModRange
  <1>3. i \div ByteBase \in 0 .. ByteBase - 1 /\ j \div ByteBase \in 0 .. ByteBase - 1
    BY <1>1, DivRange
  <1>4. PICK x \in 0 .. ByteBase - 1, y \in 0 .. ByteBase - 1, z \in 0 .. ByteBase - 1,
             w \in 0 .. ByteBase - 1 :
          x = i % ByteBase /\ y = i \div ByteBase /\ z = j % ByteBase /\ w = j \div ByteBase
    BY <1>2, <1>3
  <1>5. x * ByteBase + y = z * ByteBase + w
    BY <1>4 DEF Swap
  <1>6. x = z /\ y = w
    BY <1>1, <1>5, TwoDigits
  <1> QED BY <1>1, <1>4, <1>6, DivRange

\* The answer to what a LAN host sent reaches that host, whatever sessions
\* came and went before with the same id (ixc_nat_handle_from_wan).
THEOREM NatReplyReachesSender ==
  ASSUME NoWrap, RulesApart PROVE Spec => []ReplyReachesSender
  <1>1. Init => OfferInv
    BY OfferInvInit
  <1>2. NatSound /\ OfferInv /\ [Next]_vars => OfferInv'
    BY OfferInvNext
  <1>3. NatSound /\ OfferInv => ReplyReachesSender
    <2> SUFFICES ASSUME NatSound, OfferInv, NEW s \in live
                 PROVE  WanTarget(flow[s].proto, id[s]) = flow[s].host
      BY DEF ReplyReachesSender
    <2>1. id[s] \in Ids /\ id[s] \in Offered /\ portMap \subseteq Rules
      BY DEF NatSound, TypeOK, OfferInv, Offered
    <2>2. PortMapFind(flow[s].proto, Swap(id[s])) = {}
      BY <2>1, SwapInjective, RulesAssumption DEF PortMapFind, FoundIn, RulesApart
    <2>3. wan2lan[<<flow[s].proto, id[s]>>] = s /\ s # NoSession
      BY SessionAssumption DEF NatSound, SessionsLinked, WanKey, TypeOK, Sessions
    <2> QED BY <2>2, <2>3 DEF WanTarget
  <1> QED BY <1>1, <1>2, <1>3, NatSoundAlways, PTL DEF Spec

(***************************************************************************)
(* Without a stall: the wheel's own invariant, and that every session has  *)
(* its timer.                                                              *)
(***************************************************************************)
SessionsArmed == \A s \in live : tdata[s] \in Pending /\ data[tdata[s]] = s

NatInv == NatSound /\ WheelInv /\ SessionsArmed

LEMMA NatInvTimers == NatInv => TimersMatchSessions
  BY DEF NatInv, NatSound, PendingOwned, SessionsArmed, TimersMatchSessions

LEMMA NatInvInit ==
  ASSUME Init PROVE NatInv
  BY NatSoundInit, InitStep DEF NatInv, Init, SessionsArmed

\* Sessions and pending nodes are as before.
LEMMA ArmedStill ==
  ASSUME SessionsArmed, UNCHANGED <<live, tdata>>, Pending' = Pending,
         \A n \in Pending : data'[n] = data[n]
  PROVE  SessionsArmed'
  BY DEF SessionsArmed

\* The callback of n unlinks the session of n, and n leaves the wheel.
LEMMA UnlinkKeepsTimers ==
  ASSUME NatInv, NEW n \in todo, FireOnly(n), Unlink(data[n])
  PROVE  WheelInv' /\ SessionsArmed'
  <1> USE DEF NatInv, NatSound
  <1>1. WheelInv' /\ n \in Pending /\ Pending' = Pending \ {n}
    BY FireOnlyStep
  <1>2. data[n] \in live /\ tdata[data[n]] = n
    BY <1>1 DEF PendingOwned
  <1>3. live' = live \ {data[n]} /\ tdata' = [tdata EXCEPT ![data[n]] = NoNode]
    BY <1>2, UnlinkAll
  <1>4. data' = [data EXCEPT ![n] = NoData]
    BY DEF FireOnly
  <1>5. /\ live \subseteq Sessions /\ tdata \in [Sessions -> Nodes \cup {NoNode}]
        /\ data \in [Nodes -> Data \cup {NoData}] /\ Pending \subseteq Nodes
    BY DEF TypeOK, WheelTypeOK, Pending, Listed
  <1>6. ASSUME NEW x \in live' PROVE tdata'[x] \in Pending' /\ data'[tdata'[x]] = x
    BY <1>1, <1>2, <1>3, <1>4, <1>5 DEF SessionsArmed
  <1> QED BY <1>1, <1>6 DEF SessionsArmed

\* The callback of n arms m for the session of n.
LEMMA RearmKeepsTimers ==
  ASSUME NatInv, NEW n \in todo, NEW m \in Nodes, Rearm(n, m)
  PROVE  WheelInv' /\ SessionsArmed'
  <1> USE DEF NatInv, NatSound
  <1>1. FireRearm(n, m)
    BY DEF Rearm
  <1>2. /\ WheelInv' /\ n \in Pending /\ m \notin Pending
        /\ Pending' = (Pending \ {n}) \cup {m}
    BY <1>1, FireRearmStep
  <1>3. data[n] \in live /\ tdata[data[n]] = n
    BY <1>2 DEF PendingOwned
  <1>4. /\ tdata' = [tdata EXCEPT ![data[n]] = m] /\ live' = live
        /\ data' = [data EXCEPT ![m] = data[n], ![n] = NoData]
    BY <1>1 DEF Rearm, FireRearm
  <1>5. /\ live \subseteq Sessions /\ tdata \in [Sessions -> Nodes \cup {NoNode}]
        /\ data \in [Nodes -> Data \cup {NoData}] /\ Pending \subseteq Nodes
    BY DEF TypeOK, WheelTypeOK, Pending, Listed
  <1>6. ASSUME NEW x \in live' PROVE tdata'[x] \in Pending' /\ data'[tdata'[x]] = x
    BY <1>2, <1>3, <1>4, <1>5 DEF SessionsArmed
  <1> QED BY <1>2, <1>6 DEF SessionsArmed

\* A session is opened.
LEMMA OpenKeepsTimers ==
  ASSUME NatInv, NEW k \in Flows, NEW i \in Ids, NEW s \in Sessions, NEW m \in Nodes,
         Open(k, i, s, m)
  PROVE  WheelInv' /\ SessionsArmed'
  <1> USE DEF NatInv, NatSound
  <1>1. Arm(m, s, FALSE) /\ s \notin live
    BY DEF Open
  <1>2. WheelInv' /\ m \notin Pending /\ Pending' = Pending \cup {m}
    BY <1>1, ArmStep DEF Sessions
  <1>3. /\ live' = live \cup {s} /\ tdata' = [tdata EXCEPT ![s] = m]
        /\ data' = [data EXCEPT ![m] = s]
    BY <1>1 DEF Open, Arm, ArmAfter
  <1>4. /\ live \subseteq Sessions /\ tdata \in [Sessions -> Nodes \cup {NoNode}]
        /\ data \in [Nodes -> Data \cup {NoData}] /\ Pending \subseteq Nodes
    BY DEF TypeOK, WheelTypeOK, Pending, Listed
  <1>5. ASSUME NEW x \in live' PROVE tdata'[x] \in Pending' /\ data'[tdata'[x]] = x
    BY <1>1, <1>2, <1>3, <1>4 DEF SessionsArmed
  <1> QED BY <1>2, <1>5 DEF SessionsArmed

\* The steps of the wheel that run no callback.
LEMMA WheelKeepsTimers ==
  ASSUME NatInv, NoStall, Handle \/ NextSlot \/ \E n \in Nodes : Skip(n)
  PROVE  WheelInv' /\ SessionsArmed'
  <1>1. UNCHANGED <<natVars, portMap>> /\ \A x \in Pending : data'[x] = data[x]
    BY WheelStepSound DEF NatInv
  <1>2. WheelInv' /\ Pending' = Pending
    BY HandleBeginStep, SlotDoneStep, SkipDeletedStep
       DEF NatInv, Handle, NextSlot, Skip, SkipDeleted
  <1> QED BY <1>1, <1>2, ArmedStill DEF NatInv, natVars

\* Every other step leaves the nodes and whose they are alone.
LEMMA OtherKeepsTimers ==
  ASSUME NatInv, UNCHANGED <<live, tdata>>, WheelInv', Pending' = Pending,
         data' = data \/ \E m \in Nodes \ Pending, d \in Data : data' = [data EXCEPT ![m] = d]
  PROVE  WheelInv' /\ SessionsArmed'
  <1>1. \A n \in Pending : data'[n] = data[n]
    BY DEF NatInv, NatSound, TypeOK, WheelTypeOK, Pending, Listed
  <1> QED BY <1>1, ArmedStill DEF NatInv

LEMMA NatInvNext ==
  ASSUME NatInv, NoStall, [Next]_vars PROVE NatInv'
  <1>1. NatSound'
    BY NatSoundNext DEF NatInv
  <1> SUFFICES WheelInv' /\ SessionsArmed'
    BY <1>1 DEF NatInv
  <1>2. ASSUME UNCHANGED wheelVars, UNCHANGED <<live, tdata>>
        PROVE  WheelInv' /\ SessionsArmed'
    <2>1. WheelInv' /\ Pending' = Pending /\ data' = data
      BY <1>2, StutterStep DEF NatInv, wheelVars
    <2> QED BY <1>2, <2>1, OtherKeepsTimers
  <1>3. CASE Lan
    <2>1. ASSUME NEW k \in Flows, NEW i \in Ids, NEW s \in Sessions, NEW m \in Nodes,
                 OpenMapFails(k, i, s, m)
          PROVE  WheelInv' /\ SessionsArmed'
      <3>1. Arm(m, s, TRUE) /\ UNCHANGED <<live, tdata>>
        BY <2>1 DEF OpenMapFails, GiveBack
      <3>2. WheelInv' /\ m \notin Pending /\ Pending' = Pending
        BY <3>1, ArmStep DEF NatInv, Sessions
      <3>3. data' = [data EXCEPT ![m] = s]
        BY <3>1 DEF Arm, ArmAfter
      <3> QED BY <3>1, <3>2, <3>3, OtherKeepsTimers DEF Sessions
    <2> QED BY <1>2, <1>3, <2>1, OpenKeepsTimers DEF Lan, Renew, OpenNoMemory, GiveBack
  <1>4. CASE Operator \/ UNCHANGED vars
    BY <1>2, <1>4 DEF Operator, PortMapAdd, PortMapDel, SetIdRange, natVars, vars
  <1>5. CASE Wheel
    BY <1>5, WheelKeepsTimers, UnlinkKeepsTimers, RearmKeepsTimers
       DEF Wheel, Fire, Expire, RearmNoMemory, Rearm
  <1>6. ASSUME NEW d \in ClockSteps, Elapse(d) PROVE WheelInv' /\ SessionsArmed'
    <2>1. WheelInv' /\ Pending' = Pending
      BY <1>6, ClockStepStep, ClockAssumption DEF Elapse, NatInv
    <2> QED BY <1>6, <2>1, OtherKeepsTimers DEF Elapse, ClockStep, nodeVars
  <1> QED BY <1>3, <1>4, <1>5, <1>6 DEF Next, Time

\* In every reachable state the wheel is sound and every session has a timer
\* (nat.c:204-240, 330-420, 549-583 keep it so).
THEOREM NatInvAlways ==
  ASSUME NoStall PROVE Spec => []NatInv
  <1>1. Init => NatInv
    BY NatInvInit
  <1>2. NatInv /\ [Next]_vars => NatInv'
    BY NatInvNext
  <1> QED BY <1>1, <1>2, PTL DEF Spec

\* Every session has its one timer, and no callback runs on a session that
\* was freed (ixc_nat_do, ixc_nat_timeout_cb, time_wheel_timeout).
THEOREM NatTimersMatch ==
  ASSUME NoStall PROVE Spec => []TimersMatchSessions
  <1> QED BY NatInvTimers, NatInvAlways, PTL

(***************************************************************************)
(* A silent session is deleted in time.  Its age exceeds its patience by   *)
(* no more than the lag of the wheel, or its callback is due in this walk. *)
(***************************************************************************)
AgeOK(s) == age[s] < Patience(s) + (IF tdata[s] \in todo THEN MaxLag ELSE lag)

AgeInv ==
  /\ left > 0 => lag = 0
  /\ \A s \in live : AgeOK(s)

LEMMA PatienceType ==
  ASSUME NEW s
  PROVE  /\ Patience(s) \in Nat /\ Patience(s) > MaxBack /\ Patience(s) >= TimeoutOf(s)
         /\ TimeoutOf(s) \in Nat
  BY TimeoutAssumption, ClockAssumption DEF Patience, TimeoutOf

\* A session of age 0 is within its patience, wherever its node is.
LEMMA FreshIsOK ==
  ASSUME NEW a \in Nat, NEW l \in -MaxBack .. MaxLag, a > MaxBack
  PROVE  0 < a + l /\ 0 < a + MaxLag
  BY ClockAssumption

LEMMA AgeInvInit ==
  ASSUME Init PROVE AgeInv
  BY DEF Init, WheelInit, AgeInv

LEMMA AgeInvLan ==
  ASSUME NatInv, AgeInv, Lan PROVE AgeInv'
  <1>1. lag \in -MaxBack .. MaxLag /\ todo' = todo /\ lag' = lag /\ left' = left
    <2>1. CASE \E k \in Flows : \/ \E syn \in BOOLEAN : Renew(k, syn)
                                 \/ \E i \in Ids : OpenNoMemory(k, i)
      BY <2>1 DEF Renew, OpenNoMemory, wheelVars, NatInv, NatSound, TypeOK, WheelTypeOK
    <2>2. CASE \E k \in Flows, i \in Ids, s \in Sessions, m \in Nodes :
                 Open(k, i, s, m) \/ OpenMapFails(k, i, s, m)
      BY <2>2 DEF Open, OpenMapFails, Arm, ArmAfter, clockVars, walkVars, NatInv, NatSound, TypeOK, WheelTypeOK
    <2> QED BY <2>1, <2>2 DEF Lan
  <1>2. ASSUME NEW k \in Flows, NEW syn \in BOOLEAN, Renew(k, syn) PROVE AgeInv'
    <2> DEFINE s == lan2wan[k]
    <2>1. /\ age' = [age EXCEPT ![s] = 0] /\ UNCHANGED <<live, tdata>>
          /\ \A x \in Sessions : x # s => young'[x] = young[x]
          /\ age \in [Sessions -> Int] /\ live \subseteq Sessions
      BY <1>2 DEF Renew, NatInv, NatSound, TypeOK
    <2>2. ASSUME NEW x \in live' PROVE AgeOK(x)'
      <3>1. CASE x = s
        <4>1. Patience(x)' \in Nat /\ Patience(x)' > MaxBack
          BY TimeoutAssumption, ClockAssumption DEF Patience, TimeoutOf
        <4>2. age'[x] = 0
          BY <2>1, <2>2, <3>1
        <4> QED BY <1>1, <4>1, <4>2, FreshIsOK DEF AgeOK
      <3>2. CASE x # s
        BY <1>1, <2>1, <2>2, <3>2 DEF AgeInv, AgeOK, Patience, TimeoutOf
      <3> QED BY <3>1, <3>2
    <2> QED BY <1>1, <2>2 DEF AgeInv
  <1>3. ASSUME NEW k \in Flows, NEW i \in Ids, NEW s \in Sessions, NEW m \in Nodes, Open(k, i, s, m)
        PROVE  AgeInv'
    <2>1. /\ age' = [age EXCEPT ![s] = 0] /\ live' = live \cup {s} /\ s \notin live
          /\ \A x \in Sessions : x # s => young'[x] = young[x] /\ tdata'[x] = tdata[x]
          /\ age \in [Sessions -> Int] /\ live \subseteq Sessions
      BY <1>3 DEF Open, NatInv, NatSound, TypeOK
    <2>2. ASSUME NEW x \in live' PROVE AgeOK(x)'
      <3>1. CASE x = s
        <4>1. Patience(x)' \in Nat /\ Patience(x)' > MaxBack
          BY TimeoutAssumption, ClockAssumption DEF Patience, TimeoutOf
        <4>2. age'[x] = 0
          BY <2>1, <3>1
        <4> QED BY <1>1, <4>1, <4>2, FreshIsOK DEF AgeOK
      <3>2. CASE x # s
        BY <1>1, <2>1, <2>2, <3>2 DEF AgeInv, AgeOK, Patience, TimeoutOf
      <3> QED BY <3>1, <3>2
    <2> QED BY <1>1, <2>2 DEF AgeInv
  <1>4. ASSUME UNCHANGED <<live, young, age, tdata>> PROVE AgeInv'
    BY <1>1, <1>4 DEF AgeInv, AgeOK, Patience, TimeoutOf
  <1> QED BY <1>2, <1>3, <1>4, LanCases

LEMMA AgeInvFire ==
  ASSUME NatInv, AgeInv, Fire PROVE AgeInv'
  <1>1. lag' = lag /\ left' = left
    BY DEF Fire, Skip, SkipDeleted, Expire, RearmNoMemory, FireOnly, Rearm, FireRearm
  <1>2. /\ age \in [Sessions -> Int] /\ live \subseteq Sessions
        /\ tdata \in [Sessions -> Nodes \cup {NoNode}] /\ lag \in Int /\ MaxLag \in Nat
    BY ClockAssumption DEF NatInv, NatSound, TypeOK, WheelTypeOK
  <1>3. ASSUME NEW n \in Nodes, Skip(n) PROVE AgeInv'
    <2>1. UNCHANGED <<live, age, young, tdata>> /\ todo' = todo \ {n} /\ n \notin Pending
      BY <1>3 DEF Skip, natVars, SkipDeleted, Pending
    <2>2. \A x \in live : tdata[x] # n
      BY <2>1 DEF NatInv, NatSound, PendingOwned, SessionsArmed
    <2> QED BY <1>1, <2>1, <2>2 DEF AgeInv, AgeOK, Patience, TimeoutOf
  <1>4. ASSUME NEW n \in Nodes, n \in todo, FireOnly(n), Unlink(data[n]) PROVE AgeInv'
    <2>1. n \in Pending /\ data[n] \in live
      BY <1>4, FireOnlyStep DEF NatInv, NatSound, PendingOwned, SessionsArmed
    <2>2. /\ live' = live \ {data[n]} /\ age' = [age EXCEPT ![data[n]] = 0]
          /\ young' = [young EXCEPT ![data[n]] = FALSE]
          /\ tdata' = [tdata EXCEPT ![data[n]] = NoNode]
          /\ todo' = todo \ {n}
      BY <1>4, <2>1, UnlinkAll DEF NatInv, NatSound, FireOnly
    <2>3. \A x \in live' : /\ x \in live /\ age'[x] = age[x] /\ tdata'[x] = tdata[x]
                           /\ young'[x] = young[x] /\ tdata[x] # n
      BY <1>2, <2>1, <2>2 DEF NatInv, NatSound, TypeOK, PendingOwned, SessionsArmed
    <2>4. ASSUME NEW x \in live' PROVE AgeOK(x)'
      <3>1. Patience(x)' = Patience(x)
        BY <2>3 DEF Patience, TimeoutOf
      <3>2. tdata'[x] = tdata[x] /\ tdata[x] # n
        BY <2>3
      <3>3. tdata'[x] \in todo' <=> tdata[x] \in todo
        BY <2>2, <3>2
      <3>4. AgeOK(x) /\ age'[x] = age[x]
        BY <2>3 DEF AgeInv
      <3> QED BY <1>1, <3>1, <3>3, <3>4 DEF AgeOK
    <2> QED BY <1>1, <2>4 DEF AgeInv
  <1>5. ASSUME NEW n \in Nodes, NEW m \in Nodes, Rearm(n, m) PROVE AgeInv'
    <2>1. n \in todo /\ FireRearm(n, m) /\ Active(data[n])
      BY <1>5 DEF Rearm
    <2>2. n \in Pending /\ data[n] \in live /\ tdata[data[n]] = n /\ m \notin todo
      BY <2>1, FireRearmStep, GettableIsUnused DEF NatInv, NatSound, PendingOwned, SessionsArmed, FireRearm
    <2>3. /\ todo' = todo \ {n} /\ tdata' = [tdata EXCEPT ![data[n]] = m]
          /\ UNCHANGED <<live, age, young>>
      BY <1>5 DEF Rearm, FireRearm
    <2>4. lag = 0
      <3>1. left # 0 /\ left \in Nat
        BY <2>1 DEF NatInv, NatSound, WheelInv, WalkOK, WheelTypeOK
      <3> QED BY <3>1 DEF AgeInv
    <2>5. ASSUME NEW x \in live' PROVE AgeOK(x)'
      <3>1. CASE x = data[n]
        <4>1. tdata'[x] \notin todo'
          BY <1>2, <2>2, <2>3, <3>1
        <4>2. age[x] < Patience(x) + 0
          BY <1>2, <2>1, <2>2, <3>1, PatienceType DEF Active
        <4>3. Patience(x)' = Patience(x)
          BY <2>3 DEF Patience, TimeoutOf
        <4> QED BY <1>1, <2>3, <2>4, <4>1, <4>2, <4>3 DEF AgeOK
      <3>2. CASE x # data[n]
        <4>1. x \in live /\ tdata[x] # n /\ tdata'[x] = tdata[x]
          BY <1>2, <2>2, <2>3, <2>5, <3>2 DEF NatInv, NatSound, PendingOwned, SessionsArmed
        <4> QED BY <1>1, <2>3, <4>1 DEF AgeInv, AgeOK, Patience, TimeoutOf
      <3> QED BY <3>1, <3>2
    <2> QED BY <1>1, <2>4, <2>5 DEF AgeInv
  <1> QED BY <1>3, <1>4, <1>5 DEF Fire, Expire, RearmNoMemory

LEMMA AgeInvElapse ==
  ASSUME NatInv, AgeInv, NEW d \in ClockSteps, Elapse(d) PROVE AgeInv'
  <1>1. /\ left = 0 /\ todo = {} /\ todo' = {} /\ left' = left /\ lag' = lag + d
        /\ lag \in Int /\ d \in Int /\ MaxLag \in Nat /\ AgeCap \in Nat
    BY ClockAssumption, AgeCapAssumption
       DEF Elapse, ClockStep, Outside, walkVars, NatInv, NatSound, WheelInv, WalkOK, WheelTypeOK
  <1>2. /\ UNCHANGED <<live, young, tdata>>
        /\ age \in [Sessions -> Int] /\ live \subseteq Sessions
        /\ age' = [s \in Sessions |->
             IF s \notin live THEN age[s] ELSE IF age[s] + d > AgeCap THEN AgeCap ELSE age[s] + d]
    BY DEF Elapse, NatInv, NatSound, TypeOK
  <1>3. ASSUME NEW x \in live PROVE AgeOK(x)'
    <2>1. age[x] < Patience(x) + lag /\ age[x] \in Int
      BY <1>1, <1>2 DEF AgeInv, AgeOK
    <2>2. PICK a \in Int : a = age'[x] /\ a <= age[x] + d
      BY <1>1, <1>2, <2>1
    <2>3. a < Patience(x) + (lag + d)
      BY <1>1, <2>1, <2>2, PatienceType
    <2>4. Patience(x)' = Patience(x)
      BY <1>2 DEF Patience, TimeoutOf
    <2> QED BY <1>1, <2>2, <2>3, <2>4 DEF AgeOK
  <1> QED BY <1>1, <1>2, <1>3 DEF AgeInv

LEMMA AgeInvHandle ==
  ASSUME NatInv, AgeInv, NoStall, Handle PROVE AgeInv'
  <1>1. /\ left = 0 /\ todo = {} /\ todo' = slots[cur] /\ lag' = 0
        /\ lag \in Int /\ lag <= MaxLag /\ MaxLag \in Nat
    BY ClockAssumption
       DEF Handle, HandleBegin, Outside, NatInv, NatSound, WheelInv, WalkOK, WheelTypeOK
  <1>2. UNCHANGED <<live, young, tdata, age>> /\ age \in [Sessions -> Int] /\ live \subseteq Sessions
    BY DEF Handle, natVars, NatInv, NatSound, TypeOK
  <1>3. ASSUME NEW x \in live PROVE AgeOK(x)'
    <2>1. tdata[x] \in todo'
      BY <1>1, PendingIsCurOrTodo DEF NatInv, NatSound, PendingOwned, SessionsArmed
    <2>2. age[x] < Patience(x) + lag /\ age[x] \in Int
      BY <1>1, <1>2 DEF AgeInv, AgeOK
    <2>3. age[x] < Patience(x) + MaxLag
      BY <1>1, <2>2, PatienceType
    <2>4. Patience(x)' = Patience(x)
      BY <1>2 DEF Patience, TimeoutOf
    <2> QED BY <1>2, <2>1, <2>3, <2>4 DEF AgeOK
  <1> QED BY <1>1, <1>2, <1>3 DEF AgeInv

LEMMA AgeInvNext ==
  ASSUME NatInv, AgeInv, NoStall, [Next]_vars PROVE AgeInv'
  <1>1. CASE NextSlot
    <2>1. /\ left \in Nat /\ left > 0 /\ left' = left - 1 /\ lag' = lag
          /\ todo = {} /\ todo' = {}
      BY <1>1, SlotDoneStep DEF NextSlot, SlotDone, NatInv, NatSound, WheelInv, WheelTypeOK
    <2>2. UNCHANGED <<live, young, tdata, age>>
      BY <1>1 DEF NextSlot, natVars
    <2> QED BY <2>1, <2>2 DEF AgeInv, AgeOK, Patience, TimeoutOf
  <1>2. CASE Operator \/ UNCHANGED vars
    <2>1. UNCHANGED <<left, lag, todo, live, young, tdata, age>>
      BY <1>2 DEF Operator, PortMapAdd, PortMapDel, SetIdRange, vars, natVars, wheelVars
    <2> QED BY <2>1 DEF AgeInv, AgeOK, Patience, TimeoutOf
  <1> QED
    BY <1>1, <1>2, AgeInvLan, AgeInvFire, AgeInvElapse, AgeInvHandle DEF Next, Wheel, Time

\* A silent session is deleted within its timeout (or what a clock that is set
\* back adds to it) and one gap between two turns of the loop.
THEOREM NatIdleBounded ==
  ASSUME NoStall PROVE Spec => []IdleBounded
  <1>1. Init => AgeInv
    BY AgeInvInit
  <1>2. NatInv /\ AgeInv /\ [Next]_vars => AgeInv'
    BY AgeInvNext
  <1>3. NatInv /\ AgeInv => IdleBounded
    <2> SUFFICES ASSUME NatInv, AgeInv, NEW s \in live PROVE age[s] < Patience(s) + MaxLag
      BY DEF IdleBounded
    <2>1. lag \in Int /\ lag <= MaxLag /\ MaxLag \in Nat /\ age[s] \in Int
      BY ClockAssumption DEF NatInv, NatSound, TypeOK, WheelTypeOK
    <2> QED BY <2>1, PatienceType DEF AgeInv, AgeOK
  <1> QED BY <1>1, <1>2, <1>3, NatInvAlways, PTL DEF Spec
============================================================================
