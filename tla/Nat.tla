-------------------------------- MODULE Nat --------------------------------
(***************************************************************************)
(* Source NAT of the router (src/ixc_syscore/router/src/nat.c) with the    *)
(* port map (port_map.c), on top of its time wheel.                        *)
(*                                                                         *)
(* A session is one heap object that three structures point to: the map    *)
(* lan2wan (address, protocol and id of the LAN side), the map wan2lan     *)
(* (protocol and id used on the WAN side) and a node of the time wheel.    *)
(* It also holds a NAT id taken from the id set of its protocol.           *)
(*                                                                         *)
(* Ids and ports are numbers below IdSpace; htons() swaps the two digits   *)
(* of a number in base ByteBase (256 in the code).  The order in which the *)
(* free list of an id set is searched is abstracted: any member that is    *)
(* not refused may be taken.  The WAN to LAN direction reads the state and *)
(* changes nothing: WanTarget says where it sends a packet.                *)
(***************************************************************************)
EXTENDS TimeWheel

CONSTANTS
  Protocols,    \* of "icmp", "tcp", "udp" and "udplite"
  Flows,        \* LAN sides: records [host, proto, port]
  NoSession,    \* NULL in the two maps
  NoHost,       \* no LAN host: the packet is dropped
  IdMin, IdMax, \* IXC_NAT_ID_MIN and IXC_NAT_ID_MAX
  ByteBase,     \* values of a byte
  Ranges,       \* ranges an operator may set: records [min, max]
  Rules,        \* port map records: records [proto, port, host]
  MinTimeout,   \* IXC_NAT_MIN_TIMEOUT
  Timeout,      \* IXC_NAT_TIMEOUT
  MallocFails,  \* whether an allocation may fail
  AgeCap        \* bound: ages above it are not told apart

IdSpace == ByteBase * ByteBase
Ids     == 0 .. IdSpace - 1

\* The protocols 1, 6, 17 and 136; UDP-Lite shares the id set of UDP.
IdSetOf(proto) == IF proto = "udplite" THEN "udp" ELSE proto
IdSets == {IdSetOf(p) : p \in Protocols}

ASSUME ProtocolsAssumption == Protocols \subseteq {"icmp", "tcp", "udp", "udplite"}
ASSUME FlowsAssumption == \A k \in Flows : k.proto \in Protocols /\ k.port \in Ids
ASSUME SessionAssumption == NoSession \notin Data /\ NoHost \notin {k.host : k \in Flows}
ASSUME IdsAssumption ==
  ByteBase \in Nat /\ IdMin \in Nat /\ IdMax \in Nat /\ IdMin < IdMax /\ IdMax + 1 \in Ids
ASSUME RangesAssumption ==
  Ranges \subseteq [min : Ids \ {0}, max : Ids] /\ \A r \in Ranges : r.min < r.max
ASSUME RulesAssumption == \A r \in Rules : r.proto \in Protocols /\ r.port \in Ids
ASSUME TimeoutAssumption == MinTimeout \in Nat /\ Timeout \in Nat /\ MinTimeout <= Timeout
ASSUME MallocAssumption == MallocFails \in BOOLEAN
ASSUME AgeCapAssumption == AgeCap \in Nat /\ AgeCap > Timeout + MaxBack + MaxLag

Sessions == Data
WanKeys  == Protocols \X Ids

VARIABLES
  lan2wan, \* nat.lan2wan: Flows -> session or NoSession
  wan2lan, \* nat.wan2lan: (protocol, id) -> session or NoSession
  live,    \* session objects that are allocated; their refcnt is 2
  flow,    \* s->lan_key, with s->addr, s->protocol and s->lan_id
  id,      \* s->nat_id->id, which s->wan_key and s->wan_id repeat
  young,   \* s->min_timeout_flags
  age,     \* time(NULL) - s->up_time
  tdata,   \* s->tdata
  freeIds, \* of each id set: how many struct ixc_nat_id with an id wait there
  curId,   \* id_set->cur_id: the next id never handed out
  idRange, \* id_min and id_max, which all id sets share
  portMap  \* the port map records

natVars == <<lan2wan, wan2lan, live, flow, id, young, age, tdata, freeIds, curId, idRange>>
vars == <<wheelVars, natVars, portMap>>

NoFlow == [host |-> NoHost, proto |-> "none", port |-> 0]

TypeOK ==
  /\ WheelTypeOK
  /\ lan2wan \in [Flows -> Sessions \cup {NoSession}]
  /\ wan2lan \in [WanKeys -> Sessions \cup {NoSession}]
  /\ live \subseteq Sessions
  /\ flow \in [Sessions -> Flows \cup {NoFlow}]
  /\ id \in [Sessions -> Ids]
  /\ young \in [Sessions -> BOOLEAN]
  /\ age \in [Sessions -> Int]
  /\ tdata \in [Sessions -> Nodes \cup {NoNode}]
  /\ freeIds \in [IdSets -> [Ids -> Nat]]
  /\ curId \in [IdSets -> Ids]
  /\ idRange \in [min : Ids, max : Ids]
  /\ portMap \subseteq Rules

\* ixc_nat_init.
Init ==
  /\ WheelInit
  /\ lan2wan = [k \in Flows |-> NoSession]
  /\ wan2lan = [w \in WanKeys |-> NoSession]
  /\ live = {}
  /\ flow = [s \in Sessions |-> NoFlow]
  /\ id = [s \in Sessions |-> 0]
  /\ young = [s \in Sessions |-> FALSE]
  /\ age = [s \in Sessions |-> 0]
  /\ tdata = [s \in Sessions |-> NoNode]
  /\ freeIds = [p \in IdSets |-> [i \in Ids |-> 0]]
  /\ curId = [p \in IdSets |-> IdMin]
  /\ idRange = [min |-> IdMin, max |-> IdMax]
  /\ portMap = {}

(***************************************************************************)
(* Port map.                                                               *)
(***************************************************************************)
\* htons and ntohs.
Swap(i) == (i % ByteBase) * ByteBase + i \div ByteBase

\* The key of a record is its port in network order; find compares the bytes
\* it is given, and knows only the protocols that have ports.
FoundIn(rules, proto, bytes) ==
  {r \in rules : r.proto = proto /\ Swap(r.port) = bytes /\ proto # "icmp"}

PortMapFind(proto, bytes) == FoundIn(portMap, proto, bytes)

PortMapAdd(r) ==
  /\ Outside
  /\ FoundIn(portMap, r.proto, Swap(r.port)) = {}
  /\ portMap' = portMap \cup {r}
  /\ UNCHANGED <<wheelVars, natVars>>

PortMapDel(r) ==
  /\ Outside
  /\ r \in portMap
  /\ portMap' = portMap \ {r}
  /\ UNCHANGED <<wheelVars, natVars>>

(***************************************************************************)
(* NAT ids.                                                                *)
(***************************************************************************)
\* ixc_nat_id_get: a free id the port map does not have; the id goes to
\* port_map_find in host order.
Reusable(proto) ==
  {i \in Ids : freeIds[IdSetOf(proto)][i] > 0 /\ PortMapFind(proto, i) = {}}

\* ... else the next id of the range, as it is.
Fresh(proto) ==
  IF curId[IdSetOf(proto)] <= idRange.max THEN {curId[IdSetOf(proto)]} ELSE {}

\* Whether i is what ixc_nat_id_get may return, from the free list or fresh.
Reuses(proto, i) == i \in Reusable(proto)
Issues(proto, i) == Reusable(proto) = {} /\ i \in Fresh(proto)
CanGet(proto, i) == Reuses(proto, i) \/ Issues(proto, i)

\* (Faulty variant of CurIdAfter: wider than an unsigned short.)
CurIdAfterWide(proto, i) ==
  IF Issues(proto, i) THEN [curId EXCEPT ![IdSetOf(proto)] = @ + 1] ELSE curId

\* cur_id is an unsigned short.
CurIdAfter(proto, i) ==
  IF Issues(proto, i)
  THEN [curId EXCEPT ![IdSetOf(proto)] = (@ + 1) % IdSpace] ELSE curId

FreeIdsAfter(proto, i) ==
  IF Reuses(proto, i)
  THEN [freeIds EXCEPT ![IdSetOf(proto)][i] = @ - 1] ELSE freeIds

\* ixc_nat_id_put: an id outside of the range is discarded.
PutBack(free, proto, i) ==
  IF i < idRange.min \/ i > idRange.max THEN free
  ELSE [free EXCEPT ![IdSetOf(proto)][i] = @ + 1]

\* ixc_nat_set_id_range: every id set starts over at the new range.
SetIdRange(r) ==
  /\ Outside
  /\ idRange' = r
  /\ curId' = [p \in IdSets |-> r.min]
  /\ UNCHANGED <<wheelVars, lan2wan, wan2lan, live, flow, id, young, age, tdata, freeIds, portMap>>

(***************************************************************************)
(* Packets from the LAN (ixc_nat_handle_from_lan, ixc_nat_do).             *)
(***************************************************************************)
\* A packet of a port map record's host only has its address rewritten.
Mapped(k) == \E r \in PortMapFind(k.proto, Swap(k.port)) : r.host = k.host

WanKey(s) == <<flow[s].proto, id[s]>>

\* A packet of a known flow renews its session; a TCP packet without SYN
\* also ends the short timeout.
Renew(k, syn) ==
  /\ Outside
  /\ ~Mapped(k) /\ lan2wan[k] # NoSession
  /\ age' = [age EXCEPT ![lan2wan[k]] = 0]
  /\ young' = [young EXCEPT ![lan2wan[k]] = @ /\ ~(k.proto = "tcp" /\ ~syn)]
  /\ UNCHANGED <<wheelVars, lan2wan, wan2lan, live, flow, id, tdata, freeIds, curId, idRange, portMap>>

\* The first packet of a flow, for TCP a SYN: i is the id that is taken.
FirstPacket(k, i) ==
  /\ Outside
  /\ ~Mapped(k) /\ lan2wan[k] = NoSession
  /\ CanGet(k.proto, i)

\* (Faulty variant of Collides: an entry of the map is replaced.)
CollidesNever(k, i) == FALSE

\* map_add refuses a key that is in the map.
Collides(k, i) == wan2lan[<<k.proto, i>>] # NoSession

\* It opens the session s with the timer m.
Open(k, i, s, m) ==
  /\ FirstPacket(k, i)
  /\ s \notin live
  /\ ~Collides(k, i)
  /\ Arm(m, s, FALSE)
  /\ live' = live \cup {s}
  /\ lan2wan' = [lan2wan EXCEPT ![k] = s]
  /\ wan2lan' = [wan2lan EXCEPT ![<<k.proto, i>>] = s]
  /\ flow' = [flow EXCEPT ![s] = k]
  /\ id' = [id EXCEPT ![s] = i]
  /\ young' = [young EXCEPT ![s] = k.proto \in {"icmp", "tcp"}]
  /\ age' = [age EXCEPT ![s] = 0]
  /\ tdata' = [tdata EXCEPT ![s] = m]
  /\ curId' = CurIdAfter(k.proto, i)
  /\ freeIds' = FreeIdsAfter(k.proto, i)
  /\ UNCHANGED <<idRange, portMap>>

\* (Faulty variant of GiveBack: the id is forgotten.)
GiveBackNothing(k, i) ==
  /\ curId' = CurIdAfter(k.proto, i)
  /\ freeIds' = FreeIdsAfter(k.proto, i)
  /\ UNCHANGED <<lan2wan, wan2lan, live, flow, id, young, age, tdata, idRange, portMap>>

\* The id goes back when the session is not opened.
GiveBack(k, i) ==
  /\ curId' = CurIdAfter(k.proto, i)
  /\ freeIds' = PutBack(FreeIdsAfter(k.proto, i), k.proto, i)
  /\ UNCHANGED <<lan2wan, wan2lan, live, flow, id, young, age, tdata, idRange, portMap>>

\* No memory for the session or for its timer.
OpenNoMemory(k, i) ==
  /\ MallocFails
  /\ FirstPacket(k, i)
  /\ GiveBack(k, i)
  /\ UNCHANGED wheelVars

\* (Faulty variant of OpenMapFails: the timer is not cancelled.)
OpenMapFailsKeepsTimer(k, i, s, m) ==
  /\ FirstPacket(k, i)
  /\ s \notin live
  /\ MallocFails \/ Collides(k, i)
  /\ Arm(m, s, FALSE)
  /\ GiveBack(k, i)

\* map_add fails, for want of memory or because wan2lan has the id already:
\* the session object s is freed, its timer m stays listed but deleted.
OpenMapFails(k, i, s, m) ==
  /\ FirstPacket(k, i)
  /\ s \notin live
  /\ MallocFails \/ Collides(k, i)
  /\ Arm(m, s, TRUE)
  /\ GiveBack(k, i)

(***************************************************************************)
(* The timer of a session (ixc_nat_timeout_cb).                            *)
(***************************************************************************)
TimeoutOf(s) == IF young[s] THEN MinTimeout ELSE Timeout

\* (Faulty variants of Active: a tick too long, always the short timeout.)
ActiveTooLong(s)  == age[s] <= TimeoutOf(s)
ActiveTooShort(s) == age[s] < MinTimeout

\* The LAN side sent something within the timeout.
Active(s) == age[s] < TimeoutOf(s)

\* (Faulty variants of Unlink: one of the two keys stays in its map.)
UnlinkLanOnly(s) ==
  /\ lan2wan' = [lan2wan EXCEPT ![flow[s]] = NoSession]
  /\ live' = live \ {s}
  /\ freeIds' = PutBack(freeIds, flow[s].proto, id[s])
  /\ UNCHANGED <<wan2lan, flow, id, young, age, tdata, curId, idRange, portMap>>

UnlinkWanOnly(s) ==
  /\ wan2lan' = [wan2lan EXCEPT ![WanKey(s)] = NoSession]
  /\ live' = live \ {s}
  /\ freeIds' = PutBack(freeIds, flow[s].proto, id[s])
  /\ id' = [id EXCEPT ![s] = 0]
  /\ UNCHANGED <<lan2wan, flow, young, age, tdata, curId, idRange, portMap>>

\* map_del of both keys; ixc_nat_del_cb frees the session with the second
\* reference.  (Its tdata is the node whose callback runs.)
Unlink(s) ==
  LET last == wan2lan[WanKey(s)] = s /\ lan2wan[flow[s]] = s IN
  /\ wan2lan' = [wan2lan EXCEPT ![WanKey(s)] = NoSession]
  /\ lan2wan' = [lan2wan EXCEPT ![flow[s]] = NoSession]
  /\ live' = IF last THEN live \ {s} ELSE live
  /\ freeIds' = IF last THEN PutBack(freeIds, flow[s].proto, id[s]) ELSE freeIds
  /\ flow' = IF last THEN [flow EXCEPT ![s] = NoFlow] ELSE flow
  /\ id' = IF last THEN [id EXCEPT ![s] = 0] ELSE id
  /\ young' = IF last THEN [young EXCEPT ![s] = FALSE] ELSE young
  /\ age' = IF last THEN [age EXCEPT ![s] = 0] ELSE age
  /\ tdata' = IF last THEN [tdata EXCEPT ![s] = NoNode] ELSE tdata
  /\ UNCHANGED <<curId, idRange, portMap>>

Expire(n) ==
  /\ n \in todo /\ ~del[n] /\ ~Active(data[n])
  /\ FireOnly(n)
  /\ Unlink(data[n])

Rearm(n, m) ==
  /\ n \in todo /\ ~del[n] /\ Active(data[n])
  /\ FireRearm(n, m)
  /\ tdata' = [tdata EXCEPT ![data[n]] = m]
  /\ UNCHANGED <<lan2wan, wan2lan, live, flow, id, young, age, freeIds, curId, idRange, portMap>>

\* Without memory for the next timer the session is dropped before its time.
RearmNoMemory(n) ==
  /\ MallocFails
  /\ n \in todo /\ ~del[n] /\ Active(data[n])
  /\ FireOnly(n)
  /\ Unlink(data[n])

Skip(n) ==
  /\ SkipDeleted(n)
  /\ UNCHANGED <<natVars, portMap>>

(***************************************************************************)
(* ixc_nat_sysloop_cb, and the clock.                                      *)
(***************************************************************************)
Handle == HandleBegin /\ UNCHANGED <<natVars, portMap>>

NextSlot == SlotDone /\ UNCHANGED <<natVars, portMap>>

Elapse(d) ==
  /\ ClockStep(d)
  /\ age' = [s \in Sessions |->
       IF s \notin live THEN age[s] ELSE IF age[s] + d > AgeCap THEN AgeCap ELSE age[s] + d]
  /\ UNCHANGED <<lan2wan, wan2lan, live, flow, id, young, tdata, freeIds, curId, idRange, portMap>>

(***************************************************************************)
(* Specification.                                                          *)
(***************************************************************************)
Lan ==
  \E k \in Flows :
    \/ \E syn \in BOOLEAN : Renew(k, syn)
    \/ \E i \in Ids :
         \/ OpenNoMemory(k, i)
         \/ \E s \in Sessions, m \in Nodes : Open(k, i, s, m) \/ OpenMapFails(k, i, s, m)

Operator ==
  \/ \E r \in Rules : PortMapAdd(r) \/ PortMapDel(r)
  \/ \E r \in Ranges : SetIdRange(r)

Fire ==
  \E n \in Nodes :
    \/ Skip(n) \/ Expire(n) \/ RearmNoMemory(n)
    \/ \E m \in Nodes : Rearm(n, m)

Wheel == Handle \/ Fire \/ NextSlot

Time == \E d \in ClockSteps : Elapse(d)

Next == Lan \/ Operator \/ Wheel \/ Time

Spec == Init /\ [][Next]_vars

\* ixc_myloop runs the wheel in every turn of the event loop, and the clock
\* moves on (it may not be set back for ever: see ClockSteps of the run).
FairSpec == Spec /\ WF_vars(Wheel) /\ WF_vars(Time)

(***************************************************************************)
(* Properties.                                                             *)
(***************************************************************************)
\* The two maps and the sessions describe one relation: what a key finds is
\* an allocated session with that key, and an allocated session is found
\* under both of its keys (it is neither leaked nor half deleted).
SessionsLinked ==
  /\ \A k \in Flows : lan2wan[k] # NoSession =>
       lan2wan[k] \in live /\ flow[lan2wan[k]] = k
  /\ \A w \in WanKeys : wan2lan[w] # NoSession =>
       wan2lan[w] \in live /\ WanKey(wan2lan[w]) = w
  /\ \A s \in live :
       flow[s] \in Flows /\ lan2wan[flow[s]] = s /\ wan2lan[WanKey(s)] = s

\* Every allocated session has exactly one timer to come, its tdata, and no
\* timer that will fire belongs to a session that was freed.
TimersMatchSessions ==
  /\ \A s \in live : tdata[s] \in Pending /\ data[tdata[s]] = s
  /\ \A n \in Pending : data[n] \in live /\ tdata[data[n]] = n

\* Nobody has changed the range of the ids yet.
InitialRange == idRange = [min |-> IdMin, max |-> IdMax]

Holders(p, i) == {s \in live : IdSetOf(flow[s].proto) = p /\ id[s] = i}

\* Until the range is changed no id is lost and none is given out twice,
\* whatever opening or re-arming fails: the ids below cur_id are each either
\* on the free list, once, or held by one session, the others are neither.
IdsConserved ==
  InitialRange => \A p \in IdSets, i \in Ids :
    IF IdMin <= i /\ i < curId[p]
    THEN \/ freeIds[p][i] = 1 /\ Holders(p, i) = {}
         \/ freeIds[p][i] = 0 /\ \E s \in live : Holders(p, i) = {s}
    ELSE freeIds[p][i] = 0 /\ Holders(p, i) = {}

\* ixc_nat_handle_from_wan: the host a WAN packet for a port or id goes to.
WanTarget(proto, i) ==
  LET rules == PortMapFind(proto, Swap(i)) IN
  IF rules # {} THEN (CHOOSE r \in rules : TRUE).host
  ELSE IF wan2lan[<<proto, i>>] = NoSession THEN NoHost
  ELSE flow[wan2lan[<<proto, i>>]].host

\* The answer to what a LAN host sent reaches that host, whatever sessions
\* came and went before with the same id (for port maps outside the range).
ReplyReachesSender ==
  \A s \in live : WanTarget(flow[s].proto, id[s]) = flow[s].host

\* The longest timeout of a session, and what a clock that was set back adds.
Patience(s) == IF TimeoutOf(s) > MaxBack THEN TimeoutOf(s) ELSE MaxBack + 1

\* A silent session is deleted within its timeout and one gap between two
\* turns of the loop: the granularity of the wheel, its forgotten remainders
\* and its early first tick never add up to more.
IdleBounded == \A s \in live : age[s] < Patience(s) + MaxLag

\* A flow that sent something within its timeout keeps its session and its
\* id, and nothing but the passing of its timeout takes it away (as long as
\* no allocation fails).
ActiveKeepsId ==
  [][\A s \in live : age[s] < TimeoutOf(s)
        => s \in live' /\ flow'[s] = flow[s] /\ id'[s] = id[s]]_vars

\* A session whose LAN side is silent is deleted in the end.
SilentIsDeleted ==
  \A s \in Sessions :
    (s \in live /\ age[s] >= Timeout) ~> (s \notin live \/ age[s] < Timeout)

\* nat.c:154, where a NAT id is taken: "skip it if it conflicts with the
\* port map".
NewIdAvoidsPortMap ==
  [][\A s \in live' \ live :
        ~ \E r \in portMap : r.proto = flow'[s].proto /\ r.port = id'[s]]_vars

\* nat.c:190, where a NAT id is put back: "if the range was changed, NAT ids
\* outside of it are discarded".
NewIdInRange ==
  [][\A s \in live' \ live : id'[s] \in idRange.min .. idRange.max]_vars

\* The binding a LAN flow has, as the abstract table sees it.
NoId == IdSpace
Binding == [k \in Flows |-> IF lan2wan[k] = NoSession THEN NoId ELSE id[lan2wan[k]]]

Table == INSTANCE NatTable WITH bound <- Binding

\* NAT implements the table of distinct bindings, for any range of ids.
ImplementsNatTable == Table!Spec
============================================================================
