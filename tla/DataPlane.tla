----------------------------- MODULE DataPlane -----------------------------
(***************************************************************************)
(* A packet's way through the router: read from an interface into a buffer *)
(* (netif.c), handled (ether.c .. route.c), queued in its slot when it     *)
(* comes from the LAN (qos.c), translated and sent (nat.c, addr_map.c,     *)
(* netif.c), under the turns of the event loop (ev.c, router.c).           *)
(*                                                                         *)
(* Everything runs on one thread.  A handler is split where the device or  *)
(* the allocator may answer one way or the other; while tx or held is set, *)
(* the handler waits for a call that it made.                              *)
(***************************************************************************)
EXTENDS Netif, Qos

CONSTANTS
  Flows,  \* streams of packets with the same addresses
  NoFlow, \* a packet that the router makes itself
  In,     \* the interface on which the packets of a flow come
  Out,    \* the interface that routing chooses for them
  Self,   \* flows to the router itself, answered on the same interface
  Firsts, \* flows that the operator may let bypass QoS
  SlotOf, \* ixc_qos_calc_slot
  WAN,    \* IXC_NETIF_WAN
  ReadNum \* bound: IXC_NETIF_READ_NUM, packets per readable event

ASSUME FlowAssumption ==
  /\ In \in [Flows -> Fds] /\ Out \in [Flows -> Fds]
  /\ Self \subseteq Flows /\ Firsts \subseteq Flows /\ NoFlow \notin Flows
  /\ SlotOf \in [Flows -> Slots]
  /\ WAN \in Fds /\ ReadNum \in Nat

VARIABLES
  phase,   \* where the loop is
  events,  \* what the last epoll_wait reported and is not handled yet
  rx, rxn, \* the interface being read and the packets read from it
  hand,    \* the buffer of the packet being read
  held,    \* a packet whose handler waits for a packet of its own to be sent
  ask,     \* the interface that this packet still has to go to
  express, \* flows that bypass QoS: first hosts and the tunnel address
  tag      \* auxiliary: the flow and the way (queued or direct) of a packet

planeVars == <<phase, events, rx, rxn, hand, held, ask, express, tag>>
vars == <<mbufVars, interestVars, netifVars, qosVars, planeVars>>

Lanes == Flows \X {"queued", "direct"}
NoLane == <<NoFlow, "direct">>

TypeOK ==
  /\ MbufTypeOK /\ InterestTypeOK /\ NetifTypeOK /\ QosTypeOK(Mbufs)
  /\ phase \in {"wait", "io", "rx", "qos", "sendable", "pop"}
  /\ events \in [Fds -> SUBSET {"r", "w"}]
  /\ rx \in Fds \cup {NoFd} /\ rxn \in 0..ReadNum
  /\ hand \in Mbufs \cup {NoMbuf} /\ held \in Mbufs \cup {NoMbuf}
  /\ ask \in Fds \cup {NoFd}
  /\ express \subseteq Firsts
  /\ tag \in [Mbufs -> Lanes \cup {NoLane}]

Init ==
  /\ MbufInit /\ InterestInit /\ NetifInit /\ QosInit
  /\ phase = "wait"
  /\ events = [d \in Fds |-> {}]
  /\ rx = NoFd /\ rxn = 0
  /\ hand = NoMbuf /\ held = NoMbuf /\ ask = NoFd
  /\ express = {}
  /\ tag = [m \in Mbufs |-> NoLane]

\* No call is under way: the handler goes on.
Back == tx = NoFd /\ held = NoMbuf

(***************************************************************************)
(* Calls under way.                                                        *)
(***************************************************************************)
TxWrite ==
  /\ Write
  /\ tag' = [tag EXCEPT ![Head(sent[tx])] = NoLane]
  /\ UNCHANGED <<qosVars, phase, events, rx, rxn, hand, held, ask, express>>

TxEnds(failed) ==
  /\ WriteEnds(failed)
  /\ tag' = IF Drops THEN [tag EXCEPT ![Head(sent[tx])] = NoLane] ELSE tag
  /\ UNCHANGED <<qosVars, phase, events, rx, rxn, hand, held, ask, express>>

\* The packet in held cannot be forwarded: its next hop is unknown or its
\* ttl is used up.  An ARP request or an ICMP error goes out first ...
AskSend(m) ==
  /\ ask # NoFd /\ tx = NoFd
  /\ MbufGet(m)
  /\ NetifSend(ask, m)
  /\ ask' = NoFd /\ wire' = NoMbuf
  /\ UNCHANGED <<interestVars, qosVars, phase, events, rx, rxn, hand, held, express, tag>>

\* ... if there is a buffer for it ...
AskNoMbuf ==
  /\ ask # NoFd /\ tx = NoFd
  /\ MbufGetFails
  /\ ask' = NoFd /\ wire' = NoMbuf
  /\ UNCHANGED <<interestVars, sent, write_flags, tx, moved, qosVars>>
  /\ UNCHANGED <<phase, events, rx, rxn, hand, held, express, tag>>

\* ... and then the packet itself is given back.
HeldDone ==
  /\ held # NoMbuf /\ ask = NoFd /\ tx = NoFd
  /\ MbufPut(held)
  /\ held' = NoMbuf /\ wire' = NoMbuf
  /\ UNCHANGED <<interestVars, sent, write_flags, tx, moved, qosVars>>
  /\ UNCHANGED <<phase, events, rx, rxn, hand, ask, express, tag>>

Call ==
  \/ TxWrite
  \/ \E failed \in BOOLEAN : TxEnds(failed)
  \/ \E m \in Mbufs : AskSend(m)
  \/ AskNoMbuf
  \/ HeldDone

(***************************************************************************)
(* The io phase of ev_loop.                                                *)
(***************************************************************************)
Quiet == UNCHANGED <<interestVars, sent, write_flags, tx, moved>> /\ wire' = NoMbuf

Wait(ready) ==
  /\ phase = "wait"
  /\ \A d \in Fds : ready[d] \subseteq polled[d]
  /\ events' = ready
  /\ phase' = "io"
  /\ Quiet
  /\ UNCHANGED <<mbufVars, qosVars, rx, rxn, hand, held, ask, express, tag>>

Handled(d, e) == events' = [events EXCEPT ![d] = @ \ {e}]

\* ixc_netif_readable_fn.
Readable(d) ==
  /\ phase = "io" /\ Back /\ "r" \in events[d]
  /\ Handled(d, "r")
  /\ phase' = "rx" /\ rx' = d /\ rxn' = 0
  /\ Quiet
  /\ UNCHANGED <<mbufVars, qosVars, hand, held, ask, express, tag>>

\* ixc_netif_writable_fn, after the readable one of the same descriptor.
Writable(d) ==
  /\ phase = "io" /\ Back /\ "r" \notin events[d] /\ "w" \in events[d]
  /\ Handled(d, "w")
  /\ TxCall(d) /\ wire' = NoMbuf
  /\ UNCHANGED <<mbufVars, interestVars, sent, write_flags, qosVars>>
  /\ UNCHANGED <<phase, rx, rxn, hand, held, ask, express, tag>>

\* The operator changes the first hosts or the tunnel address.
SetExpress(f) ==
  /\ phase = "io" /\ Back
  /\ express' = IF f \in express THEN express \ {f} ELSE express \cup {f}
  /\ Quiet
  /\ UNCHANGED <<mbufVars, qosVars, phase, events, rx, rxn, hand, held, ask, tag>>

IoEnds ==
  /\ phase = "io" /\ Back /\ \A d \in Fds : events[d] = {}
  /\ phase' = "qos"
  /\ Quiet
  /\ UNCHANGED <<mbufVars, qosVars, events, rx, rxn, hand, held, ask, express, tag>>

(***************************************************************************)
(* ixc_netif_rx_data and the handlers it calls.                            *)
(***************************************************************************)
\* (Faulty variant of RxGet: one packet too many.)
RxGetOneMore(m) ==
  /\ phase = "rx" /\ Back /\ hand = NoMbuf /\ rxn <= ReadNum
  /\ MbufGet(m)
  /\ hand' = m /\ rxn' = rxn + 1
  /\ Quiet
  /\ UNCHANGED <<qosVars, phase, events, rx, held, ask, express, tag>>

RxGet(m) ==
  /\ phase = "rx" /\ Back /\ hand = NoMbuf /\ rxn < ReadNum
  /\ MbufGet(m)
  /\ hand' = m /\ rxn' = rxn + 1
  /\ Quiet
  /\ UNCHANGED <<qosVars, phase, events, rx, held, ask, express, tag>>

RxEnds ==
  /\ phase = "rx" /\ Back /\ hand = NoMbuf
  /\ rxn = ReadNum \/ pool = {}
  /\ phase' = "io" /\ rx' = NoFd /\ rxn' = 0
  /\ Quiet
  /\ UNCHANGED <<mbufVars, qosVars, events, hand, held, ask, express, tag>>

\* (Faulty variant of RxEmpty: the buffer is not given back.)
RxEmptyLeaks ==
  /\ phase = "rx" /\ Back /\ hand # NoMbuf
  /\ hand' = NoMbuf /\ phase' = "io" /\ rx' = NoFd /\ rxn' = 0
  /\ Quiet
  /\ UNCHANGED <<mbufVars, qosVars, events, held, ask, express, tag>>

\* read finds nothing.
RxEmpty ==
  /\ phase = "rx" /\ Back /\ hand # NoMbuf
  /\ MbufPut(hand)
  /\ hand' = NoMbuf /\ phase' = "io" /\ rx' = NoFd /\ rxn' = 0
  /\ Quiet
  /\ UNCHANGED <<qosVars, events, held, ask, express, tag>>

\* The packet is dropped by a filter, or was for the router and no answer.
RxConsume ==
  /\ phase = "rx" /\ Back /\ hand # NoMbuf
  /\ MbufPut(hand)
  /\ hand' = NoMbuf
  /\ Quiet
  /\ UNCHANGED <<qosVars, phase, events, rx, rxn, held, ask, express, tag>>

\* ixc_qos_add: only traffic from the LAN is queued, and not all of it.
Queued(f) == f \notin Self /\ In[f] # WAN /\ f \notin express

RxQueue(f) ==
  /\ phase = "rx" /\ Back /\ hand # NoMbuf /\ In[f] = rx
  /\ Queued(f)
  /\ QosPut(SlotOf[f], hand)
  /\ tag' = [tag EXCEPT ![hand] = <<f, "queued">>]
  /\ hand' = NoMbuf
  /\ Quiet
  /\ UNCHANGED <<mbufVars, phase, events, rx, rxn, held, ask, express>>

RxForward(f) ==
  /\ phase = "rx" /\ Back /\ hand # NoMbuf /\ In[f] = rx
  /\ ~Queued(f)
  /\ NetifSend(Out[f], hand) /\ wire' = NoMbuf
  /\ tag' = [tag EXCEPT ![hand] = <<f, "direct">>]
  /\ hand' = NoMbuf
  /\ UNCHANGED <<mbufVars, interestVars, qosVars, phase, events, rx, rxn, held, ask, express>>

\* No next hop for a direct packet, or an ICMP error to its sender.
RxAsk(d) ==
  /\ phase = "rx" /\ Back /\ hand # NoMbuf
  /\ held' = hand /\ ask' = d /\ hand' = NoMbuf
  /\ Quiet
  /\ UNCHANGED <<mbufVars, qosVars, phase, events, rx, rxn, express, tag>>

Receive ==
  \/ \E m \in Mbufs : RxGet(m)
  \/ RxEnds \/ RxEmpty \/ RxConsume
  \/ \E f \in Flows : RxQueue(f) \/ RxForward(f)
  \/ \E d \in Fds : RxAsk(d)

(***************************************************************************)
(* ixc_qos_sysloop_cb, from the myloop phase.                              *)
(***************************************************************************)
\* ixc_netif_wan_sendable first tries to empty the queue of the WAN.
QosTry ==
  /\ phase = "qos" /\ Back
  /\ TxCall(WAN) /\ wire' = NoMbuf
  /\ phase' = "sendable"
  /\ UNCHANGED <<mbufVars, interestVars, sent, write_flags, qosVars>>
  /\ UNCHANGED <<events, rx, rxn, hand, held, ask, express, tag>>

QosPops ==
  /\ phase = "sendable" /\ Back
  /\ sent[WAN] = <<>> /\ slot_head # NoSlot
  /\ QosPopBegins
  /\ phase' = "pop"
  /\ Quiet
  /\ UNCHANGED <<mbufVars, events, rx, rxn, hand, held, ask, express, tag>>

QosStops ==
  /\ phase = "sendable" /\ Back
  /\ sent[WAN] # <<>> \/ slot_head = NoSlot
  /\ phase' = "wait"
  /\ Quiet
  /\ UNCHANGED <<mbufVars, qosVars, events, rx, rxn, hand, held, ask, express, tag>>

Popping == phase = "pop" /\ Back /\ slot_obj # NoSlot
Popped  == Head(slot[slot_obj])

PopForward ==
  /\ Popping
  /\ PopFrom
  /\ NetifSend(Out[tag[Popped][1]], Popped) /\ wire' = NoMbuf
  /\ UNCHANGED <<mbufVars, interestVars, planeVars>>

\* NAT has no session or no id for the packet.
PopDrop ==
  /\ Popping
  /\ PopFrom
  /\ MbufPut(Popped)
  /\ tag' = [tag EXCEPT ![Popped] = NoLane]
  /\ Quiet
  /\ UNCHANGED <<phase, events, rx, rxn, hand, held, ask, express>>

PopAsk ==
  /\ Popping
  /\ PopFrom
  /\ held' = Popped /\ ask' = Out[tag[Popped][1]]
  /\ tag' = [tag EXCEPT ![Popped] = NoLane]
  /\ Quiet
  /\ UNCHANGED <<mbufVars, phase, events, rx, rxn, hand, express>>

PopEnds ==
  /\ phase = "pop" /\ Back /\ slot_obj = NoSlot
  /\ phase' = "qos"
  /\ Quiet
  /\ UNCHANGED <<mbufVars, qosVars, events, rx, rxn, hand, held, ask, express, tag>>

Turn ==
  \/ QosTry \/ QosPops \/ QosStops
  \/ PopForward \/ PopDrop \/ PopAsk \/ PopEnds

Loop ==
  \/ Call
  \/ \E ready \in [Fds -> SUBSET {"r", "w"}] : Wait(ready)
  \/ \E d \in Fds : Readable(d) \/ Writable(d)
  \/ IoEnds
  \/ Receive
  \/ Turn

Next == Loop \/ \E f \in Firsts : SetExpress(f)

Spec == Init /\ [][Next]_vars

\* The process runs: epoll_wait returns after its timeout at the latest and
\* no handler waits for anything.
FairSpec == Spec /\ WF_vars(Loop)
-----------------------------------------------------------------------------
Elems(q) == {q[i] : i \in DOMAIN q}

Distinct(q) == \A i, j \in DOMAIN q : q[i] = q[j] => i = j

\* A buffer is in one place: the pool, the queue of one interface, one slot,
\* or in the hands of a handler.  Nothing is lost, given back twice, or used
\* after it was given back, and used counts the buffers that exist, within
\* the limit (mbuf.c, and every path of netif.c and qos.c that moves one).
MbufConserved ==
  LET hands == {hand, held} \ {NoMbuf}
      queues == UNION {InQueue(d) : d \in Fds}
      slots == UNION {InSlot(s) : s \in Slots}
  IN /\ used = Cardinality(heap) /\ used <= MaxMbufs
     /\ heap = pool \cup queues \cup slots \cup hands
     /\ pool \cap (queues \cup slots \cup hands) = {}
     /\ queues \cap (slots \cup hands) = {}
     /\ slots \cap hands = {}
     /\ hand # NoMbuf => hand # held
     /\ \A d \in Fds : Distinct(sent[d])
     /\ \A c, d \in Fds : c # d => InQueue(c) \cap InQueue(d) = {}
     /\ \A s \in Slots : Distinct(slot[s])
     /\ \A s, t \in Slots : s # t => InSlot(s) \cap InSlot(t) = {}

\* Buffers beyond the pre-allocated number are freed before any is kept for
\* later: the pool is empty while more than that exist.
PoolOnlyWhenSmall == pool # {} => used <= PreAlloc

\* The slots that hold packets are the slots in use and the slots that the
\* links lead to from the head, each once, so no packet is lost from sight;
\* and the cursor of a walk that unlinks as it goes stays on the list with
\* its predecessor beside it (ixc_qos_put, ixc_qos_pop).
Leads(s, t) == next[s] = t /\ t # NoSlot

Listed == {s \in Slots : \A C \in SUBSET Slots :
             /\ slot_head # NoSlot => slot_head \in C
             /\ \A u \in C, v \in Slots : Leads(u, v) => v \in C
             => s \in C}

SlotsListed ==
  /\ \A s \in Slots : is_used[s] <=> s \in Listed
  /\ \A s \in Slots : is_used[s] <=> slot[s] # <<>>
  /\ \A s, t, u \in Slots : Leads(s, u) => u # slot_head /\ (Leads(t, u) => t = s)
  /\ (phase = "pop" /\ slot_obj # NoSlot) =>
       /\ slot_obj \in Listed
       /\ slot_obj # slot_head => slot_old \in Slots /\ Leads(slot_old, slot_obj)

\* A packet that waits for the WAN leaves in the end, written or dropped,
\* even if the device never takes one (netif.c:400-403: a faulty card must
\* not use up the buffers).
WanDrains ==
  \A m \in Mbufs : (m \in InQueue(WAN)) ~> (m \notin InQueue(WAN))

\* No slot starves another: as long as the WAN accepts everything now and
\* then, every queued packet is taken, however full the other slots are.
Sendable == phase = "sendable" /\ tx = NoFd /\ sent[WAN] = <<>>

SlotsServed ==
  ([]<>Sendable) =>
    \A m \in Mbufs : (\E s \in Slots : m \in InSlot(s)) ~> (\A s \in Slots : m \notin InSlot(s))

\* An interface is polled for what its flags say was added (ev.h, "whether
\* the read or the write event has been added").
PolledAsAdded == \A d \in Fds : added[d] \subseteq polled[d]

\* The streams: packets of one flow that take the same way keep their order
\* from the read to the write, through slot and transmit queue.
Way(l) == InQueue(Out[l[1]]) \cup (IF l[2] = "queued" THEN InSlot(SlotOf[l[1]]) ELSE {})

LaneOf(l) == {m \in Way(l) : tag[m] = l}

Before(q, a, b) == \E i, j \in DOMAIN q : i < j /\ q[i] = a /\ q[j] = b

\* In the transmit queue, in the slot, or one in each.
Ahead(l, a, b) ==
  LET queue == Out[l[1]]
      from  == SlotOf[l[1]]
  IN \/ Before(sent[queue], a, b)
     \/ l[2] = "queued" /\ Before(slot[from], a, b)
     \/ l[2] = "queued" /\ a \in InQueue(queue) /\ b \in InSlot(from)

Older == UNION {{p \in LaneOf(l) \X LaneOf(l) : Ahead(l, p[1], p[2])} : l \in Lanes}

Streams == INSTANCE LossyFifo WITH
  Packets <- Mbufs, NoPacket <- NoMbuf,
  lane <- [l \in Lanes |-> LaneOf(l)], older <- Older, out <- wire

ImplementsLossyFifo == Streams!Spec
=============================================================================
