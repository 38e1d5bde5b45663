# ixcsys in TLA+

This directory is a TLA+ development of *ixcsys*, a software router (C data plane, Python
services).  It models the parts of the program that keep state over time and whose mistakes
a unit test would hardly reach, checks them with TLC on small instances and proves the most
important results with TLAPS for every value of the constants.

Paths below are relative to the repository (`src/` here).

## 1. The system

One router process runs the C data plane and, inside the same thread, Python handlers.  The
other services (DHCP, DNS, secDNS, proxy, sysadm, init) are Python processes that talk to the
router over its RPC socket and over UDP.

```
        epoll ──> ev_loop ──┬─ callbacks of descriptors (netif, npfwd, rpc)
        (ev.c)              ├─ time_wheel_handle (rpc timers)
                            ├─ sweep of the deleted events
                            └─ ixc_myloop ── sysloop_do ── NAT wheel, route wheel, QoS, ...
                                                        └─ python loop every 30 s
```

Everything in the router is single threaded.  What interleaves is the order of callbacks:
packets, operator calls (RPC), the peers of the RPC socket, the moment at which the clock has
advanced by a tick, and allocations that fail.

### Inventory

| Component | Code | State | Operations | Hard behaviour | What makes it correct |
|---|---|---|---|---|---|
| Time wheel | `pywind/clib/timer.c` | ring of slots, node pool, current slot, old time | add, handle, callbacks that add again, lazy delete flag | callbacks re-arm during the walk; stalls; clock steps | every armed timer fires once, no node leaks or is aliased |
| Event loop | `pywind/clib/ev/*.c` | event map, delete list, wheel, interest flags | create, delete (lazy), timeout_set, modify, loop | delete during callbacks, timer of a freed event | a callback only runs for an open event |
| RPC | `pywind/clib/ev/rpc.c` | one session per connection | accept, request, close, idle timeout | idle timer against traffic | idle connections are closed, active ones are not |
| NAT | `router/src/nat.c` | two maps, sessions, id sets, wheel | LAN and WAN packets, timeout, id range | one object in three structures; partial failure; id reuse | bindings are distinct, consistent, time-bounded |
| Port map | `router/src/port_map.c` | records by protocol and port | add, del, find | byte order | wins over NAT, and NAT ids avoid it |
| Routes | `router/src/route.c` | table, sorted prefix list, cache, counts, wheel | add, del, match | cache against table changes; deferred free | longest match; stale answers bounded |
| Neighbours | `router/src/addr_map.c`, `arp.c`, `icmpv6.c` | record per address | add, get, check, timeout | re-probe on every tick | no stale hardware address after a change |
| Reassembly | `router/src/ipunfrag.c` | a buffer per (src, dst, id) | add, timeout | order and loss of fragments | only complete datagrams |
| Packet filter | `router/src/sec_net.c`, `src_filter.c` | rules, verdict cache | match, add, timeout | stale verdicts | verdict of the current rules |
| QoS | `router/src/qos.c` | slots of queued packets | add, pop, first hosts | re-entrant send during pop | per-flow order, no packet lost |
| Interfaces | `router/src/netif.c`, `npfwd.c` | transmit queues, write interest | send, tx, rx | EAGAIN, full queue, epoll interest | a queued packet is sent or freed, interest matches queue |
| Buffers | `router/src/mbuf.c` | pool | get, put, clone | limit, shrinking | none leaked or freed twice |
| Trie map | `pywind/clib/map.c` | 256-way trie with counts | add, del, find, each | allocation failing midway | a partial function |
| System loop | `pywind/clib/sysloop.c` | list of callbacks | add, del, do | deletion while iterating | every callback once per turn |
| PPPoE | `router/src/pppoe.c`, `router/pylib/{pppoe,lcp,pap,chap,ncp,ipcp,ipv6cp}.py` | negotiation state, heartbeat count, AC list | discovery, LCP, auth, NCP, reset | late messages, timeouts, AC rotation | link comes up again after any loss |
| DHCP server | `DHCP/pylib/{dhcp_server,ipalloc}.py` | binds, leases, used addresses, cache file | discover, request, decline, release, arp, loop, save/load | restart, conflicts, expiry | no address given to two clients |
| DHCP clients | `DHCP/pylib/{dhcp_client,dhcpv6c}.py` | lease state machine | offer, ack, nak, timers | lost messages | renews before it expires |
| DNS proxy | `DNS/` | query map, rule sets, cache | query, response, timeout | id reuse, late answers | answers go to the asker |
| secDNS | `secDNS/` | TLS connections, waiting queries | forward, reconnect | reconnect with queries pending | – |
| Tunnel proxy | `proxy/` | tunnel, host table, dns | packets, reconnect | server not in the repository | – |
| Supervisor, sysadm, init, event framework | `ixc_main.py`, `sysadm/`, `init/`, `pywind/evtframework/` | processes, HTTP sessions | start, stop, RPC | – | – |

Vendored and generated material (rule lists, configuration, IEEE OUI data, `pywind/web`,
`pywind/lib`, and the web assets below `sysadm/web/staticfiles`, that is bootstrap and
fontawesome, the only JavaScript files of the repository with more than a few lines) carries no
logic of the router and is left aside.  Everything that is modelled is C or Python.

The hazards found in this code, each at its line, are listed in `PROJECT.json`.  Those
without a property say why.

## 2. Modules

| Module | Models | Kind |
|---|---|---|
| `TimeWheel` | `timer.c` | state and actions, no specification of its own |
| `TimerService` | what a client expects of a timer | abstract specification |
| `EvRpc` | `ev.c` and `rpc.c` on a `TimeWheel` | component |
| `NatTable` | flows bound to distinct ids | abstract specification |
| `Nat` | `nat.c` and `port_map.c` on a `TimeWheel` | component |
| `RouteTable` | longest match with remembered answers | abstract specification |
| `RouteCache` | `route.c` on a `TimeWheel` | component |
| `Mbuf` | `mbuf.c`: the pool of buffers and its limit | state and actions |
| `Interest` | `ev_modify` with `ev_epoll.c` and `ev_select.c` | state and actions |
| `Netif` | `netif.c`: transmit queues on `Mbuf` and `Interest` | state and actions |
| `Qos` | `qos.c`: slots, their list, the walk that pops | state and actions |
| `LossyFifo` | streams that may lose packets and never reorder them | abstract specification |
| `DataPlane` | a packet's way through `Netif` and `Qos` under the turns of the loop | composition |
| `Dhcp` | `dhcp_server.py` on `ipalloc.py`, with restarts | component |
| `Pppoe` | `pppoe.c` with `pylib/pppoe.py` and `pylib/lcp.py` | component |
| `TimeWheelProofs` | lemmas about the wheel | proofs |
| `EvRpcProofs`, `NatProofs`, `RouteCacheProofs`, `DataPlaneProofs`, `LossyFifoProofs`, `DhcpProofs`, `PppoeProofs` | theorems about the components | proofs |
| `MC_*` | instances for TLC | model checking |

**The wheel.**  `TimeWheelProofs` has two invariants.  `WheelSound` is what survives any stall:
a node is in use or idle and never both, no two lists hold one node (the slot that is just being
fired excepted, which is emptied afterwards and whose rest is in `todo`), and the pool is
bounded.  `WheelInv` adds where timers can be: outside a walk only the current slot's list is
non-empty (all callers arm one tick ahead, which the code counts from the current slot), and
during a walk only the slot being fired and the slot armed into, which the walk does not reach
because of `NoStall`.  Without `NoStall` a re-armed node may sit in a slot that is about to be
emptied, and is lost: malloc'ed, on no list, never fired.  So with stalls each wheel action is
known to make `Pending` *at most* what it should be, and without stalls exactly that.  Each
action has one lemma of either kind, which says what it does to `Pending`, to `data` and to the
invariant, and the components use only these.

**Its clients.**  `EvSound`, `NatSound` and `RouteSound` add to `WheelSound` the links among the
component's own tables and `PendingOwned`: every callback to come belongs to an object that is
allocated and that holds this very node.  This is the half of the relation between timers and
objects that memory safety rests on (`time_wheel_timeout` passes a bare pointer to the
callback); it makes the deletion paths go through, and the refinements of `NatTable` and
`RouteTable` follow from it, so they need no assumption about the clock.  `EvInv`, `NatInv` and
`RouteInv` add the other half, which a stall breaks: every object has a callback to come; and
bounds on ages that depend on the place of the timer (listed, or still to be fired): the bounds
of `IdleBounded` and `StaleBounded` are not inductive without this.  For routes the invariant
also has the list of prefix lengths (sorted, each length once, counted as often as the table has
it) and that no route object is in the table twice.  In the refinements each action maps to the
abstract action of the same purpose or to a stutter.  `EvHeldWillFire` and `NatBindingsDistinct`
transport an invariant of the abstract specification along the refinement.

**Data plane.**  Four small modules hold the state of four C files and give their operations
as actions; `DataPlane` composes them into the turn of the router: `Wait` (`epoll_wait` reports
any subset of what is polled), `Readable` and `Writable` of each descriptor, the packets of a
read (`RxGet` to `RxEnds`), then `ixc_qos_sysloop_cb` (`QosTry`, `QosPops`, one `Pop...` action
per packet).  There is one thread, so the only choices are those of the devices (each `write`
succeeds, would block, or fails: `TxWrite`, `TxEnds`), of the allocator (`MbufGetFails`), of
the packets, and of the operator (`SetExpress`: first hosts and the tunnel address).  A call
under way is kept in the state instead of being one step: `tx` is the interface whose queue is
being written, `held` a packet that its handler will give back after it has sent one of its
own, `ask` the interface on which that one goes out (an ARP request, a neighbour solicitation
or an ICMP error).  `tag` is auxiliary: the flow of a packet and whether it was queued.
`Interest` keeps apart what the flags of `struct ev` say (`added`) and what the backend polls
(`polled`).

**DHCP server.**  `bind`, `reverse` and `cur` are the allocator, `used`, `records` and `cache`
the server.  One action per message (`Discover`, `Request`, `Decline`, `Release`), `Loop`,
`Tick` (a second), `Restart` (the binds are saved first) and `Crash` (they are not).  Messages
are free inputs, so a lost, a repeated and a late one are among the behaviours.  `Attempt` is
the loop of up to ten tries, each of which moves the cursor, `NextFree` the cursor's walk.
A `REQUEST` is any, the address it names matters only for its subnet, because the code binds
the address of the record.  The range and the static rules are constants; an
ARP answer (`handle_arp`) changes nothing, since its first test is always true.

**PPPoE.**  `c` is `struct ixc_pppoe`, `py` the Python objects.  A reset runs through both
halves and back in one call, so what a call makes of the halves is written with operators on
one record of the two (`World`), composed as the calls are.  Packets (`Pado`, `Pads`, `Padt`,
LCP, authentication) are free inputs.  Time goes in steps of ten seconds, of which all limits
of the code are multiples; `Turn` is one of `ixc_pppoe_sysloop_cb`, and every third one also
runs the Python loop.  `is_first` is implied by the state of LCP, PAP and CHAP change the same
state, the hourly clearing of the list may fall in any Python loop, and an index past the end
of the list stays there, so it stops at one past the longest list (`CountCap`).  `Reset` stops
halfway, as Python does, when the index is past the end (`aborted`, auxiliary).

## 3. Runs

| Run | Question | Size |
|---|---|---|
| `ev_rpc` | Are timers and connections consistent, do they implement the timer service, are idle connections and only they closed? | 2 connections, 3 nodes, ring of 3 slots of 2 s, gaps up to 5 s |
| `ev_rpc_stall` | Is an armed timer still on the ring after a gap of a whole turn? (violated) | the same, gaps up to 7 s |
| `nat` | Are maps, sessions, timers and ids consistent under failures, range changes, port map edits and a clock set back? | 3 flows, 2 sessions, 2 ids, ring of 3 slots |
| `nat_live` | Does an active flow keep its id, is a silent session deleted? | 2 TCP flows, short and long timeout, fair |
| `nat_port_map` | Does a new id avoid the port map? (violated) | one conflicting record |
| `nat_range` | Is a new id inside the range? (violated) | one range change |
| `route` | Are table, list, cache, counts and timers consistent; is staleness bounded; is it longest-prefix match? | 4 addresses, 3 nested subnets, 4 route objects, 2 entries, ring of 3 slots |
| `route_leak` | Is an invalid route without entries freed? (violated) | the same, one entry per route |
| `data_plane` | Is every buffer in one place, does the list of slots hold exactly those with packets, do queues drain and slots get their turn, do streams keep their order? | 3 buffers of which 2 pre-allocated, 2 interfaces, 2 slots, 3 flows, epoll, fair; 443 274 states |
| `data_plane_poll` | Is an interface polled for what its flags say? (violated) | the same, both backends |
| `dhcp` | Can two clients get one address, do the tables agree, does a lease last? | 3 clients of which one with a static rule, 2 free addresses, fault model: stop, crash, start; 951 684 states |
| `pppoe` | Do the halves agree, does a client left alone dial anew, and by when, is every concentrator tried? | 2 concentrators, heartbeat on, fair; 1 092 995 states |

**Bounds.**  Two clients are enough for every pairwise interaction (two timers in one slot, in
two slots, one client's node recycled by the other); three nodes with one pre-allocated make
the pool grow, shrink and run out.  Three slots are the smallest ring in which the slot being
fired, the slot armed into and another one differ; gaps of up to `MaxLag` cover zero, one and
two ticks and remainders.  Three flows on two ids make ids run out and be reused by another
flow.  Addresses of two bits under a default route, a one-bit and a two-bit prefix let a length
be listed and unlisted between two others.  Ages stop at `AgeCap`, above everything they are
compared with.  Route objects that leak are never reused, so a run adds as many routes as there
are objects.

Three buffers, two pre-allocated, let one be queued, one be in the hands of a handler and one
answer for it, at the limit of the pool; two slots are the shortest list whose head and whose
inner member can be unlinked; two of the flows share a direction, one can change between the
queue and the bypass, and one comes from the WAN; two packets per read (`ReadNum`) fill a slot
twice in a turn.  The DHCP range has three addresses, of which the last is never given out;
four attempts instead of ten pass the two free ones and the wrap-around twice.  Times are one
and two seconds: only their order matters.  The PPPoE limits are the code's (in steps of ten
seconds) but for the heartbeat, which gives up after one missing answer instead of three; two
concentrators are the shortest list along which the index moves and over whose end it runs
after the list was cleared.

**Fairness.**  `EvRpc!FairSpec` has weak fairness of the loop: `epoll_wait` is called with a
timeout of at most ten seconds and no callback waits, so the loop turns for ever.  Time is
strongly fair because the guard of `Wait` only holds in the io phase: the clock cannot stand
still in every turn.  `Nat!FairSpec` has weak fairness of the wheel, which `ixc_myloop` runs in
every turn, and of time.  `DataPlane!FairSpec` and `Pppoe!FairSpec` have weak fairness of the
loop and of its turns, for the same reason.  No packet, request, answer or operator call is
assumed to ever happen, and no device is assumed to ever accept a packet: `WanDrains` holds
because an interface that has written nothing since its last try drops a packet at the next
(`IXC_NETIF_WRITE_FAIL`), and the QoS tries in every turn; and
`SlotsServed` says what it needs, that the WAN is empty again and again.  `Redials` is about a
line on which nothing comes any more (`Silence`); `RedialsInTime` needs no fairness, it counts turns.

**What the properties are about.**  `MbufConserved`: a buffer may take many paths, errors
included, each of which must give it back once.  `SlotsListed`: the list is unlinked while it is walked,
with three pointers into it.  `ImplementsLossyFifo` maps each stream to the set of its packets
and the pairs of them of which one is ahead of the other (in the transmit queue before those in
the slot, by position inside each); a flow that changes between queue and bypass is two
streams, because the code does let it overtake itself there.  `OffersFree` and `BoundOnce`: the allocator's two
tables, the server's records, the cache file and the static rules are written by different
code.  `HalvesAgree`, `Redials` and `RedialsInTime`: five timeouts in two halves, each of which
stands still in some stage, have to cover for each other, and none may put off another
(`TurnsAtMost` is 30 turns of ten seconds with the limits of the code).  `EveryAcTried`: the rotation of the concentrators.

**Violations.**  Each of the five runs that end in a violation states what a comment of the
code says; `PROJECT.json` quotes it.

1. `timer.c`: a walk over a whole turn of the ring empties the slot that its own callbacks
   armed into (seven slots of ten seconds under the event loop: 70 s).
2. `nat.c`: the id offered to a session is compared with the port map in the wrong byte order,
   and a fresh id not at all, so that a mapped port is used by a session.
3. `nat.c`: after a change of the id range, ids of the old range are still given out from the
   free list.
4. `route.c`: the count of a route's entries is tested before it is decremented, so a deleted
   route that was ever cached is never freed.
5. `ev_epoll.c`: asking for write events replaces the mask of the descriptor, and withdrawing
   them takes it out of epoll, while the flags still say that reads are polled.  After one
   write that would block, an interface is not read any more.

Met while modelling and kept in the models as the code has it, without a run of its own: the
PPPoE reset that raises at `pppoe.py:250` leaves a dead session that nobody watches (the
`aborted` exception of `HalvesAgree` and `Redials`; TLC reaches it in a dozen steps); the
count of missed heartbeats survives a reset, so that the next session is cut early; a late
PADO and PADS replace an authenticated session; a DHCP offer that is reclaimed leaves the
bind.

## 4. Theorems

All proofs are checked by TLAPS with no unproved step.  They hold for every number of clients,
nodes, slots, ids, buffers, interfaces, concentrators and every tick and timeout, under the
constants' assumptions (the named `ASSUME`s of the modules, evaluated by every run) and these,
stated in the theorems:

* `NoStall` (`MaxLag < Ring * Every`): no gap of a whole turn of the ring.  Only what says that
  a timer *will* fire needs it: `EvNodesAccounted`, `EvTimersMatch`, `EvImplementsTimerService`,
  `EvHeldWillFire`, `EvIdleBounded`, `NatTimersMatch`, `NatIdleBounded`, `RouteTimersMatch` and
  `RouteStaleBounded`.  The run `ev_rpc_stall` shows that it is needed.  All other theorems hold
  however long the loop is held up, also beyond the gaps that the runs enumerate.
* `NeverBack` (the clock is not set back) and `TickCoversIdle` (`IdleTimeout <= Every`, true of
  the code with 10 and 10) for the two bounds on idle connections.
* `InitialNotOffered` (no range change returns to the initial range) for the conservation of ids.
* `~MallocFails` for `ActiveKeepsId`: without memory for the next timer NAT drops a session
  that is active.
* `NoWrap` (no range ends at 65535, where `cur_id` wraps) and `RulesApart` (no port map record
  inside an offered range) for `ReplyReachesSender`.  The run `nat_port_map` shows what happens
  without the second.

**The wheel.**  Its invariant (`WheelInv` of `TimeWheelProofs`) says, besides types
and node accounting, where timers can be: outside a walk only the current slot's list is
non-empty (all callers arm one tick ahead, which the code counts from the current slot), and
during a walk only the slot being fired and the slot armed into, which the walk does not reach
because of `NoStall`.  Without that clause nothing about the wheel is inductive: a re-armed
node could sit in a slot about to be dropped.  Each wheel action has one lemma that says what
it does to `Pending`, to `data` and to the invariant, and the components use only these.

**Its clients.**  `EvInv`, `NatInv` and `RouteInv` add the link between timers and objects in
both directions (*every* object has its node, *every* pending node its object), which makes the
deletion paths go through, and bounds on ages that depend on the place of the timer (listed, or
still to be fired): the bounds of `IdleBounded` and `StaleBounded` are not inductive without
this.  For routes the invariant also has the list of prefix lengths (sorted, each length once,
counted as often as the table has it) and that no route object is in the table twice.  The refinements follow from the invariants: each action maps to the abstract action
of the same purpose or to a stutter.  `EvHeldWillFire` and `NatBindingsDistinct` transport an
invariant of the abstract specification along the refinement.

**Data plane.**  `PlaneInv` reads all places that may hold a buffer (the pool apart) as one
function `At` from places to sequences; every action takes the first buffer of a place, adds
one to a place or moves one, and three lemmas say what that does to the accounts.  That the
walk of the slots meets no empty slot needs the shape of the list: links go from slot in use to
slot in use, to each from one at most, and descend a rank, so the list has no cycle.  That the
links lead from the head to *every* slot in use (`PlaneSlotsListed`) needs one clause more,
that each of them but the head has a predecessor: the missed slot of highest rank would have
one above it.  `PlaneWalkServesEach` follows the walk: the slots that the links reach from its
cursor (`ToServe`) are at first all slots in use, each turn takes exactly the cursor's own away
(the links behind it go down the rank, so they lead neither to it nor to the slot before it,
the two that unlinking changes), and it ends when there are none.  `PlaneQueuesDrain` counts the
calls that a queued packet waits for (`TriesLeft`): a call that writes nothing and drops nothing
has at least set the flag that makes the next one drop.

**Streams.**  `ImplementsLossyFifo` is proved in `LossyFifoProofs`.  A step changes the streams
in one of five ways: a packet is appended to a transmit queue or to a slot, the first packet
leaves the one or the other, or it goes from its slot to the end of the queue of its flow.  The
last is a stutter of the abstract specification, and the interesting case: it keeps the order
because all of its stream in the queue is ahead of it already and all the rest in the slot is
behind it.  For this, and for appending to touch no other stream, the invariant (`FifoInv`) must
know that a slot holds packets of flows that hash to it (`SlotsFit`) and that a packet which is
in neither queue nor slot belongs to no stream (`TagsPlaced`).  `PlaneNobodyOvertakes` is read
off the abstract specification through the refinement.

**DHCP.**  The invariant of `BoundOnce` needs to know what a bind can become after a restart:
the cache holds no address twice either, and no client ever has, in a bind, in the cache or in
a record, the static address of another (`OwnOnly`), so forcing the rules over the cached binds
makes no conflict.  What a `DISCOVER` is offered is computed by two loops; that they end with an
answer of `get_ipaddr` takes an induction, which is done with the least element of a set of
numbers, because the induction theorems of the library take an operator as a parameter.

**PPPoE.**  The record of a world is typed half by half (`CHalf`, `PyHalf`), so that a proof about
an operator opens only the half that it changes.  Each operator keeps a good record good
(`Good`), and the steps are compositions of the operators.  `HalvesAgree` is not inductive: that
authentication finds the Python half watching needs `Watched`, that Python watches a session
from the moment it is granted.  `RedialsInTime` is the variant of the argument for `Redials`,
proved for all limits: while a session does not come up C's patience shrinks, while one is up
and answers nothing either the next echo comes nearer or one more is counted, which is worth
the `LcpWait + PyEvery` turns it took at most.  It needs `Placed` (without a stage nothing is
selected, and the age of the C half passes `GiveUp` only in a session that is up), and what
each half makes of a record in one turn (`LineOutcome`, `PyLoopOutcome`).  `PppoeEachInTurn` is
the variant for `EveryAcTried`: of a step only matters whether it clears the list, lets it grow
or rotates (`StepCases`); a rotation brings the index nearer to every other place, a new name
takes it one further from those before the index, but only as many names can join as there are
concentrators, because the list has none twice (`NamesOnce`, `ListBounded`).

**Reading and re-checking the proofs.**  Leaves are kept small: all eight modules also check
when the provers get a fifth of their usual time, so that no theorem depends on a fast machine.

**Only model-checked:** the liveness properties `IdleIsClosed`, `SilentIsDeleted`, `WanDrains`,
`SlotsServed`, `Redials` and `EveryAcTried` (liveness under fairness is outside the prover's
reach).  Their variants are proved for all constants: `PlaneQueuesDrain`, `PlaneWalkServesEach`,
`PppoeRedialsInTime` and `PppoeEachInTurn` for the last four, the bounds `EvIdleBounded` and
`NatIdleBounded` for the first two.  What is left to TLC is that the loop, its turns and its
calls go on.  The properties of the runs that end in a violation are not theorems, of course.

## 5. Not modelled, and why

* `time_wheel_release`, `ixc_*_uninit`: shutdown only.
* The bytes of packets and RPC messages, checksums and header rewriting: no property here is
  about them.
* The error path of `rpc_session_writable_fn`, which deletes one event twice, is listed as a
  hazard; `Close` of the model does not happen twice to one event before the sweep.
* The second address family of `route.c`, which shares the code and only the wheel.
* In the data plane: fragmentation and reassembly (`ipunfrag.c`), copies to user land
  (`npfwd.c`, `ixc_mbuf_clone`), the PASS interface, and packets sent back on the interface they
  came from.  An unknown neighbour is the choice to ask first, a filter the choice to drop: the
  records of `addr_map.c` and `sec_net.c` themselves are not modelled; they hang on a wheel in
  the way of NAT sessions and route cache entries.
* In DHCP: boot options and host names; changes of the range and of the rules while the service
  runs; the address named in an ACK.
* In PPPoE: session ids, request ids and magic numbers (a packet that does not match is one
  that never came), and the address negotiation after authentication, which has no influence on
  the session.
* The trie inside `map.c` is used by its contract.
* DHCP clients, DNS proxy, secDNS and tunnel proxy: separate processes with state machines of
  their own; the number of questions here was limited to the router and the server whose
  mistakes reach every host of the LAN.
* The web administration: forms over the configuration.  Its JavaScript is bootstrap and
  fontawesome, vendored; modelling it would say nothing about this program.

## 6. What could come next

1. The trie of `map.c` with its reference counts and free list, as an implementation of a
   partial function: every component above relies on it.
2. Neighbours (`addr_map.c`, `arp.c`) on a `TimeWheel`, composed with the data plane's choice to
   ask first; reassembly with fragments in any order.
3. The cached verdicts of `sec_net.c`, in the shape of `RouteCache`, without its bound on
   staleness: hits renew them.
4. The DNS proxy: answers by transaction id, timeouts against late answers.
