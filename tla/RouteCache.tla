----------------------------- MODULE RouteCache -----------------------------
(***************************************************************************)
(* The routing table of the router and its cache                           *)
(* (src/ixc_syscore/router/src/route.c), on top of the cache's time wheel. *)
(*                                                                         *)
(* A route is found by trying the prefix lengths in use, longest first:    *)
(* the list of lengths is kept sorted, with a count of the routes of each. *)
(* ixc_route_match remembers its answer per address.  A cache entry points *)
(* to its route, and a route counts its entries: a route that is deleted   *)
(* while entries point to it is marked invalid and freed with them.        *)
(*                                                                         *)
(* IPv4 and IPv6 have a table, a list and a cache each and share the code: *)
(* one family is modelled, with addresses of Width bits.  What a route     *)
(* leads to (interface, gateway) is abstracted to its identity.            *)
(***************************************************************************)
EXTENDS TimeWheel, Sequences

CONSTANTS
  Width,        \* bits of an address
  Keys,         \* subnets that may be routed: records [net, prefix]
  Routes,       \* the struct ixc_route_info objects malloc can return
  NoRoute, NoCache, \* NULL in the table and in the cache
  NoAddr,       \* the address of an entry that is not allocated
  CacheTimeout, \* IXC_ROUTE_CACHE_TIMEOUT
  MaxRefs,      \* 0xffff, the most entries of one route
  AgeCap        \* bound: ages above it are not told apart

Addrs    == 0 .. 2^Width - 1
Prefixes == 0 .. Width

ASSUME WidthAssumption == Width \in Nat
ASSUME KeysAssumption == Keys \subseteq [net : Addrs, prefix : Prefixes]
ASSUME NullsAssumption == NoRoute \notin Routes /\ NoCache \notin Data /\ NoAddr \notin Addrs
ASSUME CacheAssumption == CacheTimeout \in Nat \ {0} /\ MaxRefs \in Nat
ASSUME AgeCapAssumption == AgeCap \in Nat /\ AgeCap > CacheTimeout + MaxBack + MaxLag

VARIABLES
  table,    \* route.ip_rt
  prefixes, \* ip_pre_head: the prefix lengths in the order of the list
  uses,     \* refcnt of each struct ixc_route_prefix, 0 if it is not listed
  routes,   \* route objects that are allocated
  invalid,  \* r_info->is_invalid
  refs,     \* r_info->cached_refcnt
  cache,    \* route.ip_rt_cache
  live,     \* struct ixc_route_cache objects that are allocated
  to,       \* cache->r_info
  addr,     \* cache->address
  age,      \* time(NULL) - cache->up_time
  tdata,    \* cache->tdata
  held      \* auxiliary: time since the entry was made

tableVars == <<table, prefixes, uses>>
cacheVars == <<cache, live, to, addr, age, tdata, held>>
vars == <<wheelVars, tableVars, routes, invalid, refs, cacheVars>>

TypeOK ==
  /\ WheelTypeOK
  /\ table \in [Keys -> Routes \cup {NoRoute}]
  /\ prefixes \in Seq(Prefixes)
  /\ uses \in [Prefixes -> Nat]
  /\ routes \subseteq Routes
  /\ invalid \in [Routes -> BOOLEAN]
  /\ refs \in [Routes -> 0 .. MaxRefs]
  /\ cache \in [Addrs -> Data \cup {NoCache}]
  /\ live \subseteq Data
  /\ to \in [Data -> Routes \cup {NoRoute}]
  /\ addr \in [Data -> Addrs \cup {NoAddr}]
  /\ age \in [Data -> Int]
  /\ tdata \in [Data -> Nodes \cup {NoNode}]
  /\ held \in [Data -> Int]

Init ==
  /\ WheelInit
  /\ table = [k \in Keys |-> NoRoute]
  /\ prefixes = <<>>
  /\ uses = [p \in Prefixes |-> 0]
  /\ routes = {}
  /\ invalid = [r \in Routes |-> FALSE]
  /\ refs = [r \in Routes |-> 0]
  /\ cache = [a \in Addrs |-> NoCache]
  /\ live = {}
  /\ to = [c \in Data |-> NoRoute]
  /\ addr = [c \in Data |-> NoAddr]
  /\ age = [c \in Data |-> 0]
  /\ tdata = [c \in Data |-> NoNode]
  /\ held = [c \in Data |-> 0]

(***************************************************************************)
(* The list of prefix lengths.                                             *)
(***************************************************************************)
\* Where ixc_route_prefix_add puts a new length: before the first if that is
\* smaller, else behind the last one that is larger.
Before(p) ==
  IF prefixes = <<>> \/ p > Head(prefixes) THEN 0
  ELSE CHOOSE i \in DOMAIN prefixes :
         p < prefixes[i] /\ \A j \in DOMAIN prefixes : j > i => p >= prefixes[j]

\* (Faulty variant of Listing: new lengths go to the head of the list.)
ListingFirst(p) == IF uses[p] > 0 THEN prefixes ELSE <<p>> \o prefixes

Listing(p) ==
  IF uses[p] > 0 THEN prefixes
  ELSE SubSeq(prefixes, 1, Before(p)) \o <<p>>
         \o SubSeq(prefixes, Before(p) + 1, Len(prefixes))

PrefixAdd(p) ==
  /\ prefixes' = Listing(p)
  /\ uses' = [uses EXCEPT ![p] = @ + 1]

\* ixc_route_prefix_del: the length is unlinked with its last route.
Position(p) == CHOOSE i \in DOMAIN prefixes : prefixes[i] = p

Unlisting(p) ==
  IF uses[p] > 1 THEN prefixes
  ELSE SubSeq(prefixes, 1, Position(p) - 1)
         \o SubSeq(prefixes, Position(p) + 1, Len(prefixes))

PrefixDel(p) ==
  /\ prefixes' = Unlisting(p)
  /\ uses' = [uses EXCEPT ![p] = @ - 1]

(***************************************************************************)
(* The table.                                                              *)
(***************************************************************************)
\* subnet_calc_with_msk.
Masked(a, p) == a - (a % 2^(Width - p))

\* The route of a's subnet of length p.
At(a, p) ==
  LET k == [net |-> Masked(a, p), prefix |-> p]
  IN IF k \in Keys THEN table[k] ELSE NoRoute

\* ixc_route_match without the cache: the first listed length that has one.
Hits(a) == {i \in DOMAIN prefixes : At(a, prefixes[i]) # NoRoute}

Lookup(a) ==
  IF Hits(a) = {} THEN NoRoute
  ELSE At(a, prefixes[CHOOSE i \in Hits(a) : \A j \in Hits(a) : i <= j])

\* ixc_route_add.  (When an allocation fails it undoes what it did.)
RouteAdd(k, r) ==
  /\ Outside
  /\ table[k] = NoRoute /\ r \notin routes
  /\ PrefixAdd(k.prefix)
  /\ table' = [table EXCEPT ![k] = r]
  /\ routes' = routes \cup {r}
  /\ UNCHANGED <<wheelVars, invalid, refs, cacheVars>>

\* (Faulty variant of RouteDel: a route is freed although entries use it.)
RouteDelAtOnce(k) ==
  /\ Outside
  /\ table[k] # NoRoute
  /\ PrefixDel(k.prefix)
  /\ table' = [table EXCEPT ![k] = NoRoute]
  /\ routes' = routes \ {table[k]}
  /\ UNCHANGED <<wheelVars, invalid, refs, cacheVars>>

\* ixc_route_del, ixc_route_del_cb: an unused route is freed, another one is
\* marked.
RouteDel(k) ==
  /\ Outside
  /\ table[k] # NoRoute
  /\ PrefixDel(k.prefix)
  /\ table' = [table EXCEPT ![k] = NoRoute]
  /\ IF refs[table[k]] = 0
     THEN routes' = routes \ {table[k]} /\ UNCHANGED invalid
     ELSE invalid' = [invalid EXCEPT ![table[k]] = TRUE] /\ UNCHANGED routes
  /\ UNCHANGED <<wheelVars, refs, cacheVars>>

(***************************************************************************)
(* The cache.                                                              *)
(***************************************************************************)
\* ixc_route_cache_del_cb of the entry c: its route is freed if it is invalid
\* and not counted any more, else it loses one count.
LastOf(c) == invalid[to[c]] /\ refs[to[c]] = 0

RoutesWithout(c) == IF LastOf(c) THEN routes \ {to[c]} ELSE routes

RefsWithout(c) == IF LastOf(c) THEN refs ELSE [refs EXCEPT ![to[c]] = @ - 1]

\* Invalid is reset with the route object (calloc'ed when it is used again).
InvalidWithout(c) ==
  IF LastOf(c) THEN [invalid EXCEPT ![to[c]] = FALSE] ELSE invalid

\* A hit: the entry of a leads to a route that is still valid.  It is
\* answered as it is, and not renewed.
Hit(a) == cache[a] # NoCache /\ ~invalid[to[cache[a]]]

\* What ixc_route_match returns.
Match(a) == IF Hit(a) THEN to[cache[a]] ELSE Lookup(a)

\* An entry ixc_route_cache_get deletes: that of an invalid route.
Stale(a) == IF cache[a] # NoCache /\ invalid[to[cache[a]]] THEN {cache[a]} ELSE {}

\* The state of the counts after ixc_route_cache_get.
RoutesGot(a)  == IF Stale(a) = {} THEN routes ELSE RoutesWithout(cache[a])
RefsGot(a)    == IF Stale(a) = {} THEN refs ELSE RefsWithout(cache[a])
InvalidGot(a) == IF Stale(a) = {} THEN invalid ELSE InvalidWithout(cache[a])

\* (Faulty variant of FlagsGot: the timer is not cancelled.)
FlagsGotSame(a) == del

\* ... and the is_deleted flags.
FlagsGot(a) == [n \in Nodes |-> del[n] \/ \E c \in Stale(a) : n = tdata[c]]

\* ixc_route_match of an address without a valid entry finds a route and
\* remembers it in the entry c with the timer m.
Remember(a, c, m) ==
  LET r == Lookup(a) IN
  /\ Outside /\ ~Hit(a)
  /\ r # NoRoute
  /\ RefsGot(a)[r] < MaxRefs
  /\ c \notin live \ Stale(a)
  /\ ArmAfter(FlagsGot(a), m, c, FALSE)
  /\ routes' = RoutesGot(a) /\ invalid' = InvalidGot(a)
  /\ refs' = [RefsGot(a) EXCEPT ![r] = @ + 1]
  /\ live' = (live \ Stale(a)) \cup {c}
  /\ cache' = [cache EXCEPT ![a] = c]
  /\ to' = [d \in Data |-> IF d = c THEN r ELSE IF d \in Stale(a) THEN NoRoute ELSE to[d]]
  /\ addr' = [d \in Data |-> IF d = c THEN a ELSE IF d \in Stale(a) THEN NoAddr ELSE addr[d]]
  /\ age' = [d \in Data |-> IF d = c \/ d \in Stale(a) THEN 0 ELSE age[d]]
  /\ held' = [d \in Data |-> IF d = c \/ d \in Stale(a) THEN 0 ELSE held[d]]
  /\ tdata' = [d \in Data |-> IF d = c THEN m ELSE IF d \in Stale(a) THEN NoNode ELSE tdata[d]]
  /\ UNCHANGED tableVars

\* The same when nothing is remembered: there is no route, it has enough
\* entries, or no memory is left.
Drop(a) ==
  /\ Outside
  /\ Stale(a) # {}
  /\ del' = FlagsGot(a)
  /\ routes' = RoutesGot(a) /\ invalid' = InvalidGot(a) /\ refs' = RefsGot(a)
  /\ live' = live \ Stale(a)
  /\ cache' = [cache EXCEPT ![a] = NoCache]
  /\ to' = [d \in Data |-> IF d \in Stale(a) THEN NoRoute ELSE to[d]]
  /\ addr' = [d \in Data |-> IF d \in Stale(a) THEN NoAddr ELSE addr[d]]
  /\ age' = [d \in Data |-> IF d \in Stale(a) THEN 0 ELSE age[d]]
  /\ held' = [d \in Data |-> IF d \in Stale(a) THEN 0 ELSE held[d]]
  /\ tdata' = [d \in Data |-> IF d \in Stale(a) THEN NoNode ELSE tdata[d]]
  /\ UNCHANGED <<slots, data, heap, empty, clockVars, walkVars, tableVars>>

(***************************************************************************)
(* The timer of an entry (ixc_route_cache_timeout).                        *)
(***************************************************************************)
\* map_del with ixc_route_cache_del_cb.
Forget(c) ==
  /\ routes' = RoutesWithout(c) /\ invalid' = InvalidWithout(c) /\ refs' = RefsWithout(c)
  /\ live' = live \ {c}
  /\ cache' = [cache EXCEPT ![addr[c]] = NoCache]
  /\ to' = [to EXCEPT ![c] = NoRoute]
  /\ addr' = [addr EXCEPT ![c] = NoAddr]
  /\ age' = [age EXCEPT ![c] = 0]
  /\ held' = [held EXCEPT ![c] = 0]
  /\ tdata' = [tdata EXCEPT ![c] = NoNode]
  /\ UNCHANGED tableVars

\* (Faulty variant of Fresh: a tick too long.)
FreshTooLong(c) == age[c] <= CacheTimeout

Fresh(c) == age[c] < CacheTimeout

Expire(n) ==
  /\ n \in todo /\ ~del[n] /\ ~Fresh(data[n])
  /\ FireOnly(n)
  /\ Forget(data[n])

\* (Faulty variant of Rearm: the entry is renewed as well.)
RearmRenews(n, m) ==
  /\ n \in todo /\ ~del[n] /\ Fresh(data[n])
  /\ FireRearm(n, m)
  /\ tdata' = [tdata EXCEPT ![data[n]] = m]
  /\ age' = [age EXCEPT ![data[n]] = 0]
  /\ UNCHANGED <<tableVars, routes, invalid, refs, cache, live, to, addr, held>>

Rearm(n, m) ==
  /\ n \in todo /\ ~del[n] /\ Fresh(data[n])
  /\ FireRearm(n, m)
  /\ tdata' = [tdata EXCEPT ![data[n]] = m]
  /\ UNCHANGED <<tableVars, routes, invalid, refs, cache, live, to, addr, age, held>>

RearmNoMemory(n) ==
  /\ n \in todo /\ ~del[n] /\ Fresh(data[n])
  /\ FireOnly(n)
  /\ Forget(data[n])

Skip(n) ==
  /\ SkipDeleted(n)
  /\ UNCHANGED <<tableVars, routes, invalid, refs, cacheVars>>

Handle ==
  /\ HandleBegin
  /\ UNCHANGED <<tableVars, routes, invalid, refs, cacheVars>>

NextSlot ==
  /\ SlotDone
  /\ UNCHANGED <<tableVars, routes, invalid, refs, cacheVars>>

Older(f, d) ==
  [c \in Data |->
     IF c \notin live THEN f[c] ELSE IF f[c] + d > AgeCap THEN AgeCap ELSE f[c] + d]

Elapse(d) ==
  /\ ClockStep(d)
  /\ age' = Older(age, d)
  /\ held' = Older(held, d)
  /\ UNCHANGED <<tableVars, routes, invalid, refs, cache, live, to, addr, tdata>>

(***************************************************************************)
(* Specification.                                                          *)
(***************************************************************************)
Operator == \E k \in Keys : RouteDel(k) \/ \E r \in Routes : RouteAdd(k, r)

Packet ==
  \E a \in Addrs : Drop(a) \/ \E c \in Data, m \in Nodes : Remember(a, c, m)

Fire ==
  \E n \in Nodes :
    \/ Skip(n) \/ Expire(n) \/ RearmNoMemory(n)
    \/ \E m \in Nodes : Rearm(n, m)

Wheel == Handle \/ Fire \/ NextSlot

Time == \E d \in ClockSteps : Elapse(d)

Next == Operator \/ Packet \/ Wheel \/ Time

Spec == Init /\ [][Next]_vars

(***************************************************************************)
(* Properties.                                                             *)
(***************************************************************************)
Entries(r) == {c \in live : to[c] = r}

\* Table, cache and reference counts describe one structure: an entry is
\* found under its address and leads to an allocated route, a route is valid
\* exactly while the table has it, and counts the entries that lead to it.
\* So no packet is sent along a freed route.
CacheLinked ==
  /\ \A a \in Addrs : cache[a] # NoCache => cache[a] \in live /\ addr[cache[a]] = a
  /\ \A c \in live : addr[c] \in Addrs /\ cache[addr[c]] = c /\ to[c] \in routes
  /\ \A r \in Routes : refs[r] = Cardinality(Entries(r))
  /\ \A r \in routes : invalid[r] <=> \A k \in Keys : table[k] # r
  /\ \A k \in Keys : table[k] # NoRoute => table[k] \in routes

\* Every entry has exactly one timer to come, and no freed one has any.
TimersMatchEntries ==
  /\ \A c \in live : tdata[c] \in Pending /\ data[tdata[c]] = c
  /\ \A n \in Pending : data[n] \in live /\ tdata[data[n]] = n

Covers == [k \in Keys |-> {a \in Addrs : Masked(a, k.prefix) = k.net}]

\* What is remembered of each address: the answers of the abstract table.
Answers == [a \in Addrs |-> IF Hit(a) THEN to[cache[a]] ELSE NoRoute]

Table == INSTANCE RouteTable WITH None <- NoRoute, answer <- Answers

\* The table with its sorted list and its cache implements longest-prefix
\* match with remembered answers that die with their route.
ImplementsRouteTable == Table!Spec

\* A packet is not sent along a route that a more specific one replaced for
\* longer than the cache timeout and one gap between two turns of the loop:
\* hits do not renew an entry, nor does its own timer.
Patience == IF CacheTimeout > MaxBack THEN CacheTimeout ELSE MaxBack + 1

StaleBounded ==
  \A a \in Addrs : Match(a) # Lookup(a) => held[cache[a]] < Patience + MaxLag

\* route.c:250, where an entry is deleted: "if the route is invalid and its
\* count of entries is 0, the route is freed".
UnusedInvalidIsFreed ==
  \A r \in routes : invalid[r] => refs[r] > 0
=============================================================================
