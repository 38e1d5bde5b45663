-------------------------------- MODULE Dhcp --------------------------------
(***************************************************************************)
(* The DHCP server of the LAN (src/ixc_syscore/DHCP/pylib/dhcp_server.py)  *)
(* and its address allocator (ipalloc.py), with restarts of the service    *)
(* and the cache file that survives them.                                  *)
(*                                                                         *)
(* Messages come from the clients in any order and number, so a lost, a    *)
(* repeated and a late one are among the behaviours.                       *)
(***************************************************************************)
EXTENDS Integers, FiniteSets

CONSTANTS
  Clients,  \* hardware addresses
  End,      \* addresses of the range are 1..End, range_begin .. range_end
  NoIp,     \* None
  Static,   \* dhcp_ip_bind.ini: addresses by client, keys in lower case
  Tries,    \* the 10 attempts of a DISCOVER
  Probe,    \* 1 second for the ARP probe of an offer
  Reclaim,  \* 30 seconds for an offer to be taken
  Lease     \* __TIMEOUT

Pool == 1..End
Ips == Pool \cup {Static[c] : c \in DOMAIN Static}

ASSUME DhcpAssumption ==
  /\ {End, Tries, Probe, Reclaim, Lease} \subseteq Nat \ {0}
  /\ NoIp \notin Ips /\ 0 \notin Ips

\* Static addresses lie outside the range and differ from each other.
ASSUME StaticAssumption ==
  /\ DOMAIN Static \subseteq Clients
  /\ \A c \in DOMAIN Static : Static[c] \notin Pool
  /\ \A b, c \in DOMAIN Static : Static[b] = Static[c] => b = c

VARIABLES
  bind,    \* alloc.__bind
  reverse, \* the keys of alloc.__bind_reverse
  cur,     \* alloc.__cur_byte_addr
  used,    \* __used_ips
  records, \* __tmp_alloc_addrs
  cache    \* the binds in dhcp_server.cache

allocVars == <<bind, reverse, cur>>
vars == <<allocVars, used, records, cache>>

NoRecord == [ip |-> NoIp, ok |-> FALSE, age |-> 0]
AgeCap == IF Lease > Reclaim THEN Lease ELSE Reclaim + 1 \* no record grows older, see Tick

TypeOK ==
  /\ bind \in [Clients -> Ips \cup {NoIp}]
  /\ reverse \subseteq Ips
  /\ cur \in Pool
  /\ used \subseteq Ips
  /\ records \in [Clients -> [ip : Ips \cup {NoIp}, ok : BOOLEAN, age : 0..AgeCap]]
  /\ cache \in [Clients -> Ips \cup {NoIp}]

Known(c) == records[c].ip # NoIp

(***************************************************************************)
(* ipalloc.py                                                              *)
(***************************************************************************)
\* (Faulty variant of NextFree: bound addresses are not skipped.)
NextFreeAny(k) == k

\* The first address from the cursor on that nobody is bound to, or the end.
NextFree(k) == CHOOSE n \in k..End :
                 /\ n = End \/ n \notin reverse
                 /\ \A i \in k..n - 1 : i \in reverse

\* (Faulty variant of GetIp: the client's own address is not looked for.)
GetIpFresh(c, k) ==
  IF NextFree(k) = End THEN [ip |-> NoIp, cur |-> 1]
  ELSE [ip |-> NextFree(k), cur |-> NextFree(k) + 1]

\* get_ipaddr(c) with the cursor at k: the client's own address, or the next
\* free one.  The end of the range is never given out: it sends the cursor
\* back to the start.
GetIp(c, k) ==
  IF bind[c] # NoIp THEN [ip |-> bind[c], cur |-> k]
  ELSE IF NextFree(k) = End THEN [ip |-> NoIp, cur |-> 1]
  ELSE [ip |-> NextFree(k), cur |-> NextFree(k) + 1]

Taken(a) == \E c \in Clients : bind[c] = a

\* (Faulty variant of BindIp: the conflict is not looked for.)
BindIpAlways(c, a) ==
  /\ bind' = [bind EXCEPT ![c] = a]
  /\ reverse' = reverse \cup {a}

\* bind_ipaddr(c, a): refused, without a word, when the address is bound.
BindIp(c, a) ==
  /\ bind' = IF Taken(a) THEN bind ELSE [bind EXCEPT ![c] = a]
  /\ reverse' = IF Taken(a) THEN reverse ELSE reverse \cup {a}

\* (Faulty variant of Unbind: the address of another client may be freed.)
UnbindOffered(S) ==
  /\ bind' = [c \in Clients |-> IF c \in S THEN NoIp ELSE bind[c]]
  /\ reverse' = reverse \ {records[c].ip : c \in S}

\* unbind_ipaddr for the clients of S.
Unbind(S) ==
  /\ bind' = [c \in Clients |-> IF c \in S THEN NoIp ELSE bind[c]]
  /\ reverse' = reverse \ {bind[c] : c \in S}

(***************************************************************************)
(* dhcp_server.py                                                          *)
(***************************************************************************)
Init ==
  /\ bind = [c \in Clients |-> IF c \in DOMAIN Static THEN Static[c] ELSE NoIp]
  /\ reverse = {Static[c] : c \in DOMAIN Static}
  /\ cur = 1
  /\ used = {}
  /\ records = [c \in Clients |-> NoRecord]
  /\ cache = [c \in Clients |-> NoIp]

\* The attempts of a DISCOVER: an address that was offered is passed over,
\* until the last attempt takes what it gets.
Attempt(c) ==
  LET try[n \in 1..Tries] == [k \in Pool |->
        LET r == GetIp(c, k)
        IN IF n = Tries \/ (r.ip # NoIp /\ r.ip \notin used) THEN r ELSE try[n + 1][r.cur]]
  IN try[1][cur]

\* handle_dhcp_discover_req: the record of a client that has one is kept.
Discover(c) ==
  LET r == Attempt(c)
  IN /\ cur' = r.cur
     /\ IF r.ip = NoIp
        THEN UNCHANGED <<used, records>>
        ELSE /\ used' = used \cup {r.ip}
             /\ records' = IF Known(c) THEN records
                           ELSE [records EXCEPT ![c] = [ip |-> r.ip, ok |-> FALSE, age |-> 0]]
     /\ UNCHANGED <<bind, reverse, cache>>

\* An offer is not confirmed in its first second, in which the probe may be
\* answered.
Probing(c) == records[c].age < Probe /\ ~records[c].ok

\* handle_dhcp_request: the answer is for the address that the client names,
\* the bind for the address of its record.  A client without a record is
\* told NAK and nothing changes.
Request(c, inSubnet) ==
  /\ Known(c) /\ ~Probing(c)
  /\ records' = [records EXCEPT ![c].ok = inSubnet, ![c].age = 0]
  /\ IF inSubnet THEN BindIp(c, records[c].ip) ELSE UNCHANGED <<bind, reverse>>
  /\ UNCHANGED <<cur, used, cache>>

Forget(S) ==
  /\ used' = used \ {records[c].ip : c \in S}
  /\ records' = [c \in Clients |-> IF c \in S THEN NoRecord ELSE records[c]]

\* handle_dhcp_decline.
Decline(c) ==
  /\ Known(c)
  /\ Forget({c})
  /\ Unbind({c})
  /\ UNCHANGED <<cur, cache>>

\* handle_dhcp_release.
Release(c) ==
  /\ Known(c)
  /\ Forget({c})
  /\ IF c \in DOMAIN Static THEN UNCHANGED <<bind, reverse>> ELSE Unbind({c})
  /\ UNCHANGED <<cur, cache>>

\* (handle_arp, the answer to a probe, returns at once: an address of the
\* sender is never both broadcast and the server's.  It changes nothing.)

\* When loop gives up an offer, and when it ends a lease.
Unanswered(c) == Known(c) /\ ~records[c].ok /\ records[c].age > Reclaim

\* (Faulty variants of Expired: a comparison too strict, and a lease that was
\* not confirmed.)
ExpiredLate(c) == Known(c) /\ records[c].ok /\ records[c].age > Lease
ExpiredUnconfirmed(c) == Known(c) /\ records[c].age >= Lease

Expired(c) == Known(c) /\ records[c].ok /\ records[c].age >= Lease

\* loop.
Loop ==
  /\ Forget({c \in Clients : Unanswered(c) \/ Expired(c)})
  /\ Unbind({c \in Clients : Expired(c)} \ DOMAIN Static)
  /\ UNCHANGED <<cur, cache>>

\* A second passes.  (Bound: loop has run in the second a record is over.)
Tick ==
  /\ \E c \in Clients : Known(c)
  /\ \A c \in Clients : ~Unanswered(c) /\ ~Expired(c)
  /\ records' = [c \in Clients |->
       IF Known(c) THEN [records[c] EXCEPT !.age = @ + 1] ELSE records[c]]
  /\ UNCHANGED <<allocVars, used, cache>>

\* The service stops and starts: release saves the binds, a crash does not.
\* load_dhcp_cache makes a record
\* and a bind of each cached one, load_static_dhcp_rule then forces its own.
Started(old) ==
  /\ bind' = [c \in Clients |-> IF c \in DOMAIN Static THEN Static[c] ELSE old[c]]
  /\ reverse' = ({old[c] : c \in Clients} \ {NoIp}) \cup {Static[c] : c \in DOMAIN Static}
  /\ records' = [c \in Clients |-> [ip |-> old[c], ok |-> FALSE, age |-> 0]]
  /\ cur' = 1 /\ used' = {}

Restart == cache' = bind /\ Started(bind)
Crash   == UNCHANGED cache /\ Started(cache)

Message(c) ==
  \/ Discover(c)
  \/ \E inSubnet \in BOOLEAN : Request(c, inSubnet)
  \/ Decline(c)
  \/ Release(c)

Next ==
  \/ \E c \in Clients : Message(c)
  \/ Loop \/ Tick
  \/ Restart \/ Crash

Spec == Init /\ [][Next]_vars

(***************************************************************************)
(* Properties                                                              *)
(***************************************************************************)
Dynamic == Clients \ DOMAIN Static

\* No address is bound to two clients, whatever the messages, restarts from
\* an old cache and static rules forced over it (ipalloc.bind_ipaddr).
BoundOnce ==
  \A b, c \in Clients : bind[b] # NoIp /\ bind[b] = bind[c] => b = c

\* The two directions of the allocator agree where unbind_ipaddr relies on
\* it: `del self.__bind_reverse[ipaddr]` finds every bound address.
ReverseHasBound ==
  \A c \in Clients : bind[c] # NoIp => bind[c] \in reverse

\* The record of a client names the address that it is bound to, so what
\* release, decline and expiry take back from __used_ips is what they unbind.
RecordIsBind ==
  \A c \in Dynamic : Known(c) /\ bind[c] # NoIp => records[c].ip = bind[c]

\* A DISCOVER, whenever it comes, is not offered the address of another
\* client: the cursor skips the bound addresses through every wrap-around.
OffersFree ==
  \A b, c \in Clients : LET a == Attempt(c).ip IN a # NoIp /\ bind[b] = a => b = c

\* A client without a static rule loses or changes its address only when it
\* gives it back, when its lease is over, or when the service restarts: not
\* by what another client does, nor by a repeated DISCOVER or REQUEST.
LeaseKept ==
  [][\A c \in Dynamic : bind[c] # NoIp /\ bind'[c] # bind[c] =>
       \/ Decline(c) \/ Release(c)
       \/ Loop /\ records[c].ok /\ records[c].age >= Lease
       \/ Restart \/ Crash]_vars
=============================================================================
