----------------------------- MODULE DhcpProofs -----------------------------
(***************************************************************************)
(* Theorems about the DHCP server.                                         *)
(*                                                                         *)
(* What a DISCOVER is offered is computed by two loops: the cursor's walk  *)
(* to the next free address and the attempts.  The first part shows that   *)
(* they end with an answer of get_ipaddr; it does the induction that this  *)
(* takes with the least element of a set of numbers.  The second part is   *)
(* the inductive invariant.                                                *)
(***************************************************************************)
EXTENDS Dhcp, FiniteSetTheorems, WellFoundedInduction, TLAPS

(***************************************************************************)
(* The loops.                                                              *)
(***************************************************************************)
\* The least number of a set: the intervals that end in its members are
\* finite sets, which strict inclusion orders well.
LEMMA Least ==
  ASSUME NEW lo \in Int, NEW hi \in Int, NEW S \in SUBSET (lo..hi), S # {}
  PROVE  \E m \in S : \A n \in S : m <= n
<1> DEFINE T == {lo..n : n \in S}
<1>1. T \subseteq FiniteSubsetsOf(Int)
  <2>1. \A n \in S : n \in Int /\ lo..n \subseteq Int /\ IsFiniteSet(lo..n)
    BY FS_Interval
  <2> QED BY <2>1 DEF FiniteSubsetsOf
<1>2. T # {}
  OBVIOUS
<1>3. IsWellFoundedOn(StrictSubsetOrdering(Int), FiniteSubsetsOf(Int))
  BY FS_StrictSubsetOrderingWellFounded
<1>4. PICK I \in T : \A J \in T : <<J, I>> \notin StrictSubsetOrdering(Int)
  <2> HIDE DEF T
  <2> QED BY <1>1, <1>2, <1>3, WFMin
<1>5. PICK m \in S : I = lo..m
  OBVIOUS
<1>6. ASSUME NEW n \in S, n < m PROVE FALSE
  <2>1. lo..n \in T /\ lo..n \in SUBSET Int /\ lo..m \in SUBSET Int
    OBVIOUS
  <2>2. lo..n \subseteq lo..m /\ m \notin lo..n /\ m \in lo..m
    BY <1>6
  <2>3. <<lo..n, lo..m>> \in StrictSubsetOrdering(Int)
    <3> HIDE DEF T
    <3> QED BY <2>1, <2>2 DEF StrictSubsetOrdering
  <2> QED BY <2>1, <2>3, <1>4, <1>5
<1>7. \A n \in S : m <= n
  BY <1>6
<1> QED BY <1>7

\* Induction from the last number to the first.
LEMMA DownToOne ==
  ASSUME NEW N \in Nat, NEW S \in SUBSET (1..N), N \in S,
         \A n \in S : n # 1 => n - 1 \in S
  PROVE  1 \in S
<1>1. PICK m \in S : \A n \in S : m <= n
  <2>1. 1 \in Int /\ N \in Int /\ S # {}
    OBVIOUS
  <2> QED BY <2>1, Least
<1>2. m \in Int
  OBVIOUS
<1> QED BY <1>1, <1>2

\* The walk of get_ipaddr ends, at a free address or at the end of the range.
LEMMA NextFreeFound ==
  ASSUME NEW k \in Pool, DhcpAssumption
  PROVE  /\ NextFree(k) \in Pool
         /\ NextFree(k) = End \/ NextFree(k) \notin reverse
<1> DEFINE S == {n \in k..End : n = End \/ n \notin reverse}
<1>1. End \in Nat \ {0} /\ k \in Int /\ k \in 1..End
  BY DEF DhcpAssumption, Pool
<1>2. S \in SUBSET (k..End) /\ End \in S
  BY <1>1
<1>3. PICK m \in S : \A n \in S : m <= n
  <2>1. k \in Int /\ End \in Int /\ S \in SUBSET (k..End) /\ S # {}
    BY <1>1, <1>2
  <2> HIDE DEF S
  <2> QED BY <2>1, Least
<1>4. \A i \in k..m - 1 : i \in reverse
  <2>1. ASSUME NEW i \in k..m - 1, i \notin reverse PROVE FALSE
    BY <1>1, <1>3, <2>1
  <2> QED BY <2>1
<1>5. \E n \in k..End : /\ n = End \/ n \notin reverse
                        /\ \A i \in k..n - 1 : i \in reverse
  BY <1>3, <1>4
<1>6. /\ NextFree(k) \in k..End
      /\ NextFree(k) = End \/ NextFree(k) \notin reverse
  BY <1>5 DEF NextFree
<1> QED BY <1>1, <1>6 DEF Pool

\* get_ipaddr leaves the cursor inside the range.
LEMMA GetIpType ==
  ASSUME NEW c, NEW k \in Pool, DhcpAssumption
  PROVE  GetIp(c, k).cur \in Pool
<1>1. NextFree(k) \in Pool
  BY NextFreeFound
<1>2. End \in Nat \ {0} /\ 1 \in Pool /\ (NextFree(k) # End => NextFree(k) + 1 \in Pool)
  BY <1>1 DEF DhcpAssumption, Pool
<1> QED BY <1>2 DEF GetIp


\* Attempt number n with the cursor at k, the later ones being those of f.
Step(c, f, n, k) ==
  LET r == GetIp(c, k)
  IN IF n = Tries \/ (r.ip # NoIp /\ r.ip \notin used) THEN r ELSE f[n + 1][r.cur]

\* What get_ipaddr can return.
Results(c) == {GetIp(c, k) : k \in Pool}

\* f is the function of the attempts from number m on.
Follows(c, f, m) == \A n \in m..Tries : f[n] = [k \in Pool |-> Step(c, f, n, k)]

\* There is one: from the last attempt, which needs no other, to the first.
LEMMA StepExists ==
  ASSUME NEW c, DhcpAssumption
  PROVE  \E f \in [1..Tries -> [Pool -> Results(c)]] : Follows(c, f, 1)
<1> DEFINE S == {m \in 1..Tries : \E f \in [m..Tries -> [Pool -> Results(c)]] : Follows(c, f, m)}
<1>1. Tries \in Nat \ {0}
  BY DEF DhcpAssumption
<1>2. Tries \in S
  <2> DEFINE f == [n \in Tries..Tries |-> [k \in Pool |-> GetIp(c, k)]]
  <2>1. f \in [Tries..Tries -> [Pool -> Results(c)]]
    BY DEF Results
  <2>2. ASSUME NEW n \in Tries..Tries PROVE f[n] = [k \in Pool |-> Step(c, f, n, k)]
    <3>1. n = Tries
      BY <1>1
    <3>2. \A k \in Pool : Step(c, f, n, k) = GetIp(c, k)
      BY <3>1 DEF Step
    <3> QED BY <3>2
  <2>3. Follows(c, f, Tries)
    BY <2>2 DEF Follows
  <2> QED BY <1>1, <2>1, <2>3
<1>3. ASSUME NEW m \in S, m # 1 PROVE m - 1 \in S
  <2>1. m \in 1..Tries /\ m - 1 \in 1..Tries
    BY <1>1, <1>3
  <2>2. PICK f \in [m..Tries -> [Pool -> Results(c)]] : Follows(c, f, m)
    BY <1>3
  <2> DEFINE g == [n \in (m - 1)..Tries |->
                     IF n = m - 1 THEN [k \in Pool |-> Step(c, f, n, k)] ELSE f[n]]
  <2>3. ASSUME NEW k \in Pool PROVE Step(c, f, m - 1, k) \in Results(c)
    <3>1. GetIp(c, k).cur \in Pool /\ GetIp(c, k) \in Results(c)
      BY GetIpType DEF Results
    <3>2. m - 1 + 1 \in m..Tries
      BY <2>1
    <3>3. f[m - 1 + 1][GetIp(c, k).cur] \in Results(c)
      BY <2>2, <3>1, <3>2
    <3> QED BY <3>1, <3>3 DEF Step
  <2>4. g \in [(m - 1)..Tries -> [Pool -> Results(c)]]
    <3>1. \A n \in (m - 1)..Tries : n = m - 1 \/ n \in m..Tries
      BY <2>1
    <3> QED BY <2>2, <2>3, <3>1
  <2>5. ASSUME NEW n \in (m - 1)..Tries
        PROVE  g[n] = [k \in Pool |-> Step(c, g, n, k)]
    <3>1. n # Tries => n + 1 \in m..Tries /\ n + 1 # m - 1
      BY <1>1, <2>1
    <3>2. n # Tries => g[n + 1] = f[n + 1]
      BY <2>1, <3>1
    <3>3. \A k \in Pool : Step(c, g, n, k) = Step(c, f, n, k)
      BY <3>2 DEF Step
    <3>4. CASE n = m - 1
      BY <3>3, <3>4
    <3>5. CASE n # m - 1
      <4>1. n \in m..Tries
        BY <2>1, <3>5
      <4>2. f[n] = [k \in Pool |-> Step(c, f, n, k)]
        BY <2>2, <4>1 DEF Follows
      <4> QED BY <3>3, <3>5, <4>2
    <3> QED BY <3>4, <3>5
  <2>6. Follows(c, g, m - 1)
    BY <2>5 DEF Follows
  <2> QED BY <2>1, <2>4, <2>6
<1>4. 1 \in S
  <2>1. Tries \in Nat /\ \A m \in S : m \in 1..Tries
    BY <1>1
  <2> HIDE DEF S
  <2>2. S \in SUBSET (1..Tries)
    BY <2>1
  <2> QED BY <1>2, <1>3, <2>1, <2>2, DownToOne
<1> QED BY <1>4

\* So the recursive definition of Attempt is what it says.
LEMMA AttemptFollows ==
  ASSUME NEW c, DhcpAssumption
  PROVE  \E f : Follows(c, f, 1) /\ Attempt(c) = f[1][cur]
<1> DEFINE F(f) == [n \in 1..Tries |-> [k \in Pool |-> Step(c, f, n, k)]]
           g == CHOOSE h : h = F(h)
<1>1. PICK f \in [1..Tries -> [Pool -> Results(c)]] : Follows(c, f, 1)
  BY StepExists
<1>2. f = F(f)
  BY <1>1 DEF Follows
<1>3. g = F(g)
  BY <1>2
<1>4. Attempt(c) = g[1][cur]
  BY DEF Attempt, Step
<1>5. Follows(c, g, 1)
  <2> HIDE DEF g
  <2> QED BY <1>3 DEF Follows
<1> QED BY <1>4, <1>5

\* A DISCOVER is offered what get_ipaddr returns for some cursor.
LEMMA AttemptIsGetIp ==
  ASSUME NEW c, DhcpAssumption, cur \in Pool
  PROVE  \E k \in Pool : Attempt(c) = GetIp(c, k)
<1>1. PICK f : Follows(c, f, 1) /\ Attempt(c) = f[1][cur]
  BY AttemptFollows
<1>2. Tries \in Nat \ {0}
  BY DEF DhcpAssumption
<1> DEFINE S == {n \in 1..Tries : \A k \in Pool : f[n][k] \in Results(c)}
<1>3. Tries \in S
  <2>1. Tries \in 1..Tries
    BY <1>2
  <2>2. \A k \in Pool : f[Tries][k] = Step(c, f, Tries, k)
    BY <1>1, <2>1 DEF Follows
  <2> QED BY <2>1, <2>2 DEF Step, Results
<1>4. ASSUME NEW n \in S, n # 1 PROVE n - 1 \in S
  <2>1. n - 1 \in 1..Tries /\ n - 1 # Tries
    BY <1>2, <1>4
  <2>2. ASSUME NEW k \in Pool PROVE f[n - 1][k] \in Results(c)
    <3>1. GetIp(c, k).cur \in Pool /\ GetIp(c, k) \in Results(c)
      BY GetIpType DEF Results
    <3>2. f[n - 1 + 1][GetIp(c, k).cur] \in Results(c)
      BY <1>2, <3>1
    <3>3. f[n - 1][k] = Step(c, f, n - 1, k)
      BY <1>1, <2>1 DEF Follows
    <3> QED BY <3>1, <3>2, <3>3 DEF Step
  <2> QED BY <2>1, <2>2
<1>5. 1 \in S
  <2>1. Tries \in Nat /\ \A m \in S : m \in 1..Tries
    BY <1>2
  <2> HIDE DEF S
  <2>2. S \in SUBSET (1..Tries)
    BY <2>1
  <2> QED BY <1>3, <1>4, <2>1, <2>2, DownToOne
<1> QED BY <1>1, <1>5 DEF Results

(***************************************************************************)
(* The inductive invariant.                                                *)
(***************************************************************************)
\* No address twice; of the cache, which becomes the binds after a crash.
Injective(b) == \A c, d \in Clients : b[c] # NoIp /\ b[c] = b[d] => c = d

\* The addresses a client can ever have: no static rule of another, so that
\* forcing the rules over old binds (load_static_dhcp_rule) makes no conflict.
Own(c) == Pool \cup {NoIp} \cup (IF c \in DOMAIN Static THEN {Static[c]} ELSE {})

OwnOnly ==
  \A c \in Clients : bind[c] \in Own(c) /\ cache[c] \in Own(c) /\ records[c].ip \in Own(c)

DhcpInv ==
  /\ TypeOK /\ BoundOnce /\ ReverseHasBound /\ RecordIsBind
  /\ Injective(cache) /\ OwnOnly

LEMMA OwnType == \A c \in Clients : Own(c) \subseteq Ips \cup {NoIp}
BY DEF Own, Ips

LEMMA StaticApart ==
  ASSUME NEW b \in Clients, NEW c \in DOMAIN Static, b # c
  PROVE  Static[c] \notin Own(b)
BY DhcpAssumption, StaticAssumption DEF Own, Ips

\* What get_ipaddr returns: the client's own bind if it has one, and never
\* the bind of another.
LEMMA GetIpOwn ==
  ASSUME DhcpInv, NEW c \in Clients, NEW k \in Pool
  PROVE  /\ GetIp(c, k).ip \in Own(c)
         /\ bind[c] # NoIp => GetIp(c, k).ip = bind[c]
         /\ \A b \in Clients : GetIp(c, k).ip # NoIp /\ bind[b] = GetIp(c, k).ip => b = c
<1>1. /\ NextFree(k) \in Pool
      /\ NextFree(k) = End \/ NextFree(k) \notin reverse
  BY NextFreeFound, DhcpAssumption
<1>2. NextFree(k) # End => \A b \in Clients : bind[b] # NextFree(k)
  BY <1>1, DhcpAssumption DEF DhcpInv, ReverseHasBound, Ips
<1>3. bind[c] \in Own(c)
  BY DEF DhcpInv, OwnOnly
<1> QED BY <1>1, <1>2, <1>3 DEF GetIp, Own, DhcpInv, BoundOnce

LEMMA AttemptOwn ==
  ASSUME DhcpInv, NEW c \in Clients
  PROVE  /\ Attempt(c).ip \in Own(c)
         /\ Attempt(c).cur \in Pool
         /\ bind[c] # NoIp => Attempt(c).ip = bind[c]
         /\ \A b \in Clients : Attempt(c).ip # NoIp /\ bind[b] = Attempt(c).ip => b = c
<1>1. cur \in Pool
  BY DEF DhcpInv, TypeOK
<1>2. PICK k \in Pool : Attempt(c) = GetIp(c, k)
  BY <1>1, DhcpAssumption, AttemptIsGetIp
<1> QED BY <1>2, GetIpOwn, GetIpType, DhcpAssumption

LEMMA DhcpInit == Init => DhcpInv
<1> SUFFICES ASSUME Init PROVE DhcpInv
  OBVIOUS
<1> USE DhcpAssumption, StaticAssumption DEF Init
<1>1. 1 \in Pool /\ 0 \in 0..AgeCap
  BY DEF Pool, AgeCap
<1>2. TypeOK
  BY <1>1 DEF TypeOK, NoRecord, Ips
<1>3. BoundOnce /\ ReverseHasBound
  BY DEF BoundOnce, ReverseHasBound
<1>4. RecordIsBind
  BY DEF RecordIsBind, Dynamic, Known, NoRecord
<1>5. Injective(cache)
  BY DEF Injective
<1>6. OwnOnly
  BY DEF OwnOnly, Own, NoRecord
<1> QED BY <1>2, <1>3, <1>4, <1>5, <1>6 DEF DhcpInv

LEMMA DiscoverStep ==
  ASSUME DhcpInv, NEW c \in Clients, Discover(c)
  PROVE  DhcpInv'
<1> DEFINE r == Attempt(c)
<1>1. /\ r.ip \in Own(c) /\ r.cur \in Pool
      /\ bind[c] # NoIp => r.ip = bind[c]
  BY AttemptOwn
<1>2. r.ip \in Ips \cup {NoIp}
  BY <1>1, OwnType
<1>3. /\ cur' = r.cur
      /\ UNCHANGED <<bind, reverse, cache>>
      /\ used' = used \/ (r.ip # NoIp /\ used' = used \cup {r.ip})
      /\ \/ records' = records
         \/ /\ ~Known(c)
            /\ records' = [records EXCEPT ![c] = [ip |-> r.ip, ok |-> FALSE, age |-> 0]]
  BY DEF Discover
<1> HIDE DEF r
<1>4. 0 \in 0..AgeCap
  BY DhcpAssumption DEF AgeCap
<1>5. TypeOK'
  <2>1. [ip |-> r.ip, ok |-> FALSE, age |-> 0] \in [ip : Ips \cup {NoIp}, ok : BOOLEAN, age : 0..AgeCap]
    BY <1>2, <1>4
  <2>2. records' \in [Clients -> [ip : Ips \cup {NoIp}, ok : BOOLEAN, age : 0..AgeCap]]
    BY <1>3, <2>1 DEF DhcpInv, TypeOK
  <2>3. used' \subseteq Ips
    BY <1>2, <1>3 DEF DhcpInv, TypeOK
  <2> QED BY <1>1, <1>3, <2>2, <2>3 DEF DhcpInv, TypeOK
<1>6. \A b \in Clients : /\ b # c => records'[b] = records[b]
                         /\ records'[c] = records[c] \/ records'[c].ip = r.ip
  BY <1>3 DEF DhcpInv, TypeOK
<1>7. RecordIsBind' /\ OwnOnly'
  BY <1>1, <1>3, <1>6 DEF DhcpInv, RecordIsBind, Dynamic, Known, OwnOnly
<1>8. BoundOnce' /\ ReverseHasBound' /\ Injective(cache)'
  BY <1>3 DEF DhcpInv, BoundOnce, ReverseHasBound, Injective
<1> QED BY <1>5, <1>7, <1>8 DEF DhcpInv

LEMMA RequestStep ==
  ASSUME DhcpInv, NEW c \in Clients, NEW inSubnet \in BOOLEAN, Request(c, inSubnet)
  PROVE  DhcpInv'
<1> DEFINE a == records[c].ip
<1>1. /\ a # NoIp /\ a \in Ips /\ a \in Own(c)
      /\ records' = [records EXCEPT ![c].ok = inSubnet, ![c].age = 0]
      /\ UNCHANGED <<cur, used, cache>>
  BY DEF Request, Known, DhcpInv, TypeOK, OwnOnly
<1>2. 0 \in 0..AgeCap
  BY DhcpAssumption DEF AgeCap
<1>3. \A b \in Clients : records'[b].ip = records[b].ip
  BY <1>1 DEF DhcpInv, TypeOK
<1>4. records' \in [Clients -> [ip : Ips \cup {NoIp}, ok : BOOLEAN, age : 0..AgeCap]]
  <2> DEFINE R == [ip : Ips \cup {NoIp}, ok : BOOLEAN, age : 0..AgeCap]
             r == [records[c] EXCEPT !.ok = inSubnet, !.age = 0]
  <2>1. records \in [Clients -> R] /\ records' = [records EXCEPT ![c] = r]
    BY <1>1 DEF DhcpInv, TypeOK
  <2>2. r \in R
    BY <1>2, <2>1
  <2> HIDE DEF R, r
  <2>3. records' \in [Clients -> R]
    BY <2>1, <2>2
  <2> QED BY <2>3 DEF R
<1>5. CASE UNCHANGED <<bind, reverse>>
  BY <1>1, <1>3, <1>4, <1>5
     DEF DhcpInv, TypeOK, BoundOnce, ReverseHasBound, RecordIsBind, Dynamic, Known, Injective, OwnOnly
<1>6. CASE /\ ~Taken(a)
           /\ bind' = [bind EXCEPT ![c] = a]
           /\ reverse' = reverse \cup {a}
  <2>1. TypeOK'
    BY <1>1, <1>4, <1>6 DEF DhcpInv, TypeOK
  <2>2. \A b \in Clients : bind'[b] = IF b = c THEN a ELSE bind[b]
    BY <1>6 DEF DhcpInv, TypeOK
  <2>3. \A b \in Clients : bind[b] # a
    BY <1>6 DEF Taken
  <2>4. BoundOnce' /\ ReverseHasBound'
    BY <1>6, <2>2, <2>3 DEF DhcpInv, BoundOnce, ReverseHasBound
  <2>5. RecordIsBind' /\ OwnOnly' /\ Injective(cache)'
    BY <1>1, <1>3, <2>2 DEF DhcpInv, RecordIsBind, Dynamic, Known, OwnOnly, Injective
  <2> QED BY <2>1, <2>4, <2>5 DEF DhcpInv
<1> QED BY <1>5, <1>6 DEF Request, BindIp

\* What the deletions of decline, release and loop do to the invariant:
\* records go for all of S, binds for those of T.
LEMMA ForgetStep ==
  ASSUME DhcpInv, NEW S \in SUBSET Clients, NEW T \in SUBSET Clients,
         Forget(S), Unbind(T), UNCHANGED <<cur, cache>>
  PROVE  DhcpInv'
<1>1. \A c \in Clients : /\ bind'[c] = IF c \in T THEN NoIp ELSE bind[c]
                         /\ records'[c] = IF c \in S THEN NoRecord ELSE records[c]
  BY DEF Unbind, Forget
<1>2. TypeOK'
  <2>1. NoRecord \in [ip : Ips \cup {NoIp}, ok : BOOLEAN, age : 0..AgeCap]
    BY DhcpAssumption DEF NoRecord, AgeCap
  <2> QED BY <2>1 DEF Unbind, Forget, DhcpInv, TypeOK
<1>3. BoundOnce' /\ ReverseHasBound'
  BY <1>1 DEF Unbind, DhcpInv, BoundOnce, ReverseHasBound
<1>4. RecordIsBind' /\ OwnOnly' /\ Injective(cache)'
  BY <1>1 DEF DhcpInv, RecordIsBind, Dynamic, Known, NoRecord, OwnOnly, Own, Injective
<1> QED BY <1>2, <1>3, <1>4 DEF DhcpInv

\* The service starts with old binds.
LEMMA StartedStep ==
  ASSUME DhcpInv, NEW old \in [Clients -> Ips \cup {NoIp}], Injective(old),
         \A c \in Clients : old[c] \in Own(c),
         Started(old), cache' = old
  PROVE  DhcpInv'
<1>1. \A c \in Clients :
        /\ bind'[c] = IF c \in DOMAIN Static THEN Static[c] ELSE old[c]
        /\ records'[c] = [ip |-> old[c], ok |-> FALSE, age |-> 0]
  BY DEF Started
<1>2. TypeOK'
  <2>1. 0 \in 0..AgeCap /\ 1 \in Pool
    BY DhcpAssumption DEF AgeCap, Pool
  <2>2. /\ bind' \in [Clients -> Ips \cup {NoIp}] /\ reverse' \subseteq Ips
        /\ cur' = 1 /\ used' = {}
        /\ records' \in [Clients -> [ip : Ips \cup {NoIp}, ok : BOOLEAN, age : 0..AgeCap]]
    BY <2>1 DEF Started, Ips
  <2> QED BY <2>1, <2>2 DEF TypeOK
<1>3. BoundOnce'
  <2>1. \A b \in Clients, c \in DOMAIN Static : old[b] = Static[c] => b = c
    BY StaticApart
  <2> QED BY <1>1, <2>1, StaticAssumption DEF BoundOnce, Injective
<1>4. ReverseHasBound' /\ RecordIsBind'
  BY <1>1 DEF Started, ReverseHasBound, RecordIsBind, Dynamic, Known
<1>5. OwnOnly'
  <2>1. \A c \in DOMAIN Static : Static[c] \in Own(c)
    BY DEF Own
  <2>2. ASSUME NEW c \in Clients
        PROVE  bind'[c] \in Own(c) /\ cache'[c] \in Own(c) /\ records'[c].ip \in Own(c)
    <3>1. cache'[c] \in Own(c) /\ old[c] \in Own(c)
      OBVIOUS
    <3>2. records'[c].ip = old[c]
      <4>1. records'[c] = [ip |-> old[c], ok |-> FALSE, age |-> 0]
        BY <1>1
      <4> QED BY <4>1
    <3>3. bind'[c] \in Own(c)
      BY <1>1, <2>1
    <3> QED BY <3>1, <3>2, <3>3
  <2> QED BY <2>2 DEF OwnOnly
<1>6. Injective(cache)'
  BY DEF Injective
<1> QED BY <1>2, <1>3, <1>4, <1>5, <1>6 DEF DhcpInv

LEMMA TickStep ==
  ASSUME DhcpInv, Tick
  PROVE  DhcpInv'
<1>1. \A c \in Clients : records'[c].ip = records[c].ip
  BY DEF Tick, DhcpInv, TypeOK
<1>2. ASSUME NEW c \in Clients, Known(c) PROVE records[c].age + 1 \in 0..AgeCap
  BY <1>2, DhcpAssumption DEF Tick, Unanswered, Expired, DhcpInv, TypeOK, AgeCap
<1>3. TypeOK'
  BY <1>2 DEF Tick, allocVars, DhcpInv, TypeOK
<1> QED BY <1>1, <1>3
        DEF Tick, allocVars, DhcpInv, BoundOnce, ReverseHasBound, RecordIsBind, Dynamic, Known, OwnOnly,
            Injective

LEMMA DhcpStep == DhcpInv /\ [Next]_vars => DhcpInv'
<1> SUFFICES ASSUME DhcpInv, [Next]_vars PROVE DhcpInv'
  OBVIOUS
<1>1. CASE \E c \in Clients : Discover(c)
  BY <1>1, DiscoverStep
<1>2. CASE \E c \in Clients, inSubnet \in BOOLEAN : Request(c, inSubnet)
  BY <1>2, RequestStep
<1>3. CASE \E c \in Clients : Decline(c)
  <2>1. PICK c \in Clients : Decline(c)
    BY <1>3
  <2> QED BY <2>1, ForgetStep DEF Decline
<1>4. CASE \E c \in Clients : Release(c)
  <2>1. PICK c \in Clients : Release(c)
    BY <1>4
  <2>2. UNCHANGED <<bind, reverse>> => Unbind({})
    BY DEF Unbind, DhcpInv, TypeOK
  <2> QED BY <2>1, <2>2, ForgetStep DEF Release
<1>5. CASE Loop
  BY <1>5, ForgetStep DEF Loop
<1>6. CASE Tick
  BY <1>6, TickStep
<1>7. CASE Restart
  BY <1>7, StartedStep DEF Restart, DhcpInv, TypeOK, BoundOnce, Injective, OwnOnly
<1>8. CASE Crash
  BY <1>8, StartedStep DEF Crash, DhcpInv, TypeOK, Injective, OwnOnly
<1>9. CASE UNCHANGED vars
  BY <1>9 DEF vars, allocVars, DhcpInv, TypeOK, BoundOnce, ReverseHasBound, RecordIsBind, Dynamic, Known,
              Injective, OwnOnly
<1> QED BY <1>1, <1>2, <1>3, <1>4, <1>5, <1>6, <1>7, <1>8, <1>9 DEF Next, Message

(***************************************************************************)
(* The theorems: for any number of clients and addresses, whatever the     *)
(* messages and the moments at which the service stops, crashes or starts. *)
(***************************************************************************)
\* Together: what dhcp_server.py and ipalloc.py keep in five tables agrees.
THEOREM DhcpInvAlways == Spec => []DhcpInv
<1> QED BY DhcpInit, DhcpStep, PTL DEF Spec

\* Every table of dhcp_server.py and ipalloc.py stays within its type: the
\* cursor within the range through every wrap-around (get_ipaddr), the ages
\* within the time in which loop gives a record up.
THEOREM DhcpTypeCorrect == Spec => []TypeOK
<1>1. DhcpInv => TypeOK
  BY DEF DhcpInv
<1> QED BY <1>1, DhcpInvAlways, PTL

\* bind_ipaddr never gives an address to two clients, not even when the
\* static rules are forced over the binds of the cache file.
THEOREM DhcpBoundOnce == Spec => []BoundOnce
<1>1. DhcpInv => BoundOnce
  BY DEF DhcpInv
<1> QED BY <1>1, DhcpInvAlways, PTL

\* unbind_ipaddr finds every address that it deletes in __bind_reverse.
THEOREM DhcpReverseHasBound == Spec => []ReverseHasBound
<1>1. DhcpInv => ReverseHasBound
  BY DEF DhcpInv
<1> QED BY <1>1, DhcpInvAlways, PTL

\* __tmp_alloc_addrs and the allocator name the same address for a client.
THEOREM DhcpRecordIsBind == Spec => []RecordIsBind
<1>1. DhcpInv => RecordIsBind
  BY DEF DhcpInv
<1> QED BY <1>1, DhcpInvAlways, PTL

\* handle_dhcp_discover_req never offers the address of another client, for
\* any number of attempts.
THEOREM DhcpOffersFree == Spec => []OffersFree
<1>1. DhcpInv => OffersFree
  BY AttemptOwn DEF OffersFree
<1> QED BY <1>1, DhcpInvAlways, PTL

\* No step of another client, and no repeated message, takes a client's
\* address away.
THEOREM DhcpLeaseKept == Spec => LeaseKept
<1> DEFINE Kept == \A c \in Dynamic : bind[c] # NoIp /\ bind'[c] # bind[c] =>
                     \/ Decline(c) \/ Release(c)
                     \/ Loop /\ records[c].ok /\ records[c].age >= Lease
                     \/ Restart \/ Crash
<1>1. DhcpInv /\ [Next]_vars => [Kept]_vars
  <2> SUFFICES ASSUME DhcpInv, Next, NEW c \in Dynamic, bind[c] # NoIp, bind'[c] # bind[c]
               PROVE  \/ Decline(c) \/ Release(c)
                      \/ Loop /\ records[c].ok /\ records[c].age >= Lease
                      \/ Restart \/ Crash
    OBVIOUS
  <2>1. c \in Clients
    BY DEF Dynamic
  <2>2. ASSUME NEW b \in Clients PROVE ~Discover(b)
    BY DEF Discover
  <2>3. ASSUME NEW b \in Clients, NEW inSubnet \in BOOLEAN PROVE ~Request(b, inSubnet)
    <3> SUFFICES ASSUME Request(b, inSubnet) PROVE FALSE
      OBVIOUS
    <3>1. ~Taken(records[b].ip) /\ bind' = [bind EXCEPT ![b] = records[b].ip] /\ Known(b)
      BY DEF Request, BindIp
    <3>2. b = c
      BY <2>1, <3>1 DEF DhcpInv, TypeOK
    <3>3. records[c].ip = bind[c]
      BY <3>1, <3>2 DEF DhcpInv, RecordIsBind
    <3> QED BY <2>1, <3>1, <3>2, <3>3 DEF Taken
  <2>4. ASSUME NEW S \in SUBSET Clients, Unbind(S) PROVE c \in S
    BY <2>1, <2>4 DEF Unbind
  <2>5. ASSUME NEW b \in Clients, Decline(b) PROVE Decline(c)
    BY <2>4, <2>5 DEF Decline
  <2>6. ASSUME NEW b \in Clients, Release(b) PROVE Release(c)
    BY <2>4, <2>6 DEF Release
  <2>7. ASSUME Loop PROVE records[c].ok /\ records[c].age >= Lease
    BY <2>4, <2>7 DEF Loop, Expired
  <2>8. ~Tick
    BY DEF Tick, allocVars
  <2> QED BY <2>2, <2>3, <2>5, <2>6, <2>7, <2>8 DEF Next, Message
<1> QED BY <1>1, DhcpInvAlways, PTL DEF Spec, LeaseKept
=============================================================================
