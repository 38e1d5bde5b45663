-------------------------- MODULE RouteCacheProofs --------------------------
(***************************************************************************)
(* Proofs about the routing table and its cache for any addresses, subnets *)
(* routes, entries and nodes, any ring and any timeout.  The structure of  *)
(* table and cache is right however long the loop is held up (RouteSound); *)
(* that every entry has a timer to come, and so goes in time, needs turns  *)
(* of the loop that are less than one turn of the ring apart (NoStall).    *)
(***************************************************************************)
EXTENDS RouteCache, TimeWheelProofs, FiniteSetTheorems, WellFoundedInduction

(***************************************************************************)
(* The inductive invariant: the wheel's own; that cache, routes and counts *)
(* are one structure and no timer is that of a freed entry; and two things *)
(* the code relies on without a trace in the runs: no two subnets share a  *)
(* route object, and the listed lengths are exactly the lengths in use.    *)
(***************************************************************************)
RoutesApart ==
  /\ \A k, l \in Keys : table[k] # NoRoute /\ table[k] = table[l] => k = l
  /\ \A r \in Routes \ routes : ~invalid[r]
  /\ IsFiniteSet(live)

Routed(p) == {k \in Keys : table[k] # NoRoute /\ k.prefix = p}

ListOK ==
  /\ \A p \in Prefixes : IsFiniteSet(Routed(p)) /\ uses[p] = Cardinality(Routed(p))
  /\ \A i, j \in 1 .. Len(prefixes) : i < j => prefixes[i] > prefixes[j]
  /\ \A p \in Prefixes : uses[p] > 0 <=> \E i \in 1 .. Len(prefixes) : prefixes[i] = p

\* A callback to come is that of an allocated entry, and this entry's timer.
PendingOwned == \A n \in Pending : data[n] \in live /\ tdata[data[n]] = n

RouteSound ==
  TypeOK /\ WheelSound /\ CacheLinked /\ PendingOwned /\ RoutesApart /\ ListOK

\* ... and, without stalls, every entry has a callback to come.
EntriesTimed == \A c \in live : tdata[c] \in Pending /\ data[tdata[c]] = c

RouteInv == RouteSound /\ WheelInv /\ EntriesTimed

(***************************************************************************)
(* Numbers and sequences.                                                  *)
(***************************************************************************)
\* A set of numbers has a least one: the initial segments below its members
\* are ordered by inclusion, which is well-founded.
LEMMA LeastNat ==
  ASSUME NEW T \in SUBSET Nat, T # {} PROVE \E x \in T : \A y \in T : x <= y
  <1> DEFINE F == {0 .. x : x \in T}
  <1>1. F \subseteq FiniteSubsetsOf(Nat) /\ F # {}
    <2> SUFFICES ASSUME NEW x \in T PROVE 0 .. x \in FiniteSubsetsOf(Nat)
      OBVIOUS
    <2>1. IsFiniteSet(0 .. x)
      BY FS_Interval
    <2> QED BY <2>1 DEF FiniteSubsetsOf
  <1>2. PICK f \in F : \A g \in F : ~ (<<g, f>> \in StrictSubsetOrdering(Nat))
    BY <1>1, FS_StrictSubsetOrderingWellFounded, WFMin
  <1>3. PICK x \in T : f = 0 .. x
    BY <1>2
  <1> SUFFICES ASSUME NEW y \in T, y < x PROVE FALSE
    BY <1>3
  <1>4. <<0 .. y, 0 .. x>> \notin StrictSubsetOrdering(Nat)
    BY <1>2, <1>3
  <1>5. 0 .. y \subseteq 0 .. x /\ x \in 0 .. x /\ x \notin 0 .. y
    OBVIOUS
  <1> HIDE DEF F
  <1> QED BY <1>4, <1>5 DEF StrictSubsetOrdering

LEMMA Concat ==
  ASSUME NEW S, NEW u \in Seq(S), NEW v \in Seq(S)
  PROVE  /\ u \o v \in Seq(S) /\ Len(u \o v) = Len(u) + Len(v)
         /\ \A i \in 1 .. Len(u) : (u \o v)[i] = u[i]
         /\ \A i \in Len(u) + 1 .. Len(u) + Len(v) : (u \o v)[i] = v[i - Len(u)]
  OBVIOUS
LEMMA Sub ==
  ASSUME NEW S, NEW s \in Seq(S), NEW m \in 1 .. Len(s) + 1, NEW n \in m - 1 .. Len(s)
  PROVE  /\ SubSeq(s, m, n) \in Seq(S) /\ Len(SubSeq(s, m, n)) = n - m + 1
         /\ \A i \in 1 .. n - m + 1 : SubSeq(s, m, n)[i] = s[m + i - 1]
  <1>1. /\ m \in Nat /\ n \in Int /\ n - m + 1 \in Nat
        /\ \A i \in m .. n : i \in 1 .. Len(s)
    OBVIOUS
  <1>2. \A i \in m .. n : s[i] \in S
    BY <1>1
  <1>3. SubSeq(s, m, n) \in Seq(S)
    BY <1>1, <1>2
  <1>4. Len(SubSeq(s, m, n)) = n - m + 1
    BY <1>1
  <1>5. \A i \in 1 .. n - m + 1 : SubSeq(s, m, n)[i] = s[m + i - 1]
    BY <1>1
  <1> QED BY <1>3, <1>4, <1>5

Inserted(s, b, p) == SubSeq(s, 1, b) \o <<p>> \o SubSeq(s, b + 1, Len(s))

IsInsertion(t, S, s, b, p) ==
  /\ t \in Seq(S) /\ Len(t) = Len(s) + 1
  /\ \A i \in 1 .. b : t[i] = s[i]
  /\ t[b + 1] = p
  /\ \A i \in b + 1 .. Len(s) : t[i + 1] = s[i]

LEMMA InsertAt ==
  ASSUME NEW S, NEW s \in Seq(S), NEW b \in 0 .. Len(s), NEW p \in S
  PROVE  IsInsertion(Inserted(s, b, p), S, s, b, p)
  <1> DEFINE n == Len(s)
             t == Inserted(s, b, p)
             u == SubSeq(s, 1, b)
             v == SubSeq(s, b + 1, Len(s))
             w == u \o <<p>>
  <1>1. u \in Seq(S) /\ Len(u) = b /\ \A i \in 1 .. b : u[i] = s[i]
    <2>1. 1 \in 1 .. Len(s) + 1 /\ b \in 1 - 1 .. Len(s)
      OBVIOUS
    <2>2. /\ u \in Seq(S) /\ Len(u) = b - 1 + 1
          /\ \A i \in 1 .. b - 1 + 1 : u[i] = s[1 + i - 1]
      BY <2>1, Sub
    <2> HIDE DEF u
    <2> QED BY <2>2
  <1>2. v \in Seq(S) /\ Len(v) = n - b /\ \A i \in 1 .. n - b : v[i] = s[b + i]
    <2>1. b + 1 \in 1 .. Len(s) + 1 /\ n \in (b + 1) - 1 .. Len(s)
      OBVIOUS
    <2>2. /\ v \in Seq(S) /\ Len(v) = n - (b + 1) + 1
          /\ \A i \in 1 .. n - (b + 1) + 1 : v[i] = s[(b + 1) + i - 1]
      BY <2>1, Sub
    <2>3. n \in Nat /\ b \in Nat
      OBVIOUS
    <2> HIDE DEF v, n
    <2>4. n - (b + 1) + 1 = n - b /\ \A i \in 1 .. n - b : (b + 1) + i - 1 = b + i
      BY <2>3
    <2> QED BY <2>2, <2>4
  <1> HIDE DEF u, v
  <1>3. w \in Seq(S) /\ Len(w) = b + 1 /\ w[b + 1] = p /\ \A i \in 1 .. b : w[i] = u[i]
    BY <1>1
  <1> HIDE DEF w
  <1>4. t = w \o v
    BY DEF u, v, w, Inserted
  <1>5. /\ t \in Seq(S) /\ Len(t) = (b + 1) + (n - b)
        /\ \A i \in 1 .. b + 1 : t[i] = w[i]
        /\ \A i \in (b + 1) + 1 .. (b + 1) + (n - b) : t[i] = v[i - (b + 1)]
    <2>1. /\ w \o v \in Seq(S) /\ Len(w \o v) = Len(w) + Len(v)
          /\ \A i \in 1 .. Len(w) : (w \o v)[i] = w[i]
          /\ \A i \in Len(w) + 1 .. Len(w) + Len(v) : (w \o v)[i] = v[i - Len(w)]
      <3>1. w \in Seq(S) /\ v \in Seq(S)
        BY <1>2, <1>3
      <3> QED BY ONLY <3>1, Concat
    <2>2. Len(w) = b + 1 /\ Len(v) = n - b
      BY <1>2, <1>3
    <2> QED BY <1>4, <2>1, <2>2
  <1>6. ASSUME NEW i \in b + 1 .. n PROVE t[i + 1] = s[i]
    <2>1. i - b \in 1 .. n - b /\ (i + 1) - (b + 1) = i - b /\ b + (i - b) = i
          /\ i + 1 \in (b + 1) + 1 .. (b + 1) + (n - b)
      OBVIOUS
    <2>2. t[i + 1] = v[i - b] /\ v[i - b] = s[i]
      BY <1>2, <1>5, <2>1
    <2> QED BY <2>2
  <1>7. (b + 1) + (n - b) = n + 1 /\ b + 1 \in 1 .. b + 1 /\ \A i \in 1 .. b : i \in 1 .. b + 1
    OBVIOUS
  <1> QED BY <1>1, <1>3, <1>5, <1>6, <1>7 DEF IsInsertion

Removed(s, b) == SubSeq(s, 1, b - 1) \o SubSeq(s, b + 1, Len(s))

LEMMA RemoveAtIndex ==
  ASSUME NEW S, NEW s \in Seq(S), NEW b \in 1 .. Len(s)
  PROVE  /\ Removed(s, b) \in Seq(S) /\ Len(Removed(s, b)) = Len(s) - 1
         /\ \A i \in 1 .. b - 1 : Removed(s, b)[i] = s[i]
         /\ \A i \in b + 1 .. Len(s) : Removed(s, b)[i - 1] = s[i]
  <1> DEFINE n == Len(s)
             t == Removed(s, b)
             u == SubSeq(s, 1, b - 1)
             v == SubSeq(s, b + 1, Len(s))
  <1>1. u \in Seq(S) /\ Len(u) = b - 1 /\ \A i \in 1 .. b - 1 : u[i] = s[i]
    <2>1. 1 \in 1 .. Len(s) + 1 /\ b - 1 \in 1 - 1 .. Len(s)
      OBVIOUS
    <2>2. /\ u \in Seq(S) /\ Len(u) = (b - 1) - 1 + 1
          /\ \A i \in 1 .. (b - 1) - 1 + 1 : u[i] = s[1 + i - 1]
      BY <2>1, Sub
    <2> HIDE DEF u
    <2> QED BY <2>2
  <1>2. v \in Seq(S) /\ Len(v) = n - b /\ \A i \in 1 .. n - b : v[i] = s[b + i]
    <2>1. b + 1 \in 1 .. Len(s) + 1 /\ n \in (b + 1) - 1 .. Len(s)
      OBVIOUS
    <2>2. /\ v \in Seq(S) /\ Len(v) = n - (b + 1) + 1
          /\ \A i \in 1 .. n - (b + 1) + 1 : v[i] = s[(b + 1) + i - 1]
      BY <2>1, Sub
    <2> HIDE DEF v
    <2> QED BY <2>2
  <1> HIDE DEF u, v
  <1>4. t = u \o v
    BY DEF u, v, Removed
  <1>5. /\ t \in Seq(S) /\ Len(t) = (b - 1) + (n - b)
        /\ \A i \in 1 .. b - 1 : t[i] = u[i]
        /\ \A i \in (b - 1) + 1 .. (b - 1) + (n - b) : t[i] = v[i - (b - 1)]
    <2>1. /\ u \o v \in Seq(S) /\ Len(u \o v) = Len(u) + Len(v)
          /\ \A i \in 1 .. Len(u) : (u \o v)[i] = u[i]
          /\ \A i \in Len(u) + 1 .. Len(u) + Len(v) : (u \o v)[i] = v[i - Len(u)]
      <3>1. u \in Seq(S) /\ v \in Seq(S)
        BY <1>1, <1>2
      <3> QED BY ONLY <3>1, Concat
    <2>2. Len(u) = b - 1 /\ Len(v) = n - b
      BY <1>1, <1>2
    <2> QED BY <1>4, <2>1, <2>2
  <1>6. ASSUME NEW i \in b + 1 .. n PROVE t[i - 1] = s[i]
    <2>1. i - b \in 1 .. n - b /\ (i - 1) - (b - 1) = i - b /\ b + (i - b) = i
          /\ i - 1 \in (b - 1) + 1 .. (b - 1) + (n - b)
      OBVIOUS
    <2>2. t[i - 1] = v[i - b] /\ v[i - b] = s[i]
      BY <1>2, <1>5, <2>1
    <2> QED BY <2>2
  <1>7. (b - 1) + (n - b) = n - 1
    OBVIOUS
  <1> QED BY <1>1, <1>5, <1>6, <1>7

(***************************************************************************)
(* The list of prefix lengths.                                             *)
(***************************************************************************)
\* The list is split at Before(p): larger lengths in front, smaller behind.
LEMMA BeforeSplits ==
  ASSUME TypeOK, ListOK, NEW p \in Prefixes, uses[p] = 0
  PROVE  /\ Before(p) \in 0 .. Len(prefixes)
         /\ \A i \in 1 .. Len(prefixes) : i <= Before(p) => prefixes[i] > p
         /\ \A i \in 1 .. Len(prefixes) : i > Before(p) => prefixes[i] < p
  <1>1. /\ prefixes \in Seq(Prefixes) /\ Prefixes \subseteq Nat /\ p \in Nat
        /\ DOMAIN prefixes = 1 .. Len(prefixes) /\ Len(prefixes) \in Nat
        /\ \A i \in 1 .. Len(prefixes) : prefixes[i] \in Nat
    <2>1. Prefixes \subseteq Nat
      BY WidthAssumption DEF Prefixes
    <2>2. prefixes \in Seq(Prefixes)
      BY DEF TypeOK
    <2>3. /\ DOMAIN prefixes = 1 .. Len(prefixes) /\ Len(prefixes) \in Nat
          /\ \A i \in 1 .. Len(prefixes) : prefixes[i] \in Prefixes
      BY <2>2
    <2> QED BY <2>1, <2>2, <2>3
  <1>2. \A i \in 1 .. Len(prefixes) : prefixes[i] # p
    BY DEF ListOK
  <1>3. CASE prefixes = <<>>
    BY <1>3 DEF Before
  <1>4. CASE prefixes # <<>> /\ p > Head(prefixes)
    <2>1. Before(p) = 0 /\ Head(prefixes) = prefixes[1] /\ 1 \in 1 .. Len(prefixes)
      BY <1>1, <1>4 DEF Before
    <2>2. \A i \in 1 .. Len(prefixes) : prefixes[i] < p
      <3> SUFFICES ASSUME NEW i \in 1 .. Len(prefixes) PROVE prefixes[i] < p
        OBVIOUS
      <3>1. i = 1 \/ prefixes[1] > prefixes[i]
        BY <1>1, <2>1 DEF ListOK
      <3> QED BY <1>1, <1>4, <2>1, <3>1
    <2> QED BY <1>1, <2>1, <2>2
  <1>5. CASE prefixes # <<>> /\ ~(p > Head(prefixes))
    <2> DEFINE Last(i) == p < prefixes[i] /\ \A j \in DOMAIN prefixes : j > i => p >= prefixes[j]
               T == {i \in 1 .. Len(prefixes) : \A j \in DOMAIN prefixes : j > i => p >= prefixes[j]}
    <2>1. Head(prefixes) = prefixes[1] /\ 1 \in 1 .. Len(prefixes) /\ p < prefixes[1]
      BY <1>1, <1>2, <1>5
    <2>2. Len(prefixes) \in T
      BY <1>1, <2>1
    <2>3. PICK i \in T : \A y \in T : i <= y
      <3>1. T \in SUBSET Nat /\ T # {}
        BY <1>1, <2>2
      <3> HIDE DEF T
      <3> QED BY <3>1, LeastNat
    <2>0. i \in 1 .. Len(prefixes)
      BY <2>3
    <2>4. p < prefixes[i]
      <3>1. CASE i = 1
        BY <2>1, <3>1
      <3>2. CASE i # 1
        <4>1. i - 1 \in 1 .. Len(prefixes)
          BY <1>1, <3>2
        <4>2. i - 1 \notin T
          <5> HIDE DEF T
          <5> QED BY <1>1, <2>0, <2>3, <4>1
        <4>3. PICK j \in DOMAIN prefixes : j > i - 1 /\ ~(p >= prefixes[j])
          BY <4>1, <4>2
        <4>4. j = i
          BY <1>1, <2>3, <4>3
        <4> QED BY <1>1, <4>3, <4>4
      <3> QED BY <3>1, <3>2
    <2>5. i \in DOMAIN prefixes /\ Last(i)
      BY <1>1, <2>3, <2>4
    <2>6. Before(p) = CHOOSE x \in DOMAIN prefixes : Last(x)
      BY <1>5 DEF Before
    <2> HIDE DEF T
    <2>7. Before(p) \in DOMAIN prefixes /\ Last(Before(p))
      BY <2>5, <2>6
    <2>8. PICK b \in 1 .. Len(prefixes) : b = Before(p)
      BY <1>1, <2>7
    <2>9. ASSUME NEW x \in 1 .. Len(prefixes), x <= b PROVE prefixes[x] > p
      <3>1. x = b \/ prefixes[x] > prefixes[b]
        BY <1>1, <2>9 DEF ListOK
      <3> QED BY <1>1, <2>7, <2>8, <3>1
    <2>10. ASSUME NEW x \in 1 .. Len(prefixes), x > b PROVE prefixes[x] < p
      BY <1>1, <1>2, <2>7, <2>8, <2>10
    <2> QED BY <2>8, <2>9, <2>10
  <1> QED BY <1>3, <1>4, <1>5

\* The lengths of the routes that are in the table.
LEMMA RoutedAdd ==
  ASSUME TypeOK, ListOK, NEW k \in Keys, NEW r \in Routes, table[k] = NoRoute,
         table' = [table EXCEPT ![k] = r], uses' = [uses EXCEPT ![k.prefix] = @ + 1]
  PROVE  /\ uses' \in [Prefixes -> Nat]
         /\ \A p \in Prefixes : IsFiniteSet(Routed(p)') /\ uses'[p] = Cardinality(Routed(p)')
  <1>1. k.prefix \in Prefixes /\ r # NoRoute /\ table \in [Keys -> Routes \cup {NoRoute}]
        /\ uses \in [Prefixes -> Nat]
    BY KeysAssumption, NullsAssumption DEF TypeOK
  <1>2. uses' \in [Prefixes -> Nat]
    BY <1>1
  <1>3. ASSUME NEW p \in Prefixes
        PROVE  IsFiniteSet(Routed(p)') /\ uses'[p] = Cardinality(Routed(p)')
    <2>1. IsFiniteSet(Routed(p)) /\ uses[p] = Cardinality(Routed(p))
      BY DEF ListOK
    <2>2. CASE p = k.prefix
      <3>1. Routed(p)' = Routed(p) \cup {k} /\ k \notin Routed(p)
        BY <1>1, <2>2 DEF Routed
      <3>2. IsFiniteSet(Routed(p) \cup {k}) /\ Cardinality(Routed(p) \cup {k}) = Cardinality(Routed(p)) + 1
        BY <2>1, <3>1, FS_AddElement
      <3> QED BY <1>1, <2>1, <2>2, <3>1, <3>2
    <2>3. CASE p # k.prefix
      <3>1. Routed(p)' = Routed(p)
        BY <1>1, <2>3 DEF Routed
      <3> QED BY <1>1, <2>1, <2>3, <3>1
    <2> QED BY <2>2, <2>3
  <1> QED BY <1>2, <1>3

LEMMA RoutedDel ==
  ASSUME TypeOK, ListOK, NEW k \in Keys, table[k] # NoRoute,
         table' = [table EXCEPT ![k] = NoRoute], uses' = [uses EXCEPT ![k.prefix] = @ - 1]
  PROVE  /\ uses' \in [Prefixes -> Nat] /\ uses[k.prefix] > 0
         /\ \A p \in Prefixes : IsFiniteSet(Routed(p)') /\ uses'[p] = Cardinality(Routed(p)')
  <1>1. k.prefix \in Prefixes /\ table \in [Keys -> Routes \cup {NoRoute}]
        /\ uses \in [Prefixes -> Nat]
    BY KeysAssumption DEF TypeOK
  <1>2. k \in Routed(k.prefix) /\ IsFiniteSet(Routed(k.prefix))
        /\ uses[k.prefix] = Cardinality(Routed(k.prefix))
    BY <1>1 DEF ListOK, Routed
  <1>3. uses[k.prefix] > 0
    <2>1. Cardinality(Routed(k.prefix)) # 0
      BY <1>2, FS_EmptySet
    <2> QED BY <1>1, <1>2, <2>1
  <1>4. uses' \in [Prefixes -> Nat]
    BY <1>1, <1>3
  <1>5. ASSUME NEW p \in Prefixes
        PROVE  IsFiniteSet(Routed(p)') /\ uses'[p] = Cardinality(Routed(p)')
    <2>1. IsFiniteSet(Routed(p)) /\ uses[p] = Cardinality(Routed(p))
      BY DEF ListOK
    <2>2. CASE p = k.prefix
      <3>1. Routed(p)' = Routed(p) \ {k}
        BY <1>1, <2>2 DEF Routed
      <3>2. IsFiniteSet(Routed(p) \ {k}) /\ Cardinality(Routed(p) \ {k}) = Cardinality(Routed(p)) - 1
        BY <1>2, <2>1, <2>2, FS_RemoveElement
      <3> QED BY <1>1, <2>1, <2>2, <3>1, <3>2
    <2>3. CASE p # k.prefix
      <3>1. Routed(p)' = Routed(p)
        BY <1>1, <2>3 DEF Routed
      <3> QED BY <1>1, <2>1, <2>3, <3>1
    <2> QED BY <2>2, <2>3
  <1> QED BY <1>3, <1>4, <1>5

\* The lengths that the table and the list have to do with.
LEMMA PrefixTypes ==
  ASSUME TypeOK, NEW k \in Keys
  PROVE  /\ k.prefix \in Prefixes /\ k.prefix \in Nat /\ Prefixes \subseteq Nat
         /\ prefixes \in Seq(Prefixes) /\ uses \in [Prefixes -> Nat]
         /\ Len(prefixes) \in Nat /\ DOMAIN prefixes = 1 .. Len(prefixes)
         /\ \A i \in 1 .. Len(prefixes) : prefixes[i] \in Prefixes
  <1>1. Prefixes \subseteq Nat
    BY WidthAssumption DEF Prefixes
  <1>2. k.prefix \in Prefixes
    BY KeysAssumption
  <1>3. prefixes \in Seq(Prefixes) /\ uses \in [Prefixes -> Nat]
    BY DEF TypeOK
  <1>4. /\ Len(prefixes) \in Nat /\ DOMAIN prefixes = 1 .. Len(prefixes)
        /\ \A i \in 1 .. Len(prefixes) : prefixes[i] \in Prefixes
    BY <1>3
  <1> QED BY <1>1, <1>2, <1>3, <1>4

\* ixc_route_prefix_add keeps the list sorted and complete.
LEMMA AddKeepsList ==
  ASSUME TypeOK, ListOK, NEW k \in Keys, NEW r \in Routes, table[k] = NoRoute,
         table' = [table EXCEPT ![k] = r], PrefixAdd(k.prefix)
  PROVE  ListOK' /\ prefixes' \in Seq(Prefixes) /\ uses' \in [Prefixes -> Nat]
  <1> DEFINE p == k.prefix
             n == Len(prefixes)
             b == Before(p)
  <1>1. /\ p \in Prefixes /\ p \in Nat /\ Prefixes \subseteq Nat /\ prefixes \in Seq(Prefixes)
        /\ n \in Nat /\ uses \in [Prefixes -> Nat]
        /\ \A i \in 1 .. n : prefixes[i] \in Prefixes
    BY PrefixTypes
  <1>2. uses' = [uses EXCEPT ![p] = @ + 1] /\ prefixes' = Listing(p)
    BY DEF PrefixAdd
  <1>3. /\ uses' \in [Prefixes -> Nat]
        /\ \A q \in Prefixes : IsFiniteSet(Routed(q)') /\ uses'[q] = Cardinality(Routed(q)')
    BY <1>2, RoutedAdd
  <1>4. CASE uses[p] > 0
    <2>1. prefixes' = prefixes
      BY <1>2, <1>4 DEF Listing
    <2>2. \A q \in Prefixes : uses'[q] > 0 <=> uses[q] > 0
      BY <1>1, <1>2, <1>4
    <2> QED BY <1>1, <1>3, <2>1, <2>2 DEF ListOK
  <1>5. CASE ~(uses[p] > 0)
    <2>1. uses[p] = 0
      BY <1>1, <1>5
    <2>2. /\ b \in 0 .. n
          /\ \A i \in 1 .. n : i <= b => prefixes[i] > p
          /\ \A i \in 1 .. n : i > b => prefixes[i] < p
      BY <1>1, <2>1, BeforeSplits
    <2>3. prefixes' = Inserted(prefixes, b, p)
      BY <1>2, <1>5 DEF Listing, Inserted
    <2> HIDE DEF b, p, n
    <2>4. n = Len(prefixes)
      BY DEF n
    <2>5. /\ prefixes' \in Seq(Prefixes) /\ Len(prefixes') = n + 1
          /\ \A i \in 1 .. b : prefixes'[i] = prefixes[i]
          /\ prefixes'[b + 1] = p
          /\ \A i \in b + 1 .. n : prefixes'[i + 1] = prefixes[i]
      <3>1. prefixes \in Seq(Prefixes) /\ b \in 0 .. Len(prefixes) /\ p \in Prefixes
        BY <1>1, <2>2, <2>4
      <3>2. /\ Inserted(prefixes, b, p) \in Seq(Prefixes)
            /\ Len(Inserted(prefixes, b, p)) = Len(prefixes) + 1
            /\ \A i \in 1 .. b : Inserted(prefixes, b, p)[i] = prefixes[i]
            /\ Inserted(prefixes, b, p)[b + 1] = p
            /\ \A i \in b + 1 .. Len(prefixes) : Inserted(prefixes, b, p)[i + 1] = prefixes[i]
        <4>1. IsInsertion(Inserted(prefixes, b, p), Prefixes, prefixes, b, p)
          BY <3>1, InsertAt
        <4> QED BY <4>1 DEF IsInsertion
      <3> QED BY <2>3, <2>4, <3>2
    <2>6. ASSUME NEW i \in 1 .. n + 1
          PROVE  \/ i \in 1 .. b /\ i \in 1 .. n /\ prefixes'[i] = prefixes[i] /\ prefixes'[i] > p
                 \/ i = b + 1 /\ prefixes'[i] = p
                 \/ i > b + 1 /\ i - 1 \in 1 .. n /\ prefixes'[i] = prefixes[i - 1] /\ prefixes'[i] < p
      <3>1. CASE i <= b
        BY <1>1, <2>2, <2>5, <3>1
      <3>2. CASE i = b + 1
        BY <2>5, <3>2
      <3>3. CASE i > b + 1
        <4>1. i - 1 \in b + 1 .. n /\ i - 1 \in 1 .. n /\ i - 1 > b /\ (i - 1) + 1 = i
          BY <1>1, <2>2, <3>3
        <4>2. prefixes'[(i - 1) + 1] = prefixes[i - 1] /\ prefixes[i - 1] < p
          BY <2>2, <2>5, <4>1
        <4> QED BY <3>3, <4>1, <4>2
      <3> QED BY <1>1, <2>2, <3>1, <3>2, <3>3
    <2>7. ASSUME NEW i \in 1 .. n + 1, NEW j \in 1 .. n + 1, i < j PROVE prefixes'[i] > prefixes'[j]
      <3>1. \A x, y \in 1 .. n : x < y => prefixes[x] > prefixes[y]
        BY <2>4 DEF ListOK
      <3>2. /\ prefixes'[i] \in Nat /\ prefixes'[j] \in Nat
            /\ i \in Nat /\ j \in Nat /\ b \in Nat
        <4>1. \A x \in 1 .. n + 1 : prefixes'[x] \in Prefixes
          BY <1>1, <2>5
        <4>2. Prefixes \subseteq Nat /\ n \in Nat /\ b \in 0 .. n
          BY <1>1, <2>2
        <4>3. prefixes'[i] \in Nat
          BY <4>1, <4>2
        <4>4. prefixes'[j] \in Nat
          BY <4>1, <4>2
        <4>5. i \in Nat /\ j \in Nat /\ b \in Nat
          BY <4>2
        <4> QED BY <4>3, <4>4, <4>5
      <3>3. CASE i <= b /\ j <= b
        BY <1>1, <2>5, <2>6, <2>7, <3>1, <3>2, <3>3
      <3>4. CASE i > b + 1
        <4>1. j > b + 1 /\ i - 1 < j - 1
          BY <2>7, <3>2, <3>4
        <4> QED BY <2>6, <3>1, <3>2, <3>4, <4>1
      <3>5. CASE i <= b /\ j = b + 1
        BY <2>5, <2>6, <3>2, <3>5
      <3>6. CASE i <= b + 1 /\ j > b + 1
        BY <1>1, <2>6, <3>2, <3>6
      <3> QED BY <2>7, <3>2, <3>3, <3>4, <3>5, <3>6
    <2>8. ASSUME NEW q \in Prefixes
          PROVE  uses'[q] > 0 <=> \E i \in 1 .. n + 1 : prefixes'[i] = q
      <3>1. uses[q] > 0 <=> \E i \in 1 .. n : prefixes[i] = q
        BY <2>4 DEF ListOK
      <3>2. CASE q = p
        <4>1. uses'[q] > 0
          BY <1>1, <1>2, <3>2 DEF p
        <4>2. b + 1 \in 1 .. n + 1
          BY <1>1, <2>2
        <4> QED BY <2>5, <3>2, <4>1, <4>2
      <3>3. CASE q # p
        <4>1. uses'[q] = uses[q]
          BY <1>1, <1>2, <3>3 DEF p
        <4>2. ASSUME NEW i \in 1 .. n, prefixes[i] = q PROVE \E x \in 1 .. n + 1 : prefixes'[x] = q
          <5>1. CASE i <= b
            <6>1. i \in 1 .. b /\ i \in 1 .. n + 1
              BY <1>1, <2>2, <5>1
            <6> QED BY <2>5, <4>2, <6>1
          <5>2. CASE i > b
            <6>1. i \in b + 1 .. n /\ i + 1 \in 1 .. n + 1
              BY <1>1, <2>2, <5>2
            <6> QED BY <2>5, <4>2, <6>1
          <5> QED BY <1>1, <2>2, <5>1, <5>2
        <4>3. ASSUME NEW i \in 1 .. n + 1, prefixes'[i] = q PROVE \E x \in 1 .. n : prefixes[x] = q
          BY <2>6, <3>3, <4>3
        <4> QED BY <3>1, <4>1, <4>2, <4>3
      <3> QED BY <3>2, <3>3
    <2>9. Len(prefixes') = n + 1 /\ prefixes' \in Seq(Prefixes)
      BY <2>5
    <2> QED BY <1>3, <2>7, <2>8, <2>9 DEF ListOK
  <1> QED BY <1>4, <1>5

\* ixc_route_prefix_del as well.
LEMMA DelKeepsList ==
  ASSUME TypeOK, ListOK, NEW k \in Keys, table[k] # NoRoute,
         table' = [table EXCEPT ![k] = NoRoute], PrefixDel(k.prefix)
  PROVE  ListOK' /\ prefixes' \in Seq(Prefixes) /\ uses' \in [Prefixes -> Nat]
  <1> DEFINE p == k.prefix
             n == Len(prefixes)
             b == Position(p)
  <1>1. /\ p \in Prefixes /\ p \in Nat /\ Prefixes \subseteq Nat /\ prefixes \in Seq(Prefixes)
        /\ n \in Nat /\ uses \in [Prefixes -> Nat] /\ DOMAIN prefixes = 1 .. n
        /\ \A i \in 1 .. n : prefixes[i] \in Prefixes
    BY PrefixTypes
  <1>2. uses' = [uses EXCEPT ![p] = @ - 1] /\ prefixes' = Unlisting(p)
    BY DEF PrefixDel
  <1>3. /\ uses' \in [Prefixes -> Nat] /\ uses[p] > 0
        /\ \A q \in Prefixes : IsFiniteSet(Routed(q)') /\ uses'[q] = Cardinality(Routed(q)')
    BY <1>2, RoutedDel
  <1>4. CASE uses[p] > 1
    <2>1. prefixes' = prefixes
      BY <1>2, <1>4 DEF Unlisting
    <2>2. \A q \in Prefixes : uses'[q] > 0 <=> uses[q] > 0
      BY <1>1, <1>2, <1>4
    <2> QED BY <1>1, <1>3, <2>1, <2>2 DEF ListOK
  <1>5. CASE ~(uses[p] > 1)
    <2>1. uses[p] = 1
      BY <1>1, <1>3, <1>5
    <2>2. b \in 1 .. n /\ prefixes[b] = p
      <3>1. \E i \in DOMAIN prefixes : prefixes[i] = p
        BY <1>1, <1>3 DEF ListOK
      <3> QED BY <1>1, <3>1 DEF Position
    <2>3. prefixes' = Removed(prefixes, b)
      BY <1>2, <1>5 DEF Unlisting, Removed
    <2> HIDE DEF b, p, n
    <2>4. n = Len(prefixes)
      BY DEF n
    <2>5. /\ prefixes' \in Seq(Prefixes) /\ Len(prefixes') = n - 1
          /\ \A i \in 1 .. b - 1 : prefixes'[i] = prefixes[i]
          /\ \A i \in b + 1 .. n : prefixes'[i - 1] = prefixes[i]
      BY <1>1, <2>2, <2>3, <2>4, RemoveAtIndex
    <2>6. ASSUME NEW i \in 1 .. n - 1
          PROVE  \/ i < b /\ i \in 1 .. n /\ prefixes'[i] = prefixes[i]
                 \/ i >= b /\ i + 1 \in 1 .. n /\ prefixes'[i] = prefixes[i + 1]
      <3>1. CASE i < b
        <4>1. i \in 1 .. b - 1 /\ i \in 1 .. n
          BY <1>1, <2>2, <3>1
        <4> QED BY <2>5, <3>1, <4>1
      <3>2. CASE i >= b
        <4>1. i + 1 \in b + 1 .. n /\ i + 1 \in 1 .. n /\ (i + 1) - 1 = i
          BY <1>1, <2>2, <3>2
        <4>2. prefixes'[(i + 1) - 1] = prefixes[i + 1]
          BY <2>5, <4>1
        <4> QED BY <3>2, <4>1, <4>2
      <3> QED BY <1>1, <2>2, <3>1, <3>2
    <2>7. \A x, y \in 1 .. n : x < y => prefixes[x] > prefixes[y]
      BY <2>4 DEF ListOK
    <2>8. ASSUME NEW i \in 1 .. n - 1, NEW j \in 1 .. n - 1, i < j PROVE prefixes'[i] > prefixes'[j]
      <3>1. i \in Nat /\ j \in Nat /\ b \in Nat
        BY <1>1, <2>2
      <3>2. CASE i < b /\ j < b
        BY <2>6, <2>7, <2>8, <3>1, <3>2
      <3>3. CASE i < b /\ j >= b
        BY <2>6, <2>7, <2>8, <3>1, <3>3
      <3>4. CASE i >= b
        BY <2>6, <2>7, <2>8, <3>1, <3>4
      <3> QED BY <3>1, <3>2, <3>3, <3>4
    <2>9. ASSUME NEW q \in Prefixes
          PROVE  uses'[q] > 0 <=> \E i \in 1 .. n - 1 : prefixes'[i] = q
      <3>1. uses[q] > 0 <=> \E i \in 1 .. n : prefixes[i] = q
        BY <2>4 DEF ListOK
      <3>2. \A i \in 1 .. n : i # b => prefixes[i] # p
        <4> SUFFICES ASSUME NEW i \in 1 .. n, i # b PROVE prefixes[i] # prefixes[b]
          BY <2>2
        <4>1. i < b \/ b < i
          BY <1>1, <2>2
        <4>2. prefixes[i] \in Nat /\ prefixes[b] \in Nat
          BY <1>1, <2>2
        <4> QED BY <2>2, <2>7, <4>1, <4>2
      <3>3. CASE q = p
        <4>1. ~(uses'[q] > 0)
          BY <1>1, <1>2, <2>1, <3>3 DEF p
        <4>2. \A i \in 1 .. n - 1 : prefixes'[i] # p
          <5> SUFFICES ASSUME NEW i \in 1 .. n - 1 PROVE prefixes'[i] # p
            OBVIOUS
          <5>1. CASE i < b
            BY <2>2, <2>6, <3>2, <5>1
          <5>2. CASE i >= b
            <6>1. i + 1 # b /\ ~(i < b)
              BY <2>2, <5>2
            <6> QED BY <2>6, <3>2, <6>1
          <5> QED BY <2>2, <5>1, <5>2
        <4> QED BY <3>3, <4>1, <4>2
      <3>4. CASE q # p
        <4>1. uses'[q] = uses[q]
          BY <1>1, <1>2, <3>4 DEF p
        <4>2. ASSUME NEW i \in 1 .. n, prefixes[i] = q PROVE \E x \in 1 .. n - 1 : prefixes'[x] = q
          <5>1. i # b
            BY <2>2, <3>4, <4>2
          <5>2. CASE i < b
            <6>1. i \in 1 .. b - 1 /\ i \in 1 .. n - 1
              BY <1>1, <2>2, <5>2
            <6> QED BY <2>5, <4>2, <6>1
          <5>3. CASE i > b
            <6>1. i \in b + 1 .. n /\ i - 1 \in 1 .. n - 1
              BY <1>1, <2>2, <5>3
            <6> QED BY <2>5, <4>2, <6>1
          <5> QED BY <1>1, <2>2, <5>1, <5>2, <5>3
        <4>3. ASSUME NEW i \in 1 .. n - 1, prefixes'[i] = q PROVE \E x \in 1 .. n : prefixes[x] = q
          BY <2>6, <4>3
        <4> QED BY <3>1, <4>1, <4>2, <4>3
      <3> QED BY <3>3, <3>4
    <2> QED BY <1>3, <2>5, <2>8, <2>9 DEF ListOK
  <1> QED BY <1>4, <1>5

(***************************************************************************)
(* Entries and routes.  LinksOK is CacheLinked without the table, of any   *)
(* cache, entries, targets, addresses and counts: ixc_route_match may      *)
(* delete one entry and add another in one step.                           *)
(***************************************************************************)
LinksOK(ca, li, tt, ad, rf) ==
  /\ ca \in [Addrs -> Data \cup {NoCache}] /\ li \subseteq Data /\ IsFiniteSet(li)
  /\ tt \in [Data -> Routes \cup {NoRoute}] /\ ad \in [Data -> Addrs \cup {NoAddr}]
  /\ rf \in [Routes -> 0 .. MaxRefs]
  /\ \A a \in Addrs : ca[a] # NoCache => ca[a] \in li /\ ad[ca[a]] = a
  /\ \A c \in li : ad[c] \in Addrs /\ ca[ad[c]] = c /\ tt[c] \in routes
  /\ \A r \in Routes : rf[r] = Cardinality({c \in li : tt[c] = r})

LEMMA LinksHold ==
  ASSUME TypeOK, CacheLinked, RoutesApart PROVE LinksOK(cache, live, to, addr, refs)
  BY DEF TypeOK, CacheLinked, RoutesApart, LinksOK, Entries

\* The route of an entry is counted, so that it is never freed with it.
LEMMA EntryIsCounted ==
  ASSUME NEW ca, NEW li, NEW tt, NEW ad, NEW rf, routes \subseteq Routes,
         LinksOK(ca, li, tt, ad, rf), NEW c \in li
  PROVE  tt[c] \in Routes /\ rf[tt[c]] > 0
  <1>1. tt[c] \in Routes /\ li \subseteq Data /\ IsFiniteSet(li) /\ rf \in [Routes -> 0 .. MaxRefs]
        /\ rf[tt[c]] = Cardinality({x \in li : tt[x] = tt[c]})
    BY DEF LinksOK
  <1> DEFINE E == {x \in li : tt[x] = tt[c]}
  <1>2. c \in E /\ IsFiniteSet(E)
    BY <1>1, FS_Subset
  <1>3. Cardinality(E) # 0
    <2> HIDE DEF E
    <2> QED BY <1>2, FS_EmptySet
  <1> QED BY <1>1, <1>3, CacheAssumption

LEMMA LinksRemove ==
  ASSUME NEW ca, NEW li, NEW tt, NEW ad, NEW rf, routes \subseteq Routes,
         LinksOK(ca, li, tt, ad, rf), NEW c \in li
  PROVE  LinksOK([ca EXCEPT ![ad[c]] = NoCache], li \ {c}, [tt EXCEPT ![c] = NoRoute],
                 [ad EXCEPT ![c] = NoAddr], [rf EXCEPT ![tt[c]] = @ - 1])
  <1> DEFINE ca2 == [ca EXCEPT ![ad[c]] = NoCache]
             tt2 == [tt EXCEPT ![c] = NoRoute]
             ad2 == [ad EXCEPT ![c] = NoAddr]
             rf2 == [rf EXCEPT ![tt[c]] = @ - 1]
             E(r) == {x \in li : tt[x] = r}
  <1>1. /\ ca \in [Addrs -> Data \cup {NoCache}] /\ li \subseteq Data /\ IsFiniteSet(li)
        /\ tt \in [Data -> Routes \cup {NoRoute}] /\ ad \in [Data -> Addrs \cup {NoAddr}]
        /\ rf \in [Routes -> 0 .. MaxRefs]
        /\ \A a \in Addrs : ca[a] # NoCache => ca[a] \in li /\ ad[ca[a]] = a
        /\ \A x \in li : ad[x] \in Addrs /\ ca[ad[x]] = x /\ tt[x] \in routes
        /\ NoCache \notin Data /\ NoRoute \notin Routes /\ MaxRefs \in Nat
    BY NullsAssumption, CacheAssumption DEF LinksOK
  <1>2. tt[c] \in Routes /\ rf[tt[c]] > 0
    BY EntryIsCounted
  <1>3. ca2 \in [Addrs -> Data \cup {NoCache}] /\ li \ {c} \subseteq Data /\ IsFiniteSet(li \ {c})
    BY <1>1, FS_RemoveElement
  <1>4. tt2 \in [Data -> Routes \cup {NoRoute}] /\ ad2 \in [Data -> Addrs \cup {NoAddr}]
    BY <1>1
  <1>5. rf2 \in [Routes -> 0 .. MaxRefs]
    BY <1>1, <1>2
  <1>6. \A a \in Addrs : ca2[a] # NoCache => ca2[a] \in li \ {c} /\ ad2[ca2[a]] = a
    BY <1>1
  <1>7. \A x \in li \ {c} : ad2[x] \in Addrs /\ ca2[ad2[x]] = x /\ tt2[x] \in routes
    BY <1>1
  <1>8. ASSUME NEW r \in Routes PROVE rf2[r] = Cardinality({x \in li \ {c} : tt2[x] = r})
    <2>1. rf[r] = Cardinality(E(r)) /\ IsFiniteSet(E(r))
      BY <1>1, FS_Subset DEF LinksOK
    <2>2. {x \in li \ {c} : tt2[x] = r} = E(r) \ {c}
      BY <1>1
    <2>3. Cardinality(E(r) \ {c}) = IF c \in E(r) THEN Cardinality(E(r)) - 1 ELSE Cardinality(E(r))
      <3> HIDE DEF E
      <3> QED BY <2>1, FS_RemoveElement
    <2>4. c \in E(r) <=> r = tt[c]
      OBVIOUS
    <2>5. rf2[r] = IF r = tt[c] THEN rf[r] - 1 ELSE rf[r]
      BY <1>1
    <2> QED BY <2>1, <2>2, <2>3, <2>4, <2>5
  <1> QED BY <1>3, <1>4, <1>5, <1>6, <1>7, <1>8 DEF LinksOK

LEMMA LinksAdd ==
  ASSUME NEW ca, NEW li, NEW tt, NEW ad, NEW rf, routes \subseteq Routes,
         LinksOK(ca, li, tt, ad, rf),
         NEW c \in Data \ li, NEW a \in Addrs, ca[a] = NoCache, NEW r \in routes, rf[r] < MaxRefs
  PROVE  LinksOK([ca EXCEPT ![a] = c], li \cup {c}, [tt EXCEPT ![c] = r],
                 [ad EXCEPT ![c] = a], [rf EXCEPT ![r] = @ + 1])
  <1> DEFINE ca2 == [ca EXCEPT ![a] = c]
             tt2 == [tt EXCEPT ![c] = r]
             ad2 == [ad EXCEPT ![c] = a]
             rf2 == [rf EXCEPT ![r] = @ + 1]
             E(q) == {x \in li : tt[x] = q}
  <1>1. /\ ca \in [Addrs -> Data \cup {NoCache}] /\ li \subseteq Data /\ IsFiniteSet(li)
        /\ tt \in [Data -> Routes \cup {NoRoute}] /\ ad \in [Data -> Addrs \cup {NoAddr}]
        /\ rf \in [Routes -> 0 .. MaxRefs]
        /\ \A x \in Addrs : ca[x] # NoCache => ca[x] \in li /\ ad[ca[x]] = x
        /\ \A x \in li : ad[x] \in Addrs /\ ca[ad[x]] = x /\ tt[x] \in routes
        /\ NoCache \notin Data /\ NoRoute \notin Routes /\ MaxRefs \in Nat
    BY NullsAssumption, CacheAssumption DEF LinksOK
  <1>2. ca2 \in [Addrs -> Data \cup {NoCache}] /\ li \cup {c} \subseteq Data /\ IsFiniteSet(li \cup {c})
    BY <1>1, FS_AddElement
  <1>3. tt2 \in [Data -> Routes \cup {NoRoute}] /\ ad2 \in [Data -> Addrs \cup {NoAddr}]
    BY <1>1
  <1>4. rf2 \in [Routes -> 0 .. MaxRefs]
    BY <1>1
  <1>5. \A x \in Addrs : ca2[x] # NoCache => ca2[x] \in li \cup {c} /\ ad2[ca2[x]] = x
    BY <1>1
  <1>6. \A x \in li \cup {c} : ad2[x] \in Addrs /\ ca2[ad2[x]] = x /\ tt2[x] \in routes
    BY <1>1
  <1>7. ASSUME NEW q \in Routes PROVE rf2[q] = Cardinality({x \in li \cup {c} : tt2[x] = q})
    <2>1. rf[q] = Cardinality(E(q)) /\ IsFiniteSet(E(q)) /\ c \notin E(q)
      BY <1>1, FS_Subset DEF LinksOK
    <2>2. {x \in li \cup {c} : tt2[x] = q} = IF q = r THEN E(q) \cup {c} ELSE E(q)
      BY <1>1
    <2>3. Cardinality(E(q) \cup {c}) = Cardinality(E(q)) + 1
      <3> HIDE DEF E
      <3> QED BY <2>1, FS_AddElement
    <2>4. rf2[q] = IF q = r THEN rf[q] + 1 ELSE rf[q]
      BY <1>1
    <2> QED BY <2>1, <2>2, <2>3, <2>4
  <1> QED BY <1>2, <1>3, <1>4, <1>5, <1>6, <1>7 DEF LinksOK

(***************************************************************************)
(* Entries and timers, likewise.                                           *)
(***************************************************************************)
OwnedOK(td, li, pend, dat) == \A n \in pend : dat[n] \in li /\ td[dat[n]] = n

(***************************************************************************)
(* Every step keeps the sound part.                                        *)
(***************************************************************************)
\* A step that leaves the table alone keeps it if links and callbacks are
\* right after it.
LEMMA Assemble ==
  ASSUME RouteSound, WheelSound', UNCHANGED <<tableVars, routes, invalid>>,
         LinksOK(cache', live', to', addr', refs'),
         OwnedOK(tdata', live', Pending', data'),
         tdata' \in [Data -> Nodes \cup {NoNode}], age' \in [Data -> Int], held' \in [Data -> Int]
  PROVE  RouteSound'
  <1>1. TypeOK'
    BY DEF RouteSound, TypeOK, WheelSound, LinksOK, tableVars
  <1>2. CacheLinked'
    BY DEF RouteSound, CacheLinked, LinksOK, Entries, tableVars
  <1>3. PendingOwned'
    BY DEF PendingOwned, OwnedOK
  <1>4. RoutesApart'
    BY DEF RouteSound, RoutesApart, LinksOK, tableVars
  <1>5. ListOK'
    <2>1. \A q \in Prefixes : Routed(q)' = Routed(q)
      BY DEF Routed, tableVars
    <2> QED BY <2>1 DEF RouteSound, ListOK, tableVars
  <1> QED BY <1>1, <1>2, <1>3, <1>4, <1>5 DEF RouteSound

\* What Forget does to an entry: its route is not freed (LastOf is false).
LEMMA ForgetAll ==
  ASSUME RouteSound, NEW c \in live, Forget(c)
  PROVE  /\ ~LastOf(c)
         /\ UNCHANGED <<tableVars, routes, invalid>>
         /\ LinksOK(cache', live', to', addr', refs')
         /\ live' = live \ {c}
         /\ tdata' = [tdata EXCEPT ![c] = NoNode]
         /\ age' = [age EXCEPT ![c] = 0] /\ held' = [held EXCEPT ![c] = 0]
  <1>1. LinksOK(cache, live, to, addr, refs) /\ routes \subseteq Routes
    BY LinksHold DEF RouteSound, TypeOK
  <1>2. to[c] \in Routes /\ refs[to[c]] > 0
    BY <1>1, EntryIsCounted
  <1>3. ~LastOf(c)
    BY <1>2 DEF LastOf
  <1>4. LinksOK([cache EXCEPT ![addr[c]] = NoCache], live \ {c}, [to EXCEPT ![c] = NoRoute],
                [addr EXCEPT ![c] = NoAddr], [refs EXCEPT ![to[c]] = @ - 1])
    BY <1>1, LinksRemove
  <1>5. /\ routes' = routes /\ invalid' = invalid /\ refs' = [refs EXCEPT ![to[c]] = @ - 1]
        /\ live' = live \ {c} /\ cache' = [cache EXCEPT ![addr[c]] = NoCache]
        /\ to' = [to EXCEPT ![c] = NoRoute] /\ addr' = [addr EXCEPT ![c] = NoAddr]
        /\ tdata' = [tdata EXCEPT ![c] = NoNode]
        /\ age' = [age EXCEPT ![c] = 0] /\ held' = [held EXCEPT ![c] = 0] /\ UNCHANGED tableVars
    BY <1>3 DEF Forget, RoutesWithout, InvalidWithout, RefsWithout
  <1> QED BY <1>3, <1>4, <1>5

\* The callback of n forgets the entry of n, and n leaves the wheel.
LEMMA ForgetKeepsSound ==
  ASSUME RouteSound, NEW n \in todo, FireOnly(n), Forget(data[n])
  PROVE  RouteSound'
  <1> DEFINE c == data[n]
  <1>1. WheelSound' /\ n \in Pending /\ Pending' = Pending \ {n}
    BY SoundFireOnly DEF RouteSound
  <1>2. c \in live /\ tdata[c] = n
    BY <1>1 DEF RouteSound, PendingOwned
  <1>3. /\ UNCHANGED <<tableVars, routes, invalid>>
        /\ LinksOK(cache', live', to', addr', refs') /\ live' = live \ {c}
        /\ tdata' = [tdata EXCEPT ![c] = NoNode]
        /\ age' = [age EXCEPT ![c] = 0] /\ held' = [held EXCEPT ![c] = 0]
    BY <1>2, ForgetAll
  <1>4. /\ tdata \in [Data -> Nodes \cup {NoNode}] /\ live \in SUBSET Data
        /\ age \in [Data -> Int] /\ held \in [Data -> Int] /\ data \in [Nodes -> Data \cup {NoData}]
        /\ Pending \subseteq Nodes
    BY PendingTypes DEF RouteSound, TypeOK, WheelTypeOK
  <1>5. tdata' \in [Data -> Nodes \cup {NoNode}] /\ age' \in [Data -> Int] /\ held' \in [Data -> Int]
    <2> HIDE DEF c
    <2>1. tdata' \in [Data -> Nodes \cup {NoNode}]
      BY <1>3, <1>4
    <2>2. age' \in [Data -> Int]
      <3>1. age' = [age EXCEPT ![c] = 0] /\ age \in [Data -> Int]
        BY <1>3, <1>4
      <3>2. \A x \in Data : age'[x] \in Int
        BY <3>1
      <3> QED BY <3>1, <3>2
    <2>3. held' \in [Data -> Int]
      <3>1. held' = [held EXCEPT ![c] = 0] /\ held \in [Data -> Int]
        BY <1>3, <1>4
      <3>2. \A x \in Data : held'[x] \in Int
        BY <3>1
      <3> QED BY <3>1, <3>2
    <2> QED BY <2>1, <2>2, <2>3
  <1>6. OwnedOK(tdata', live', Pending', data')
    <2> SUFFICES ASSUME NEW x \in Pending'
                 PROVE  data'[x] \in live' /\ tdata'[data'[x]] = x
      BY DEF OwnedOK
    <2>1. x \in Pending /\ x # n /\ data'[x] = data[x]
      BY <1>1, <1>4 DEF FireOnly
    <2>2. data[x] \in live /\ tdata[data[x]] = x
      BY <2>1 DEF RouteSound, PendingOwned
    <2>3. data[x] # c
      BY <1>2, <2>1, <2>2
    <2> QED BY <1>3, <1>4, <2>1, <2>2, <2>3
  <1> QED BY <1>1, <1>3, <1>5, <1>6, Assemble

\* The callback of n arms m for the entry of n.
LEMMA RearmKeepsSound ==
  ASSUME RouteSound, NEW n \in todo, NEW m \in Nodes, Rearm(n, m)
  PROVE  RouteSound'
  <1> DEFINE c == data[n]
  <1>1. FireRearm(n, m)
    BY DEF Rearm
  <1>2. /\ WheelSound' /\ n \in Pending /\ m \notin Pending
        /\ Pending' \subseteq (Pending \ {n}) \cup {m}
    BY <1>1, SoundFireRearm DEF RouteSound
  <1>3. c \in live /\ tdata[c] = n
    BY <1>2 DEF RouteSound, PendingOwned
  <1>4. /\ tdata' = [tdata EXCEPT ![c] = m] /\ data' = [data EXCEPT ![m] = c, ![n] = NoData]
        /\ UNCHANGED <<tableVars, routes, invalid, refs, cache, live, to, addr, age, held>>
    BY <1>1 DEF Rearm, FireRearm
  <1>5. /\ tdata \in [Data -> Nodes \cup {NoNode}] /\ live \in SUBSET Data
        /\ age \in [Data -> Int] /\ held \in [Data -> Int] /\ data \in [Nodes -> Data \cup {NoData}]
        /\ Pending \subseteq Nodes
    BY PendingTypes DEF RouteSound, TypeOK, WheelTypeOK
  <1>6. tdata' \in [Data -> Nodes \cup {NoNode}]
    BY <1>4, <1>5
  <1>7. LinksOK(cache', live', to', addr', refs')
    <2>1. LinksOK(cache, live, to, addr, refs)
      BY LinksHold DEF RouteSound
    <2> QED BY <1>4, <2>1 DEF LinksOK
  <1>8. OwnedOK(tdata', live', Pending', data')
    <2>1. PendingOwned
      BY DEF RouteSound
    <2> QED BY <1>2, <1>3, <1>4, <1>5, <2>1 DEF OwnedOK, PendingOwned
  <1> QED BY <1>2, <1>4, <1>5, <1>6, <1>7, <1>8, Assemble

\* Steps of the wheel and of the clock that entries and routes do not notice.
LEMMA QuietKeepsSound ==
  ASSUME RouteSound, WheelSound', Pending' \subseteq Pending,
         \A n \in Pending' : data'[n] = data[n],
         UNCHANGED <<tableVars, routes, invalid, refs, cache, live, to, addr, tdata>>,
         age' \in [Data -> Int], held' \in [Data -> Int]
  PROVE  RouteSound'
  <1>1. LinksOK(cache', live', to', addr', refs')
    <2>1. LinksOK(cache, live, to, addr, refs)
      BY LinksHold DEF RouteSound
    <2> QED BY <2>1 DEF LinksOK
  <1>2. OwnedOK(tdata', live', Pending', data')
    BY DEF RouteSound, PendingOwned, OwnedOK
  <1>3. tdata' \in [Data -> Nodes \cup {NoNode}]
    BY DEF RouteSound, TypeOK
  <1> QED BY <1>1, <1>2, <1>3, Assemble

LEMMA WheelKeepsSound ==
  ASSUME RouteSound, Wheel PROVE RouteSound'
  <1> USE DEF RouteSound
  <1>1. age \in [Data -> Int] /\ held \in [Data -> Int]
    BY DEF TypeOK
  <1>2. CASE Handle
    <2>1. WheelSound' /\ Pending' = Pending
      BY <1>2, SoundHandleBegin DEF Handle
    <2> QED BY <1>1, <1>2, <2>1, QuietKeepsSound DEF Handle, HandleBegin, nodeVars, cacheVars
  <1>3. CASE NextSlot
    <2>1. WheelSound' /\ Pending' \subseteq Pending
      BY <1>3, SoundSlotDone DEF NextSlot
    <2> QED BY <1>1, <1>3, <2>1, QuietKeepsSound DEF NextSlot, SlotDone, cacheVars
  <1>4. ASSUME NEW n \in Nodes, Skip(n) PROVE RouteSound'
    <2>1. n \in todo /\ SkipDeleted(n) /\ todo' = todo \ {n}
      BY <1>4 DEF Skip, SkipDeleted
    <2>2. WheelSound' /\ Pending' \subseteq Pending
      BY <2>1, SoundSkip
    <2>3. n \notin Pending'
      BY <2>1, <2>2 DEF SkipDeleted, Pending
    <2>4. \A x \in Pending' : data'[x] = data[x]
      BY <2>1, <2>2, <2>3, PendingTypes DEF SkipDeleted, TypeOK, WheelTypeOK
    <2> QED BY <1>1, <1>4, <2>2, <2>4, QuietKeepsSound DEF Skip, cacheVars
  <1>5. ASSUME NEW n \in Nodes, Expire(n) \/ RearmNoMemory(n) PROVE RouteSound'
    BY <1>5, ForgetKeepsSound DEF Expire, RearmNoMemory
  <1>6. ASSUME NEW n \in Nodes, NEW m \in Nodes, Rearm(n, m) PROVE RouteSound'
    BY <1>6, RearmKeepsSound DEF Rearm
  <1> QED BY <1>2, <1>3, <1>4, <1>5, <1>6 DEF Wheel, Fire

LEMMA OlderType ==
  ASSUME NEW f \in [Data -> Int], NEW d \in Int PROVE Older(f, d) \in [Data -> Int]
  BY AgeCapAssumption DEF Older

LEMMA TimeKeepsSound ==
  ASSUME RouteSound, Time PROVE RouteSound'
  <1>1. PICK d \in ClockSteps : Elapse(d)
    BY DEF Time
  <1>2. d \in Int
    BY ClockAssumption
  <1>3. WheelSound' /\ Pending' = Pending
    BY <1>1, <1>2, SoundClock DEF Elapse, RouteSound
  <1>4. age' \in [Data -> Int] /\ held' \in [Data -> Int]
    BY <1>1, <1>2, OlderType DEF Elapse, RouteSound, TypeOK
  <1> QED BY <1>1, <1>3, <1>4, QuietKeepsSound DEF Elapse, ClockStep, nodeVars

(***************************************************************************)
(* The table.                                                              *)
(***************************************************************************)
LEMMA RouteAddKeepsSound ==
  ASSUME RouteSound, NEW k \in Keys, NEW r \in Routes, RouteAdd(k, r)
  PROVE  RouteSound'
  <1> USE DEF RouteSound
  <1>1. /\ table[k] = NoRoute /\ r \notin routes /\ PrefixAdd(k.prefix)
        /\ table' = [table EXCEPT ![k] = r] /\ routes' = routes \cup {r}
        /\ UNCHANGED <<wheelVars, invalid, refs, cacheVars>>
    BY DEF RouteAdd
  <1>2. ListOK' /\ prefixes' \in Seq(Prefixes) /\ uses' \in [Prefixes -> Nat]
    BY <1>1, AddKeepsList
  <1>3. WheelSound' /\ Pending' = Pending
    BY <1>1, SoundStutter
  <1>4. table \in [Keys -> Routes \cup {NoRoute}] /\ NoRoute \notin Routes /\ routes \subseteq Routes
    BY NullsAssumption DEF TypeOK
  <1>5. TypeOK'
    BY <1>1, <1>2, <1>3, <1>4 DEF TypeOK, WheelSound, cacheVars
  <1>6. CacheLinked'
    <2>1. \A q \in routes' : invalid'[q] <=> \A l \in Keys : table'[l] # q
      BY <1>1, <1>4 DEF CacheLinked, RoutesApart
    <2>2. \A l \in Keys : table'[l] # NoRoute => table'[l] \in routes'
      BY <1>1, <1>4 DEF CacheLinked
    <2> QED BY <1>1, <2>1, <2>2 DEF CacheLinked, cacheVars, Entries
  <1>7. PendingOwned'
    BY <1>1, <1>3 DEF PendingOwned, cacheVars, wheelVars
  <1>8. RoutesApart'
    BY <1>1, <1>4 DEF RoutesApart, CacheLinked, cacheVars
  <1> QED BY <1>2, <1>3, <1>5, <1>6, <1>7, <1>8

LEMMA RouteDelKeepsSound ==
  ASSUME RouteSound, NEW k \in Keys, RouteDel(k)
  PROVE  RouteSound'
  <1> USE DEF RouteSound
  <1> DEFINE r == table[k]
  <1>1. /\ r # NoRoute /\ PrefixDel(k.prefix)
        /\ table' = [table EXCEPT ![k] = NoRoute]
        /\ UNCHANGED <<wheelVars, refs, cacheVars>>
        /\ \/ refs[r] = 0 /\ routes' = routes \ {r} /\ invalid' = invalid
           \/ refs[r] # 0 /\ routes' = routes /\ invalid' = [invalid EXCEPT ![r] = TRUE]
    BY DEF RouteDel
  <1>2. ListOK' /\ prefixes' \in Seq(Prefixes) /\ uses' \in [Prefixes -> Nat]
    BY <1>1, DelKeepsList
  <1>3. WheelSound' /\ Pending' = Pending
    BY <1>1, SoundStutter
  <1>4. /\ table \in [Keys -> Routes \cup {NoRoute}] /\ NoRoute \notin Routes /\ routes \subseteq Routes
        /\ invalid \in [Routes -> BOOLEAN] /\ r \in routes /\ ~invalid[r]
    BY <1>1, NullsAssumption DEF TypeOK, CacheLinked
  <1>5. TypeOK'
    BY <1>1, <1>2, <1>3, <1>4 DEF TypeOK, WheelSound, cacheVars
  <1>6. \A l \in Keys : l # k => table'[l] = table[l] /\ table[l] # r
    BY <1>1, <1>4 DEF RoutesApart
  <1>7. refs[r] = 0 => \A c \in live : to[c] # r
    <2> SUFFICES ASSUME NEW c \in live PROVE refs[to[c]] > 0
      BY DEF TypeOK
    <2>1. LinksOK(cache, live, to, addr, refs)
      BY LinksHold
    <2> QED BY <1>4, <2>1, EntryIsCounted
  <1>8. CacheLinked'
    <2>1. \A q \in routes' : invalid'[q] <=> \A l \in Keys : table'[l] # q
      <3> SUFFICES ASSUME NEW q \in routes' PROVE invalid'[q] <=> \A l \in Keys : table'[l] # q
        OBVIOUS
      <3>1. CASE q = r
        BY <1>1, <1>4, <1>6, <3>1
      <3>2. CASE q # r
        <4>1. invalid'[q] = invalid[q] /\ q \in routes
          BY <1>1, <1>4, <3>2
        <4>2. (\A l \in Keys : table'[l] # q) <=> (\A l \in Keys : table[l] # q)
          BY <1>1, <1>4, <1>6, <3>2
        <4> QED BY <4>1, <4>2 DEF CacheLinked
      <3> QED BY <3>1, <3>2
    <2>2. \A l \in Keys : table'[l] # NoRoute => table'[l] \in routes'
      BY <1>1, <1>4, <1>6 DEF CacheLinked
    <2>3. \A c \in live : to[c] \in routes'
      BY <1>1, <1>7 DEF CacheLinked
    <2> QED BY <1>1, <2>1, <2>2, <2>3 DEF CacheLinked, cacheVars, Entries
  <1>9. PendingOwned'
    BY <1>1, <1>3 DEF PendingOwned, cacheVars, wheelVars
  <1>10. RoutesApart'
    BY <1>1, <1>4, <1>6 DEF RoutesApart, cacheVars
  <1> QED BY <1>2, <1>3, <1>5, <1>8, <1>9, <1>10

(***************************************************************************)
(* ixc_route_match.                                                        *)
(***************************************************************************)
\* The first listed length that has a route of the address: a route of the
\* table, and no listed length in front of it has one.
LEMMA LookupFinds ==
  ASSUME TypeOK, NEW a \in Addrs, Hits(a) # {}
  PROVE  \E i \in Hits(a) : /\ \A j \in Hits(a) : i <= j
                            /\ Lookup(a) = At(a, prefixes[i])
  <1>1. Hits(a) \in SUBSET Nat
    BY DEF Hits, TypeOK
  <1>2. PICK i \in Hits(a) : \A j \in Hits(a) : i <= j
    BY <1>1, LeastNat
  <1> DEFINE x == CHOOSE n \in Hits(a) : \A j \in Hits(a) : n <= j
  <1>3. x \in Hits(a) /\ \A j \in Hits(a) : x <= j
    BY <1>2
  <1>4. Lookup(a) = At(a, prefixes[x])
    BY <1>1 DEF Lookup
  <1> QED BY <1>3, <1>4

LEMMA AtIsRoute ==
  ASSUME NEW a \in Addrs, NEW p, At(a, p) # NoRoute
  PROVE  \E k \in Keys : k.prefix = p /\ k.net = Masked(a, p) /\ table[k] = At(a, p)
  BY DEF At

LEMMA LookupIsRoute ==
  ASSUME TypeOK, CacheLinked, NEW a \in Addrs, Lookup(a) # NoRoute
  PROVE  Lookup(a) \in routes /\ ~invalid[Lookup(a)]
  <1>1. PICK i \in Hits(a) : Lookup(a) = At(a, prefixes[i])
    BY LookupFinds DEF Lookup
  <1>2. PICK k \in Keys : table[k] = Lookup(a)
    BY <1>1, AtIsRoute
  <1> QED BY <1>2 DEF CacheLinked

\* ixc_route_cache_get deletes at most the entry of the address, which is
\* never the last reference it frees a route with.
StaleTo(a)   == [d \in Data |-> IF d \in Stale(a) THEN NoRoute ELSE to[d]]
StaleAddr(a) == [d \in Data |-> IF d \in Stale(a) THEN NoAddr ELSE addr[d]]

LEMMA GotLinks ==
  ASSUME RouteSound, NEW a \in Addrs, ~Hit(a)
  PROVE  /\ RoutesGot(a) = routes /\ InvalidGot(a) = invalid
         /\ Stale(a) = IF cache[a] = NoCache THEN {} ELSE {cache[a]}
         /\ Stale(a) \subseteq live
         /\ LinksOK([cache EXCEPT ![a] = NoCache], live \ Stale(a), StaleTo(a), StaleAddr(a),
                    RefsGot(a))
  <1>1. /\ LinksOK(cache, live, to, addr, refs) /\ routes \subseteq Routes
        /\ cache \in [Addrs -> Data \cup {NoCache}] /\ to \in [Data -> Routes \cup {NoRoute}]
        /\ addr \in [Data -> Addrs \cup {NoAddr}] /\ NoCache \notin Data
    BY LinksHold, NullsAssumption DEF RouteSound, TypeOK
  <1>2. CASE cache[a] = NoCache
    <2>1. Stale(a) = {} /\ live \ Stale(a) = live
      BY <1>2 DEF Stale
    <2>2. StaleTo(a) = to /\ StaleAddr(a) = addr /\ [cache EXCEPT ![a] = NoCache] = cache
      BY <1>1, <1>2, <2>1 DEF StaleTo, StaleAddr
    <2>3. RoutesGot(a) = routes /\ InvalidGot(a) = invalid /\ RefsGot(a) = refs
      BY <2>1 DEF RoutesGot, InvalidGot, RefsGot
    <2> QED BY <1>1, <1>2, <2>1, <2>2, <2>3
  <1>3. CASE cache[a] # NoCache
    <2>1. Stale(a) = {cache[a]}
      BY <1>3 DEF Stale, Hit
    <2>2. PICK c \in live : c = cache[a]
      BY <1>1, <1>3 DEF LinksOK
    <2>3. addr[c] = a /\ c \in Data
      BY <1>1, <1>3, <2>2 DEF LinksOK
    <2>4. StaleTo(a) = [to EXCEPT ![c] = NoRoute] /\ StaleAddr(a) = [addr EXCEPT ![c] = NoAddr]
      BY <1>1, <2>1, <2>2 DEF StaleTo, StaleAddr
    <2>5. to[c] \in Routes /\ refs[to[c]] > 0
      BY <1>1, EntryIsCounted
    <2>6. ~LastOf(c)
      BY <2>5 DEF LastOf
    <2>7. RoutesGot(a) = routes /\ InvalidGot(a) = invalid
          /\ RefsGot(a) = [refs EXCEPT ![to[c]] = @ - 1]
      BY <2>1, <2>2, <2>6 DEF RoutesGot, InvalidGot, RefsGot, RoutesWithout, InvalidWithout, RefsWithout
    <2>8. LinksOK([cache EXCEPT ![addr[c]] = NoCache], live \ {c}, [to EXCEPT ![c] = NoRoute],
                  [addr EXCEPT ![c] = NoAddr], [refs EXCEPT ![to[c]] = @ - 1])
      BY <1>1, LinksRemove
    <2> QED BY <1>3, <2>1, <2>2, <2>3, <2>4, <2>7, <2>8
  <1> QED BY <1>2, <1>3


\* ... and its callback, which is cancelled if it is still to come.
LEMMA GotPending ==
  ASSUME RouteSound, NEW a \in Addrs
  PROVE  /\ FlagsGot(a) \in [Nodes -> BOOLEAN]
         /\ {n \in Listed \cup todo : ~FlagsGot(a)[n]} =
              {n \in Pending : \A c \in Stale(a) : n # tdata[c]}
  <1>1. /\ Listed \cup todo \subseteq Nodes /\ del \in [Nodes -> BOOLEAN]
        /\ tdata \in [Data -> Nodes \cup {NoNode}]
    BY PendingTypes DEF RouteSound, TypeOK, WheelTypeOK
  <1>2. FlagsGot(a) \in [Nodes -> BOOLEAN]
    BY <1>1 DEF FlagsGot
  <1>3. \A n \in Listed \cup todo : ~FlagsGot(a)[n] <=> ~del[n] /\ \A c \in Stale(a) : n # tdata[c]
    BY <1>1 DEF FlagsGot
  <1> QED BY <1>2, <1>3 DEF Pending

LEMMA DropKeepsSound ==
  ASSUME RouteSound, NEW a \in Addrs, Drop(a)
  PROVE  RouteSound'
  <1>1. ~Hit(a)
    BY DEF Drop, Stale, Hit
  <1>2. /\ routes' = routes /\ invalid' = invalid /\ UNCHANGED tableVars
        /\ live' = live \ Stale(a) /\ cache' = [cache EXCEPT ![a] = NoCache]
        /\ to' = StaleTo(a) /\ addr' = StaleAddr(a) /\ refs' = RefsGot(a)
        /\ Stale(a) \subseteq live
    BY <1>1, GotLinks DEF Drop, StaleTo, StaleAddr
  <1>3. LinksOK(cache', live', to', addr', refs')
    BY <1>1, <1>2, GotLinks
  <1>4. /\ tdata' = [d \in Data |-> IF d \in Stale(a) THEN NoNode ELSE tdata[d]]
        /\ data' = data /\ del' = FlagsGot(a)
        /\ UNCHANGED <<slots, data, heap, empty, clockVars, walkVars>>
    BY DEF Drop
  <1>5. WheelSound' /\ Pending' = {n \in Pending : \A c \in Stale(a) : n # tdata[c]}
    <2>1. WheelSound' /\ Pending' = {n \in Listed \cup todo : ~FlagsGot(a)[n]}
      BY <1>4, GotPending, SoundCancel DEF RouteSound
    <2> QED BY <2>1, GotPending
  <1>6. OwnedOK(tdata', live', Pending', data')
    <2>1. live \subseteq Data /\ \A n \in Pending : data[n] \in live /\ tdata[data[n]] = n
      BY DEF RouteSound, PendingOwned, TypeOK
    <2> QED BY <1>2, <1>4, <1>5, <2>1 DEF OwnedOK
  <1>7. /\ tdata' \in [Data -> Nodes \cup {NoNode}] /\ age' \in [Data -> Int] /\ held' \in [Data -> Int]
    BY <1>4 DEF Drop, RouteSound, TypeOK
  <1> QED BY <1>2, <1>3, <1>5, <1>6, <1>7, Assemble

LEMMA RememberKeepsSound ==
  ASSUME RouteSound, NEW a \in Addrs, NEW c \in Data, NEW m \in Nodes, Remember(a, c, m)
  PROVE  RouteSound'
  <1> DEFINE r == Lookup(a)
  <1>1. ~Hit(a) /\ r # NoRoute /\ RefsGot(a)[r] < MaxRefs /\ c \notin live \ Stale(a)
        /\ ArmAfter(FlagsGot(a), m, c, FALSE)
    BY DEF Remember
  <1>2. r \in routes /\ routes \subseteq Routes
    BY <1>1, LookupIsRoute DEF RouteSound, TypeOK
  <1>3. LinksOK([cache EXCEPT ![a] = NoCache], live \ Stale(a), StaleTo(a), StaleAddr(a), RefsGot(a))
    BY <1>1, GotLinks
  <1>4. LinksOK([[cache EXCEPT ![a] = NoCache] EXCEPT ![a] = c], (live \ Stale(a)) \cup {c},
                [StaleTo(a) EXCEPT ![c] = r], [StaleAddr(a) EXCEPT ![c] = a],
                [RefsGot(a) EXCEPT ![r] = @ + 1])
    <2>1. [cache EXCEPT ![a] = NoCache][a] = NoCache
      BY DEF RouteSound, TypeOK
    <2> HIDE DEF r
    <2> QED BY <1>1, <1>2, <1>3, <2>1, LinksAdd
  <1>5. /\ routes' = routes /\ invalid' = invalid /\ UNCHANGED tableVars
        /\ live' = (live \ Stale(a)) \cup {c}
        /\ cache' = [[cache EXCEPT ![a] = NoCache] EXCEPT ![a] = c]
        /\ to' = [StaleTo(a) EXCEPT ![c] = r] /\ addr' = [StaleAddr(a) EXCEPT ![c] = a]
        /\ refs' = [RefsGot(a) EXCEPT ![r] = @ + 1]
    <2>1. routes' = routes /\ invalid' = invalid /\ UNCHANGED tableVars
          /\ live' = (live \ Stale(a)) \cup {c} /\ refs' = [RefsGot(a) EXCEPT ![r] = @ + 1]
      BY <1>1, GotLinks DEF Remember
    <2>2. cache' = [[cache EXCEPT ![a] = NoCache] EXCEPT ![a] = c]
      BY DEF Remember, RouteSound, TypeOK
    <2>3. to' = [StaleTo(a) EXCEPT ![c] = r]
      BY DEF Remember, StaleTo
    <2>4. addr' = [StaleAddr(a) EXCEPT ![c] = a]
      BY DEF Remember, StaleAddr
    <2> QED BY <2>1, <2>2, <2>3, <2>4
  <1>6. LinksOK(cache', live', to', addr', refs')
    BY <1>4, <1>5
  <1>7. /\ tdata' = [d \in Data |-> IF d = c THEN m ELSE IF d \in Stale(a) THEN NoNode ELSE tdata[d]]
        /\ data' = [data EXCEPT ![m] = c]
    BY <1>1 DEF Remember, ArmAfter
  <1>8. /\ WheelSound' /\ m \notin Pending
        /\ Pending' \subseteq {n \in Pending : \A x \in Stale(a) : n # tdata[x]} \cup {m}
    <2>1. /\ WheelSound' /\ m \notin Listed /\ m \notin todo
          /\ Pending' \subseteq {n \in Listed \cup todo : ~FlagsGot(a)[n]} \cup {m}
      BY <1>1, GotPending, SoundArmAfter DEF RouteSound
    <2> QED BY <2>1, GotPending DEF Pending
  <1>9. OwnedOK(tdata', live', Pending', data')
    <2>1. /\ live \subseteq Data /\ data \in [Nodes -> Data \cup {NoData}] /\ Pending \subseteq Nodes
          /\ \A n \in Pending : data[n] \in live /\ tdata[data[n]] = n
      BY PendingTypes DEF RouteSound, PendingOwned, TypeOK, WheelTypeOK
    <2> SUFFICES ASSUME NEW n \in Pending' PROVE data'[n] \in live' /\ tdata'[data'[n]] = n
      BY DEF OwnedOK
    <2>2. CASE n = m
      BY <1>5, <1>7, <2>1, <2>2
    <2>3. CASE n # m
      <3>1. n \in Pending /\ data'[n] = data[n] /\ \A x \in Stale(a) : n # tdata[x]
        BY <1>7, <1>8, <2>1, <2>3
      <3>2. data[n] \in live \ Stale(a) /\ data[n] # c
        BY <1>1, <2>1, <3>1
      <3> QED BY <1>5, <1>7, <2>1, <3>1, <3>2
    <2> QED BY <2>2, <2>3
  <1>10. /\ tdata' \in [Data -> Nodes \cup {NoNode}] /\ age' \in [Data -> Int] /\ held' \in [Data -> Int]
    BY <1>7 DEF Remember, RouteSound, TypeOK
  <1> QED BY <1>5, <1>6, <1>8, <1>9, <1>10, Assemble

LEMMA RouteSoundInit ==
  ASSUME Init PROVE RouteSound
  <1>1. WheelSound /\ Pending = {}
    BY SoundInit DEF Init
  <1>2. TypeOK
    BY <1>1, CacheAssumption DEF Init, TypeOK, WheelSound
  <1>3. CacheLinked
    <2>1. \A r \in Routes : Entries(r) = {}
      BY DEF Init, Entries
    <2> QED BY <2>1, FS_EmptySet DEF Init, CacheLinked
  <1>4. PendingOwned
    BY <1>1 DEF PendingOwned
  <1>5. RoutesApart
    BY FS_EmptySet DEF Init, RoutesApart
  <1>6. ListOK
    <2>1. \A p \in Prefixes : Routed(p) = {} /\ uses[p] = 0
      BY DEF Init, Routed
    <2>2. Len(prefixes) = 0
      BY DEF Init
    <2> QED BY <2>1, <2>2, FS_EmptySet DEF ListOK
  <1> QED BY <1>1, <1>2, <1>3, <1>4, <1>5, <1>6 DEF RouteSound

LEMMA RouteSoundNext ==
  ASSUME RouteSound, [Next]_vars PROVE RouteSound'
  <1>1. CASE Operator
    BY <1>1, RouteAddKeepsSound, RouteDelKeepsSound DEF Operator
  <1>2. CASE Packet
    BY <1>2, DropKeepsSound, RememberKeepsSound DEF Packet
  <1>3. CASE Wheel
    BY <1>3, WheelKeepsSound
  <1>4. CASE Time
    BY <1>4, TimeKeepsSound
  <1>5. CASE UNCHANGED vars
    <2>1. WheelSound' /\ Pending' = Pending
      BY <1>5, SoundStutter DEF vars, RouteSound
    <2> QED BY <1>5, <2>1, QuietKeepsSound DEF vars, cacheVars, wheelVars, RouteSound, TypeOK
  <1> QED BY <1>1, <1>2, <1>3, <1>4, <1>5 DEF Next

\* The part of the invariant that a loop held up for any time keeps
\* (route.c): types, wheel, links between entries, routes and callbacks, and
\* the list of lengths.
THEOREM RouteSoundAlways ==
  Spec => []RouteSound
  BY RouteSoundInit, RouteSoundNext, PTL DEF Spec

\* The state of table, cache and wheel stays within its types.
THEOREM RouteTypeCorrect ==
  Spec => []TypeOK
  BY RouteSoundAlways, PTL DEF RouteSound

\* Table, cache and counts describe one structure, so that no packet is sent
\* along a route that was freed (ixc_route_match, ixc_route_cache_del_cb).
THEOREM RouteCacheLinked ==
  Spec => []CacheLinked
  BY RouteSoundAlways, PTL DEF RouteSound

\* ixc_route_cache_timeout is never called with an entry that was freed.
THEOREM RouteNoStrayCallback ==
  Spec => []PendingOwned
  BY RouteSoundAlways, PTL DEF RouteSound

(***************************************************************************)
(* Without stalls every entry has a callback to come as well.              *)
(***************************************************************************)
\* Steps of the wheel that leave entries and callbacks alone.
LEMMA TimedSame ==
  ASSUME RouteInv, Pending' = Pending, \A n \in Pending : data'[n] = data[n],
         UNCHANGED <<live, tdata>>
  PROVE  EntriesTimed'
  BY DEF RouteInv, EntriesTimed

LEMMA ForgetTimed ==
  ASSUME RouteInv, NEW n \in todo, FireOnly(n), Forget(data[n])
  PROVE  WheelInv' /\ EntriesTimed'
  <1> DEFINE c == data[n]
  <1>1. WheelInv' /\ n \in Pending /\ Pending' = Pending \ {n}
    BY FireOnlyStep DEF RouteInv
  <1>2. c \in live /\ tdata[c] = n
    BY <1>1 DEF RouteInv, RouteSound, PendingOwned
  <1>3. live' = live \ {c} /\ tdata' = [tdata EXCEPT ![c] = NoNode]
    BY <1>2, ForgetAll DEF RouteInv
  <1>4. /\ tdata \in [Data -> Nodes \cup {NoNode}] /\ live \in SUBSET Data
        /\ data \in [Nodes -> Data \cup {NoData}] /\ Pending \subseteq Nodes
    BY PendingTypes DEF RouteInv, RouteSound, TypeOK, WheelTypeOK
  <1>5. \A x \in live' : /\ tdata'[x] = tdata[x] /\ tdata[x] \in Pending /\ tdata[x] # n
                         /\ data'[tdata[x]] = x
    BY <1>1, <1>3, <1>4 DEF RouteInv, EntriesTimed, FireOnly
  <1> QED BY <1>1, <1>5 DEF EntriesTimed

LEMMA RearmTimed ==
  ASSUME RouteInv, NEW n \in todo, NEW m \in Nodes, Rearm(n, m)
  PROVE  WheelInv' /\ EntriesTimed'
  <1> DEFINE c == data[n]
  <1>1. FireRearm(n, m)
    BY DEF Rearm
  <1>2. WheelInv' /\ n \in Pending /\ m \notin Pending /\ Pending' = (Pending \ {n}) \cup {m}
    BY <1>1, FireRearmStep DEF RouteInv
  <1>3. c \in live /\ tdata[c] = n
    BY <1>2 DEF RouteInv, RouteSound, PendingOwned
  <1>4. /\ tdata' = [tdata EXCEPT ![c] = m] /\ data' = [data EXCEPT ![m] = c, ![n] = NoData]
        /\ live' = live
    BY <1>1 DEF Rearm, FireRearm
  <1>5. /\ tdata \in [Data -> Nodes \cup {NoNode}] /\ live \in SUBSET Data
        /\ data \in [Nodes -> Data \cup {NoData}] /\ Pending \subseteq Nodes
    BY PendingTypes DEF RouteInv, RouteSound, TypeOK, WheelTypeOK
  <1>6. ASSUME NEW x \in live' PROVE tdata'[x] \in Pending' /\ data'[tdata'[x]] = x
    BY <1>2, <1>3, <1>4, <1>5 DEF RouteInv, EntriesTimed
  <1> QED BY <1>2, <1>6 DEF EntriesTimed

LEMMA WheelTimed ==
  ASSUME RouteInv, NoStall, Wheel PROVE WheelInv' /\ EntriesTimed'
  <1>1. CASE Handle
    <2>1. WheelInv' /\ Pending' = Pending
      BY <1>1, HandleBeginStep DEF Handle, RouteInv
    <2> QED BY <1>1, <2>1, TimedSame DEF Handle, HandleBegin, nodeVars, cacheVars
  <1>2. CASE NextSlot
    <2>1. WheelInv' /\ Pending' = Pending
      BY <1>2, SlotDoneStep DEF NextSlot, RouteInv
    <2> QED BY <1>2, <2>1, TimedSame DEF NextSlot, SlotDone, cacheVars
  <1>3. ASSUME NEW n \in Nodes, Skip(n) PROVE WheelInv' /\ EntriesTimed'
    <2>1. n \in todo /\ del[n] /\ SkipDeleted(n)
      BY <1>3 DEF Skip, SkipDeleted
    <2>2. WheelInv' /\ Pending' = Pending
      BY <2>1, SkipDeletedStep DEF RouteInv
    <2>3. \A x \in Pending : data'[x] = data[x]
      BY <2>1, PendingTypes DEF SkipDeleted, Pending, RouteInv, RouteSound, TypeOK, WheelTypeOK
    <2> QED BY <1>3, <2>2, <2>3, TimedSame DEF Skip, cacheVars
  <1>4. ASSUME NEW n \in Nodes, Expire(n) \/ RearmNoMemory(n) PROVE WheelInv' /\ EntriesTimed'
    BY <1>4, ForgetTimed DEF Expire, RearmNoMemory
  <1>5. ASSUME NEW n \in Nodes, NEW m \in Nodes, Rearm(n, m) PROVE WheelInv' /\ EntriesTimed'
    BY <1>5, RearmTimed DEF Rearm
  <1> QED BY <1>1, <1>2, <1>3, <1>4, <1>5 DEF Wheel, Fire

\* A stale entry's callback is that of no other entry.
LEMMA GotTimed ==
  ASSUME RouteInv, NEW a \in Addrs, NEW x \in live \ Stale(a)
  PROVE  /\ tdata[x] \in {n \in slots[cur] \cup todo : ~FlagsGot(a)[n]}
         /\ tdata[x] \in Pending /\ data[tdata[x]] = x
  <1>1. tdata[x] \in Pending /\ data[tdata[x]] = x
    BY DEF RouteInv, EntriesTimed
  <1>2. \A c \in Stale(a) : c \in live
    BY DEF Stale, RouteInv, RouteSound, CacheLinked
  <1>3. \A c \in Stale(a) : tdata[x] # tdata[c]
    BY <1>1, <1>2 DEF RouteInv, EntriesTimed
  <1>4. tdata[x] \in {n \in Listed \cup todo : ~FlagsGot(a)[n]}
    BY <1>1, <1>3, GotPending DEF RouteInv
  <1>5. Listed = slots[cur]
    BY ListedIsCur DEF RouteInv
  <1> QED BY <1>1, <1>4, <1>5

LEMMA PacketTimed ==
  ASSUME RouteInv, Packet PROVE WheelInv' /\ EntriesTimed'
  <1>1. ASSUME NEW a \in Addrs, Drop(a) PROVE WheelInv' /\ EntriesTimed'
    <2>1. /\ del' = FlagsGot(a) /\ UNCHANGED <<slots, data, heap, empty, clockVars, walkVars>>
          /\ live' = live \ Stale(a)
          /\ \A x \in Data \ Stale(a) : tdata'[x] = tdata[x]
      BY <1>1 DEF Drop
    <2>2. WheelInv' /\ Pending' = {n \in slots[cur] \cup todo : ~FlagsGot(a)[n]}
      BY <2>1, GotPending, CancelStep DEF RouteInv
    <2>3. live \subseteq Data
      BY DEF RouteInv, RouteSound, TypeOK
    <2>4. ASSUME NEW x \in live' PROVE tdata'[x] \in Pending' /\ data'[tdata'[x]] = x
      BY <2>1, <2>2, <2>3, GotTimed
    <2> QED BY <2>2, <2>4 DEF EntriesTimed
  <1>2. ASSUME NEW a \in Addrs, NEW c \in Data, NEW m \in Nodes, Remember(a, c, m)
        PROVE  WheelInv' /\ EntriesTimed'
    <2>1. /\ ArmAfter(FlagsGot(a), m, c, FALSE) /\ live' = (live \ Stale(a)) \cup {c}
          /\ c \notin live \ Stale(a)
          /\ tdata' = [d \in Data |-> IF d = c THEN m ELSE IF d \in Stale(a) THEN NoNode ELSE tdata[d]]
      BY <1>2 DEF Remember
    <2>2. data' = [data EXCEPT ![m] = c]
      BY <2>1 DEF ArmAfter
    <2> DEFINE pend == {n \in slots[cur] \cup todo : ~FlagsGot(a)[n]}
    <2>3. WheelInv' /\ m \notin pend /\ Pending' = pend \cup {m}
      BY <2>1, GotPending, ArmAfterStep DEF RouteInv
    <2>4. live \subseteq Data /\ data \in [Nodes -> Data \cup {NoData}]
      BY DEF RouteInv, RouteSound, TypeOK, WheelTypeOK
    <2>5. ASSUME NEW x \in live' PROVE tdata'[x] \in Pending' /\ data'[tdata'[x]] = x
      <3>1. CASE x = c
        BY <2>1, <2>2, <2>3, <2>4, <3>1
      <3>2. CASE x # c
        <4>1. x \in live \ Stale(a) /\ tdata'[x] = tdata[x]
          BY <2>1, <2>4, <3>2
        <4>2. tdata[x] \in pend /\ tdata[x] \in Pending /\ data[tdata[x]] = x
          BY <4>1, GotTimed
        <4>3. tdata[x] \in Nodes
          BY <4>2, PendingTypes DEF RouteInv, RouteSound, TypeOK
        <4> HIDE DEF pend
        <4> QED BY <2>2, <2>3, <2>4, <4>1, <4>2, <4>3
      <3> QED BY <3>1, <3>2
    <2> QED BY <2>3, <2>5 DEF EntriesTimed
  <1> QED BY <1>1, <1>2 DEF Packet

LEMMA RouteInvInit ==
  ASSUME Init PROVE RouteInv
  <1>1. WheelInv
    BY InitStep DEF Init
  <1>2. EntriesTimed
    BY DEF Init, EntriesTimed
  <1> QED BY <1>1, <1>2, RouteSoundInit DEF RouteInv

LEMMA RouteInvNext ==
  ASSUME RouteInv, NoStall, [Next]_vars PROVE RouteInv'
  <1> SUFFICES WheelInv' /\ EntriesTimed'
    BY RouteSoundNext DEF RouteInv
  <1>1. CASE Operator \/ UNCHANGED vars
    <2>1. UNCHANGED <<wheelVars, live, tdata>>
      BY <1>1 DEF Operator, RouteAdd, RouteDel, cacheVars, vars
    <2>2. WheelInv' /\ Pending' = Pending /\ data' = data
      BY <2>1, StutterStep DEF RouteInv, wheelVars
    <2> QED BY <2>1, <2>2, TimedSame
  <1>2. CASE Time
    <2>1. PICK d \in ClockSteps : Elapse(d)
      BY <1>2 DEF Time
    <2>2. d \in Int /\ ClockStep(d) /\ UNCHANGED <<live, tdata>>
      BY <2>1, ClockAssumption DEF Elapse
    <2>3. WheelInv' /\ Pending' = Pending /\ data' = data
      BY <2>2, ClockStepStep DEF RouteInv, ClockStep, nodeVars
    <2> QED BY <2>2, <2>3, TimedSame
  <1> QED BY <1>1, <1>2, PacketTimed, WheelTimed DEF Next

\* The whole invariant, which a loop that is not held up for a turn of the
\* ring keeps.
THEOREM RouteInvAlways ==
  ASSUME NoStall PROVE Spec => []RouteInv
  BY RouteInvInit, RouteInvNext, PTL DEF Spec

\* Every entry has exactly one timer to come and no freed entry has one.
THEOREM RouteTimersMatch ==
  ASSUME NoStall PROVE Spec => []TimersMatchEntries
  <1>1. RouteInv => TimersMatchEntries
    BY DEF RouteInv, RouteSound, EntriesTimed, PendingOwned, TimersMatchEntries
  <1> QED BY <1>1, RouteInvAlways, PTL

(***************************************************************************)
(* How long a stale answer lasts.  An entry was armed in the current slot, *)
(* so that it is looked at in the next walk; what is older than the cache  *)
(* timeout then goes.                                                      *)
(***************************************************************************)
AgeInv ==
  /\ left > 0 => lag = 0
  /\ \A c \in live : age[c] = held[c] /\ held[c] < Patience + MaxLag
  /\ \A c \in live : tdata[c] \in slots[cur] => held[c] - lag < Patience

LEMMA PatienceType ==
  /\ Patience \in Nat /\ Patience > MaxBack /\ Patience >= CacheTimeout
  /\ MaxBack \in Nat /\ MaxLag \in Nat /\ CacheTimeout \in Nat
  BY CacheAssumption, ClockAssumption DEF Patience

LEMMA AgeInvInit ==
  ASSUME Init PROVE AgeInv
  BY DEF Init, WheelInit, AgeInv

LEMMA AgeSame ==
  ASSUME AgeInv, UNCHANGED <<left, lag, age, held, tdata, slots, cur>>, live' \subseteq live
  PROVE  AgeInv'
  BY PatienceType DEF AgeInv

LEMMA AgeWheel ==
  ASSUME RouteInv, NoStall, AgeInv, Wheel PROVE AgeInv'
  <1>1. /\ \A c \in live : held[c] \in Int /\ c \in Data /\ tdata[c] \in Pending
        /\ lag \in Int /\ Pending \subseteq Nodes /\ cur \in Slots
        /\ slots \in [Slots -> SUBSET Nodes] /\ tdata \in [Data -> Nodes \cup {NoNode}]
    BY PendingTypes, ClockAssumption DEF RouteInv, RouteSound, TypeOK, WheelTypeOK, EntriesTimed
  <1>2. CASE Handle
    <2>1. slots'[cur'] = {}
      BY <1>2, HandleBeginStep DEF Handle, RouteInv
    <2>2. lag' = 0 /\ UNCHANGED <<live, age, held, tdata>>
      BY <1>2 DEF Handle, HandleBegin, cacheVars
    <2> QED BY <2>1, <2>2, PatienceType DEF AgeInv
  <1>3. CASE NextSlot
    <2>1. /\ UNCHANGED <<cur, lag, live, age, held, tdata>> /\ slots'[cur] \subseteq slots[cur]
          /\ left > 0
      BY <1>1, <1>3 DEF NextSlot, SlotDone, cacheVars
    <2> QED BY <2>1, PatienceType DEF AgeInv
  <1>4. ASSUME NEW n \in Nodes, Skip(n) PROVE AgeInv'
    BY <1>4, AgeSame DEF Skip, SkipDeleted, cacheVars
  <1>5. ASSUME NEW n \in Nodes, n \in todo, FireOnly(n), Forget(data[n]) PROVE AgeInv'
    <2>1. PICK c \in live : c = data[n]
      BY <1>5, FireOnlyStep DEF RouteInv, RouteSound, PendingOwned
    <2>2. /\ live' = live \ {c} /\ tdata' = [tdata EXCEPT ![c] = NoNode]
          /\ age' = [age EXCEPT ![c] = 0] /\ held' = [held EXCEPT ![c] = 0]
      BY <1>5, <2>1, ForgetAll DEF RouteInv
    <2>3. \A x \in live' : x \in live /\ tdata'[x] = tdata[x] /\ age'[x] = age[x] /\ held'[x] = held[x]
      BY <1>1, <2>2 DEF RouteInv, RouteSound, TypeOK
    <2>4. UNCHANGED <<left, lag, slots, cur>>
      BY <1>5 DEF FireOnly
    <2> QED BY <2>3, <2>4, PatienceType DEF AgeInv
  <1>6. ASSUME NEW n \in Nodes, NEW m \in Nodes, Rearm(n, m) PROVE AgeInv'
    <2>1. n \in todo /\ FireRearm(n, m) /\ Fresh(data[n])
      BY <1>6 DEF Rearm
    <2>2. n \in Pending /\ m \notin Pending
      BY <2>1, FireRearmStep DEF RouteInv
    <2>3. PICK c \in live : c = data[n]
      BY <2>2 DEF RouteInv, RouteSound, PendingOwned
    <2>4. /\ tdata' = [tdata EXCEPT ![c] = m] /\ slots'[cur'] = slots[cur] \cup {m}
          /\ UNCHANGED <<left, lag, cur, live, age, held>>
      BY <1>1, <1>6, <2>1, <2>3, SlotForIsCur DEF Rearm, FireRearm, RouteInv, WheelInv
    <2>5. lag = 0
      <3>1. left # 0 /\ left \in Nat
        BY <2>1 DEF RouteInv, WheelInv, WalkOK, WheelTypeOK
      <3> QED BY <3>1 DEF AgeInv
    <2>6. held[c] < CacheTimeout
      BY <2>1, <2>3 DEF Fresh, AgeInv
    <2>7. ASSUME NEW x \in live', tdata'[x] \in slots'[cur'] PROVE held'[x] - lag' < Patience
      <3>1. CASE x = c
        BY <1>1, <2>3, <2>4, <2>5, <2>6, <3>1, PatienceType
      <3>2. CASE x # c
        <4>1. x \in live /\ tdata'[x] = tdata[x] /\ tdata[x] # m
          BY <1>1, <2>2, <2>4, <3>2
        <4>2. tdata[x] \in slots[cur] /\ held'[x] = held[x] /\ lag' = lag
          BY <2>4, <2>7, <4>1
        <4> QED BY <4>1, <4>2 DEF AgeInv
      <3> QED BY <3>1, <3>2
    <2> QED BY <2>4, <2>7, PatienceType DEF AgeInv
  <1> QED BY <1>2, <1>3, <1>4, <1>5, <1>6 DEF Wheel, Fire, Expire, RearmNoMemory

LEMMA AgeTime ==
  ASSUME RouteInv, AgeInv, Time PROVE AgeInv'
  <1>1. PICK d \in ClockSteps : Elapse(d)
    BY DEF Time
  <1>2. /\ left = 0 /\ lag' = lag + d /\ lag' <= MaxLag /\ d \in Int /\ lag \in Int
        /\ age' = Older(age, d) /\ held' = Older(held, d)
        /\ UNCHANGED <<left, live, tdata, slots, cur>>
    BY <1>1, ClockAssumption
       DEF Elapse, ClockStep, Outside, nodeVars, walkVars, RouteInv, RouteSound, TypeOK, WheelTypeOK
  <1>3. ASSUME NEW c \in live'
        PROVE  age'[c] = held'[c] /\ held'[c] < Patience + MaxLag /\ held'[c] - lag' < Patience
    <2>1. c \in live /\ c \in Data /\ tdata[c] \in slots[cur] /\ held[c] \in Int
      <3>1. Pending = {n \in slots[cur] \cup todo : ~del[n]} /\ todo = {}
        BY <1>2, PendingIsCurOrTodo DEF RouteInv, WheelInv, WalkOK
      <3> QED BY <1>2, <3>1 DEF RouteInv, RouteSound, EntriesTimed, TypeOK
    <2>2. age[c] = held[c] /\ held[c] - lag < Patience
      BY <2>1 DEF AgeInv
    <2>3. held'[c] = IF held[c] + d > AgeCap THEN AgeCap ELSE held[c] + d
      BY <1>2, <2>1 DEF Older
    <2>4. age'[c] = held'[c]
      BY <1>2, <2>1, <2>2 DEF Older
    <2>5. held'[c] <= held[c] + d /\ held'[c] \in Int
      BY <1>2, <2>1, <2>3, AgeCapAssumption
    <2> QED BY <1>2, <2>1, <2>2, <2>4, <2>5, PatienceType
  <1> QED BY <1>2, <1>3 DEF AgeInv

LEMMA AgePacket ==
  ASSUME RouteInv, AgeInv, Packet PROVE AgeInv'
  <1>1. /\ \A c \in live : held[c] \in Int /\ c \in Data /\ tdata[c] \in Pending
        /\ lag \in Int /\ lag >= -MaxBack /\ live \subseteq Data
        /\ Pending = {n \in slots[cur] \cup todo : ~del[n]}
    BY PendingIsCurOrTodo, PatienceType DEF RouteInv, RouteSound, TypeOK, WheelTypeOK, EntriesTimed
  <1>2. ASSUME NEW a \in Addrs, Drop(a) PROVE AgeInv'
    <2>1. UNCHANGED <<left, lag, slots, cur>> /\ live' = live \ Stale(a)
      BY <1>2 DEF Drop, clockVars, walkVars
    <2>2. \A x \in live' : x \in live /\ tdata'[x] = tdata[x] /\ age'[x] = age[x] /\ held'[x] = held[x]
      BY <1>1, <1>2, <2>1 DEF Drop
    <2> QED BY <2>1, <2>2, PatienceType DEF AgeInv
  <1>3. ASSUME NEW a \in Addrs, NEW c \in Data, NEW m \in Nodes, Remember(a, c, m) PROVE AgeInv'
    <2>1. ArmAfter(FlagsGot(a), m, c, FALSE) /\ ~Hit(a)
      BY <1>3 DEF Remember
    <2>2. m \notin slots[cur] /\ m \notin todo /\ slots'[cur'] = slots[cur] \cup {m}
      BY <2>1, GotPending, ArmAfterStep DEF RouteInv
    <2>3. UNCHANGED <<left, lag, cur>> /\ live' = (live \ Stale(a)) \cup {c}
      BY <1>3, <2>1 DEF Remember, ArmAfter, clockVars, walkVars
    <2>4. age'[c] = 0 /\ held'[c] = 0 /\ tdata'[c] = m
      BY <1>3 DEF Remember
    <2>5. ASSUME NEW x \in live', x # c
          PROVE  x \in live /\ tdata'[x] = tdata[x] /\ age'[x] = age[x] /\ held'[x] = held[x]
                 /\ tdata[x] # m
      <3>1. x \in live \ Stale(a)
        BY <2>3, <2>5
      <3> QED BY <1>1, <1>3, <2>2, <2>5, <3>1 DEF Remember
    <2>6. ASSUME NEW x \in live', tdata'[x] \in slots'[cur'] PROVE held'[x] - lag' < Patience
      <3>1. CASE x = c
        BY <1>1, <2>3, <2>4, <3>1, PatienceType
      <3>2. CASE x # c
        BY <2>2, <2>3, <2>5, <2>6, <3>2 DEF AgeInv
      <3> QED BY <3>1, <3>2
    <2>7. ASSUME NEW x \in live' PROVE age'[x] = held'[x] /\ held'[x] < Patience + MaxLag
      <3>1. CASE x = c
        BY <2>4, <3>1, PatienceType
      <3>2. CASE x # c
        BY <2>5, <3>2 DEF AgeInv
      <3> QED BY <3>1, <3>2
    <2> QED BY <2>3, <2>6, <2>7 DEF AgeInv
  <1> QED BY <1>2, <1>3 DEF Packet

LEMMA AgeInvNext ==
  ASSUME RouteInv, NoStall, AgeInv, [Next]_vars PROVE AgeInv'
  <1>1. CASE Operator \/ UNCHANGED vars
    BY <1>1, AgeSame DEF Operator, RouteAdd, RouteDel, vars, wheelVars, cacheVars
  <1> QED BY <1>1, AgePacket, AgeWheel, AgeTime DEF Next

\* A packet is not sent along a route that a better one replaced for longer
\* than the cache timeout and one gap between turns (ixc_route_match,
\* ixc_route_cache_timeout).
THEOREM RouteStaleBounded ==
  ASSUME NoStall PROVE Spec => []StaleBounded
  <1>1. RouteInv /\ AgeInv => StaleBounded
    <2> SUFFICES ASSUME RouteInv, AgeInv, NEW a \in Addrs, Match(a) # Lookup(a)
                 PROVE  held[cache[a]] < Patience + MaxLag
      BY DEF StaleBounded
    <2>1. cache[a] \in live
      BY DEF Match, Hit, RouteInv, RouteSound, CacheLinked
    <2> QED BY <2>1 DEF AgeInv
  <1> QED BY <1>1, AgeInvInit, AgeInvNext, RouteInvAlways, PTL DEF Spec

(***************************************************************************)
(* Longest-prefix match.  Table and cache implement RouteTable, in which   *)
(* there is no list of lengths, no count and no timer.                     *)
(***************************************************************************)
\* A subnet of the table that covers the address is at a listed length.
LEMMA MatchingIsHit ==
  ASSUME RouteSound, NEW a \in Addrs, NEW k \in Keys
  PROVE  /\ k \in Table!Matching(a) <=>
              table[k] # NoRoute /\ a \in Addrs /\ Masked(a, k.prefix) = k.net
         /\ k \in Table!Matching(a) =>
              /\ At(a, k.prefix) = table[k]
              /\ \E i \in Hits(a) : prefixes[i] = k.prefix
  <1>1. k \in [net : Addrs, prefix : Prefixes]
    BY KeysAssumption
  <1>2. k \in Table!Matching(a) <=> table[k] # NoRoute /\ Masked(a, k.prefix) = k.net
    BY DEF Table!Matching, Covers
  <1>3. ASSUME k \in Table!Matching(a)
        PROVE  At(a, k.prefix) = table[k] /\ \E i \in Hits(a) : prefixes[i] = k.prefix
    <2>1. table[k] # NoRoute /\ Masked(a, k.prefix) = k.net
      BY <1>2, <1>3
    <2>2. [net |-> Masked(a, k.prefix), prefix |-> k.prefix] = k
      BY <1>1, <2>1
    <2>3. At(a, k.prefix) = table[k]
      BY <2>2 DEF At
    <2>4. uses[k.prefix] > 0
      <3>1. k \in Routed(k.prefix) /\ k.prefix \in Prefixes
        BY <1>1, <2>1 DEF Routed
      <3>2. IsFiniteSet(Routed(k.prefix)) /\ uses[k.prefix] = Cardinality(Routed(k.prefix))
        BY <3>1 DEF RouteSound, ListOK
      <3>3. Cardinality(Routed(k.prefix)) # 0 /\ uses[k.prefix] \in Nat
        BY <3>1, <3>2, FS_EmptySet DEF RouteSound, TypeOK
      <3> QED BY <3>2, <3>3
    <2>5. PICK i \in 1 .. Len(prefixes) : prefixes[i] = k.prefix
      BY <1>1, <2>4 DEF RouteSound, ListOK
    <2>6. i \in Hits(a)
      BY <2>1, <2>3, <2>5 DEF Hits, RouteSound, TypeOK
    <2> QED BY <2>3, <2>5, <2>6
  <1> QED BY <1>2, <1>3

\* The first listed length that has a route of the address is the longest.
LEMMA LookupIsLongest ==
  ASSUME RouteSound, NEW a \in Addrs PROVE Lookup(a) = Table!Longest(a)
  <1>1. \A i \in Hits(a) : \E k \in Table!Matching(a) :
          k \in Keys /\ k.prefix = prefixes[i] /\ table[k] = At(a, prefixes[i])
    <2> SUFFICES ASSUME NEW i \in Hits(a)
                 PROVE  \E k \in Table!Matching(a) :
                          k \in Keys /\ k.prefix = prefixes[i] /\ table[k] = At(a, prefixes[i])
      OBVIOUS
    <2>1. At(a, prefixes[i]) # NoRoute
      BY DEF Hits
    <2>2. PICK k \in Keys : /\ k.prefix = prefixes[i] /\ k.net = Masked(a, prefixes[i])
                            /\ table[k] = At(a, prefixes[i])
      BY <2>1, AtIsRoute
    <2> QED BY <2>1, <2>2, MatchingIsHit
  <1>2. \A k \in Table!Matching(a) : k \in Keys
    BY DEF Table!Matching
  <1>3. CASE Table!Matching(a) = {}
    <2>1. Hits(a) = {}
      BY <1>1, <1>3
    <2> QED BY <1>3, <2>1 DEF Lookup, Table!Longest
  <1>4. CASE Table!Matching(a) # {}
    <2> DEFINE Best(k) == \A j \in Table!Matching(a) : j.prefix <= k.prefix
    <2>1. Hits(a) # {}
      BY <1>2, <1>4, MatchingIsHit
    <2>2. PICK i \in Hits(a) : /\ \A j \in Hits(a) : i <= j
                               /\ Lookup(a) = At(a, prefixes[i])
      BY <2>1, LookupFinds DEF RouteSound
    <2>3. PICK k \in Table!Matching(a) : k \in Keys /\ k.prefix = prefixes[i] /\ table[k] = Lookup(a)
      BY <1>1, <2>2
    <2>4. Best(k)
      <3> SUFFICES ASSUME NEW j \in Table!Matching(a) PROVE j.prefix <= k.prefix
        OBVIOUS
      <3>1. PICK x \in Hits(a) : prefixes[x] = j.prefix
        BY <1>2, MatchingIsHit
      <3>2. /\ i \in 1 .. Len(prefixes) /\ x \in 1 .. Len(prefixes) /\ i <= x
            /\ prefixes[i] \in Nat /\ prefixes[x] \in Nat
        <4>1. TypeOK
          BY DEF RouteSound
        <4>2. i \in 1 .. Len(prefixes) /\ x \in 1 .. Len(prefixes) /\ i <= x
          BY <2>2 DEF Hits
        <4> QED BY <2>3, <4>1, <4>2, PrefixTypes
      <3>3. i = x \/ prefixes[i] > prefixes[x]
        BY <3>2 DEF RouteSound, ListOK
      <3> QED BY <2>3, <3>1, <3>2, <3>3
    <2> DEFINE l == CHOOSE x \in Table!Matching(a) : Best(x)
    <2>5. l \in Table!Matching(a) /\ Best(l)
      BY <2>3, <2>4
    <2>6. Table!Longest(a) = table[l]
      BY <1>4 DEF Table!Longest
    <2> HIDE DEF l
    <2>7. l \in Keys /\ l.prefix \in Nat /\ k.prefix \in Nat
      BY <1>2, <2>3, <2>5, KeysAssumption, WidthAssumption DEF Prefixes
    <2>8. l.prefix = k.prefix
      BY <2>3, <2>4, <2>5, <2>7
    <2>9. table[l] = At(a, l.prefix) /\ table[k] = At(a, k.prefix)
      BY <2>3, <2>5, <2>7, MatchingIsHit
    <2> QED BY <2>3, <2>6, <2>8, <2>9
  <1> QED BY <1>3, <1>4

\* Deleting the entry of an address forgets its answer.
LEMMA ForgetForgets ==
  ASSUME RouteSound, NEW n \in todo, FireOnly(n), Forget(data[n])
  PROVE  \E a \in Addrs : Table!Forget(a)
  <1>1. PICK c \in live : c = data[n]
    BY SoundFireOnly DEF RouteSound, PendingOwned
  <1>2. /\ UNCHANGED <<tableVars, routes, invalid>>
        /\ cache' = [cache EXCEPT ![addr[c]] = NoCache] /\ to' = [to EXCEPT ![c] = NoRoute]
    BY <1>1, ForgetAll DEF Forget
  <1>3. addr[c] \in Addrs /\ cache[addr[c]] = c
    BY DEF RouteSound, CacheLinked
  <1>4. cache \in [Addrs -> Data \cup {NoCache}] /\ to \in [Data -> Routes \cup {NoRoute}]
        /\ \A a \in Addrs : cache[a] # NoCache => addr[cache[a]] = a /\ cache[a] \in Data
    BY DEF RouteSound, TypeOK, CacheLinked
  <1>5. ASSUME NEW a \in Addrs
        PROVE  Answers'[a] = IF a = addr[c] THEN NoRoute ELSE Answers[a]
    <2>1. CASE a = addr[c]
      BY <1>2, <1>4, <2>1 DEF Answers, Hit
    <2>2. CASE a # addr[c]
      <3>1. cache'[a] = cache[a] /\ (cache[a] # NoCache => to'[cache[a]] = to[cache[a]])
        BY <1>2, <1>4, <2>2
      <3> QED BY <1>2, <2>2, <3>1 DEF Answers, Hit
    <2> QED BY <2>1, <2>2
  <1>6. Answers' = [Answers EXCEPT ![addr[c]] = NoRoute]
    BY <1>5 DEF Answers
  <1>7. UNCHANGED table
    BY <1>2 DEF tableVars
  <1> QED BY <1>3, <1>6, <1>7 DEF Table!Forget

LEMMA DropIsQuiet ==
  ASSUME RouteSound, NEW a \in Addrs, Drop(a) PROVE UNCHANGED <<table, Answers>>
  <1>1. ~Hit(a)
    BY DEF Drop, Stale, Hit
  <1>2. /\ invalid' = invalid /\ table' = table /\ cache' = [cache EXCEPT ![a] = NoCache]
        /\ to' = StaleTo(a) /\ Stale(a) = (IF cache[a] = NoCache THEN {} ELSE {cache[a]})
    BY <1>1, GotLinks DEF Drop, StaleTo, tableVars
  <1>3. cache \in [Addrs -> Data \cup {NoCache}]
        /\ \A b \in Addrs : cache[b] # NoCache => addr[cache[b]] = b /\ cache[b] \in Data
    BY DEF RouteSound, TypeOK, CacheLinked
  <1>4. ASSUME NEW b \in Addrs PROVE Answers'[b] = Answers[b]
    <2>1. CASE b = a
      BY <1>1, <1>2, <1>3, <2>1 DEF Answers, Hit
    <2>2. CASE b # a
      <3>1. cache'[b] = cache[b] /\ (cache[b] # NoCache => to'[cache[b]] = to[cache[b]])
        BY <1>2, <1>3, <2>2 DEF StaleTo
      <3> QED BY <1>2, <3>1 DEF Answers, Hit
    <2> QED BY <2>1, <2>2
  <1> QED BY <1>2, <1>4 DEF Answers

LEMMA RememberRemembers ==
  ASSUME RouteSound, NEW a \in Addrs, NEW c \in Data, NEW m \in Nodes, Remember(a, c, m)
  PROVE  Table!Remember(a)
  <1> DEFINE r == Lookup(a)
  <1>1. ~Hit(a) /\ r # NoRoute /\ c \notin live \ Stale(a)
    BY DEF Remember
  <1>2. /\ invalid' = invalid /\ table' = table /\ cache' = [cache EXCEPT ![a] = c]
        /\ to' = [d \in Data |-> IF d = c THEN r ELSE IF d \in Stale(a) THEN NoRoute ELSE to[d]]
        /\ Stale(a) = (IF cache[a] = NoCache THEN {} ELSE {cache[a]})
    BY <1>1, GotLinks DEF Remember, tableVars
  <1>3. r \in routes /\ ~invalid[r]
    BY <1>1, LookupIsRoute DEF RouteSound
  <1>4. cache \in [Addrs -> Data \cup {NoCache}] /\ NoCache \notin Data
        /\ \A b \in Addrs : cache[b] # NoCache =>
             addr[cache[b]] = b /\ cache[b] \in Data /\ cache[b] \in live
    BY NullsAssumption DEF RouteSound, TypeOK, CacheLinked
  <1>5. ASSUME NEW b \in Addrs PROVE Answers'[b] = IF b = a THEN r ELSE Answers[b]
    <2> HIDE DEF r
    <2>1. CASE b = a
      BY <1>2, <1>3, <1>4, <2>1 DEF Answers, Hit
    <2>2. CASE b # a
      <3>1. cache'[b] = cache[b] /\ (cache[b] # NoCache => cache[b] \notin Stale(a))
        BY <1>2, <1>4, <2>2
      <3>2. cache[b] # NoCache => to'[cache[b]] = to[cache[b]]
        BY <1>1, <1>2, <1>4, <3>1
      <3> QED BY <1>2, <2>2, <3>1, <3>2 DEF Answers, Hit
    <2> QED BY <2>1, <2>2
  <1>6. Answers' = [Answers EXCEPT ![a] = r]
    BY <1>5 DEF Answers
  <1>7. Answers[a] = NoRoute
    BY <1>1 DEF Answers
  <1> QED BY <1>2, <1>6, <1>7, LookupIsLongest DEF Table!Remember

LEMMA AddAdds ==
  ASSUME RouteSound, NEW k \in Keys, NEW r \in Routes, RouteAdd(k, r)
  PROVE  Table!Add(k, r)
  <1>1. \A j \in Keys : table[j] # r
    BY NullsAssumption DEF RouteAdd, RouteSound, CacheLinked
  <1>2. UNCHANGED Answers
    BY DEF RouteAdd, Answers, Hit, cacheVars
  <1> QED BY <1>1, <1>2 DEF RouteAdd, Table!Add

LEMMA DelDeletes ==
  ASSUME RouteSound, NEW k \in Keys, RouteDel(k)
  PROVE  Table!Delete(k)
  <1> DEFINE r == table[k]
  <1>1. /\ r # NoRoute /\ table' = [table EXCEPT ![k] = NoRoute] /\ UNCHANGED <<refs, cacheVars>>
        /\ \/ refs[r] = 0 /\ routes' = routes \ {r} /\ invalid' = invalid
           \/ refs[r] # 0 /\ routes' = routes /\ invalid' = [invalid EXCEPT ![r] = TRUE]
    BY DEF RouteDel
  <1>2. /\ r \in Routes /\ invalid \in [Routes -> BOOLEAN]
        /\ \A b \in Addrs : cache[b] # NoCache =>
             cache[b] \in live /\ to[cache[b]] \in Routes /\ refs[to[cache[b]]] > 0
    <2>1. LinksOK(cache, live, to, addr, refs) /\ routes \subseteq Routes
      BY LinksHold DEF RouteSound, TypeOK
    <2>2. \A c \in live : to[c] \in Routes /\ refs[to[c]] > 0
      BY <2>1, EntryIsCounted
    <2> QED BY <1>1, <2>2 DEF RouteSound, TypeOK, CacheLinked
  <1>3. ASSUME NEW b \in Addrs
        PROVE  Answers'[b] = IF Answers[b] = r THEN NoRoute ELSE Answers[b]
    <2> HIDE DEF r
    <2>1. CASE ~Hit(b)
      <3>1. ~Hit(b)'
        BY <1>1, <1>2, <2>1 DEF Hit, cacheVars
      <3> QED BY <1>1, <2>1, <3>1 DEF Answers
    <2>2. CASE Hit(b) /\ to[cache[b]] = r
      <3>1. refs[r] # 0 /\ invalid'[r]
        BY <1>1, <1>2, <2>2 DEF Hit
      <3>2. ~Hit(b)'
        BY <1>1, <2>2, <3>1 DEF Hit, cacheVars
      <3> QED BY <1>1, <2>2, <3>2 DEF Answers
    <2>3. CASE Hit(b) /\ to[cache[b]] # r
      <3>1. Hit(b)'
        BY <1>1, <1>2, <2>3 DEF Hit, cacheVars
      <3> QED BY <1>1, <2>3, <3>1 DEF Answers, cacheVars
    <2> QED BY <2>1, <2>2, <2>3
  <1>4. Answers' = [a \in Addrs |-> IF Answers[a] = r THEN NoRoute ELSE Answers[a]]
    BY <1>3 DEF Answers
  <1> QED BY <1>1, <1>4 DEF Table!Delete

LEMMA StepsMap ==
  ASSUME RouteSound, [Next]_vars PROVE [Table!Next]_<<table, Answers>>
  <1>1. CASE Operator
    BY <1>1, AddAdds, DelDeletes DEF Operator, Table!Next
  <1>2. CASE Packet
    BY <1>2, DropIsQuiet, RememberRemembers DEF Packet, Table!Next
  <1>3. ASSUME NEW n \in Nodes, Expire(n) \/ RearmNoMemory(n) PROVE [Table!Next]_<<table, Answers>>
    BY <1>3, ForgetForgets DEF Expire, RearmNoMemory, Table!Next
  <1>4. ASSUME UNCHANGED <<table, cache, to, invalid>> PROVE UNCHANGED <<table, Answers>>
    BY <1>4 DEF Answers, Hit
  <1>5. CASE Wheel
    BY <1>3, <1>4, <1>5
       DEF Wheel, Handle, NextSlot, Fire, Skip, Rearm, tableVars, cacheVars
  <1>6. CASE Time \/ UNCHANGED vars
    BY <1>4, <1>6 DEF Time, Elapse, vars, tableVars, cacheVars
  <1> QED BY <1>1, <1>2, <1>5, <1>6 DEF Next

\* The table with its list of lengths, its counts and its cache implements
\* longest-prefix match with answers that die with their route.
THEOREM RouteImplementsTable ==
  Spec => ImplementsRouteTable
  <1>1. Init => Table!Init
    BY DEF Init, Table!Init, Answers, Hit
  <1>2. RouteSound /\ [Next]_vars => [Table!Next]_<<table, Answers>>
    BY StepsMap
  <1> QED BY <1>1, <1>2, RouteSoundAlways, PTL DEF Spec, ImplementsRouteTable, Table!Spec, Table!vars
=============================================================================
