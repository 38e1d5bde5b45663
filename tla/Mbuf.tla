-------------------------------- MODULE Mbuf --------------------------------
(***************************************************************************)
(* The packet buffers of the router (src/ixc_syscore/router/src/mbuf.c):   *)
(* a pool of PreAlloc buffers that grows with malloc up to IXC_MBUF_MAX    *)
(* and shrinks again as buffers come back.                                 *)
(***************************************************************************)
EXTENDS Naturals, FiniteSets

CONSTANTS
  Mbufs,    \* the addresses malloc may return
  NoMbuf,   \* NULL
  PreAlloc, \* pre_alloc_num
  MaxMbufs  \* IXC_MBUF_MAX

ASSUME MbufAssumption ==
  /\ IsFiniteSet(Mbufs) /\ NoMbuf \notin Mbufs
  /\ PreAlloc \in Nat /\ MaxMbufs \in Nat /\ PreAlloc <= MaxMbufs

VARIABLES
  heap, \* buffers that were malloc'ed and not freed
  pool, \* the list ixc_mbuf_empty_head
  used  \* ixc_mbuf_used_num

mbufVars == <<heap, pool, used>>

MbufTypeOK == heap \subseteq Mbufs /\ pool \subseteq Mbufs /\ used \in Nat

\* ixc_mbuf_init: a quarter of the pool is allocated at start.
MbufInit ==
  /\ heap \in {S \in SUBSET Mbufs : Cardinality(S) = PreAlloc \div 4}
  /\ pool = heap
  /\ used = PreAlloc \div 4

\* ixc_mbuf_get returns m, from the pool or from malloc.
MbufGet(m) ==
  \/ /\ m \in pool
     /\ pool' = pool \ {m}
     /\ UNCHANGED <<heap, used>>
  \/ /\ pool = {} /\ used < MaxMbufs
     /\ m \in Mbufs \ heap
     /\ heap' = heap \cup {m}
     /\ used' = used + 1
     /\ UNCHANGED pool

\* ixc_mbuf_get returns NULL: the limit is reached, or malloc fails.
MbufGetFails == pool = {} /\ UNCHANGED mbufVars

\* (Faulty variant of MbufPut: every buffer goes back to the pool.)
MbufPutKeeps(m) == pool' = pool \cup {m} /\ UNCHANGED <<heap, used>>

\* ixc_mbuf_put: a buffer beyond the pre-allocated number is freed.
MbufPut(m) ==
  IF used > PreAlloc
  THEN /\ heap' = heap \ {m}
       /\ used' = used - 1
       /\ UNCHANGED pool
  ELSE /\ pool' = pool \cup {m}
       /\ UNCHANGED <<heap, used>>
=============================================================================
