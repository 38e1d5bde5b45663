----------------------------- MODULE RouteTable -----------------------------
(***************************************************************************)
(* What the routing table promises to the packets, without prefix lists,   *)
(* reference counts and timers: an address is answered with the longest    *)
(* match, which may be remembered for a while.  A remembered answer may    *)
(* miss a more specific route that came later, never the deletion of its   *)
(* own route.                                                              *)
(***************************************************************************)
EXTENDS Naturals

CONSTANTS
  Addrs, Keys, Routes,
  Covers,  \* of each key, the addresses it matches
  None     \* no route

VARIABLES
  table,   \* of each key, its route or None
  answer   \* of each address, the route that is remembered for it or None

vars == <<table, answer>>

Matching(a) == {k \in Keys : table[k] # None /\ a \in Covers[k]}

Longest(a) ==
  IF Matching(a) = {} THEN None
  ELSE table[CHOOSE k \in Matching(a) : \A j \in Matching(a) : j.prefix <= k.prefix]

Init ==
  /\ table = [k \in Keys |-> None]
  /\ answer = [a \in Addrs |-> None]

Add(k, r) ==
  /\ table[k] = None
  /\ \A j \in Keys : table[j] # r
  /\ table' = [table EXCEPT ![k] = r]
  /\ UNCHANGED answer

Delete(k) ==
  /\ table[k] # None
  /\ table' = [table EXCEPT ![k] = None]
  /\ answer' = [a \in Addrs |-> IF answer[a] = table[k] THEN None ELSE answer[a]]

Remember(a) ==
  /\ answer[a] = None
  /\ answer' = [answer EXCEPT ![a] = Longest(a)]
  /\ UNCHANGED table

Forget(a) ==
  /\ answer' = [answer EXCEPT ![a] = None]
  /\ UNCHANGED table

Next ==
  \/ \E k \in Keys : Delete(k) \/ \E r \in Routes : Add(k, r)
  \/ \E a \in Addrs : Remember(a) \/ Forget(a)

Spec == Init /\ [][Next]_vars

\* A remembered answer is a route of the table that matches the address.
AnswersAreRoutes ==
  \A a \in Addrs : answer[a] # None => \E k \in Matching(a) : table[k] = answer[a]
=============================================================================
