------------------------------ MODULE NatTable ------------------------------
(***************************************************************************)
(* What source NAT promises, without sessions, timers and id sets: a table *)
(* that binds LAN flows to the ids they show on the WAN.  A flow keeps its *)
(* id for as long as it is bound, and of two flows of one protocol that    *)
(* are bound at the same time each has an id of its own.                   *)
(***************************************************************************)
CONSTANTS Flows, Ids, NoId

VARIABLE bound

\* The flow k can be told from every other flow when it shows the id i.
Available(k, i) == \A f \in Flows : f.proto = k.proto => bound[f] # i

Init == bound = [k \in Flows |-> NoId]

Bind(k, i) ==
  /\ bound[k] = NoId
  /\ Available(k, i)
  /\ bound' = [bound EXCEPT ![k] = i]

Unbind(k) ==
  /\ bound[k] # NoId
  /\ bound' = [bound EXCEPT ![k] = NoId]

Next == \E k \in Flows : Unbind(k) \/ \E i \in Ids : Bind(k, i)

Spec == Init /\ [][Next]_bound

\* Two bound flows of one protocol never show the same id.
Distinct ==
  \A k, f \in Flows :
    k # f /\ k.proto = f.proto /\ bound[k] # NoId => bound[k] # bound[f]
=============================================================================
