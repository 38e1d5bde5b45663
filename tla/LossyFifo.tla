------------------------------ MODULE LossyFifo ------------------------------
(***************************************************************************)
(* What the data plane promises to a stream of packets: it may lose any of *)
(* them, and it delivers the others in the order in which they came, each  *)
(* once.                                                                   *)
(***************************************************************************)
CONSTANTS Lanes, Packets, NoPacket

VARIABLES
  lane,  \* the packets of each stream that are under way
  older, \* the pairs of them that are of one stream, the first comer first
  out    \* the packet that the last step delivered

vars == <<lane, older, out>>

Init == lane = [l \in Lanes |-> {}] /\ older = {} /\ out = NoPacket

UnderWay(p) == \E l \in Lanes : p \in lane[l]

\* A packet comes after all the others of its stream.
Admit(l, p) ==
  /\ ~UnderWay(p)
  /\ lane' = [lane EXCEPT ![l] = @ \cup {p}]
  /\ older' = older \cup (lane[l] \X {p})
  /\ out' = NoPacket

Leave(l, p) ==
  /\ p \in lane[l]
  /\ lane' = [lane EXCEPT ![l] = @ \ {p}]
  /\ older' = {pair \in older : p \notin {pair[1], pair[2]}}

Deliver(l, p) ==
  /\ \A q \in lane[l] : <<q, p>> \notin older
  /\ Leave(l, p)
  /\ out' = p

Lose(l, p) == Leave(l, p) /\ out' = NoPacket

\* Packets that belong to no stream may be delivered at any time.
Other(p) ==
  /\ ~UnderWay(p)
  /\ out' = p
  /\ UNCHANGED <<lane, older>>

Quiet == UNCHANGED <<lane, older>> /\ out' = NoPacket

Next ==
  \/ Quiet
  \/ \E p \in Packets :
       \/ Other(p)
       \/ \E l \in Lanes : Admit(l, p) \/ Deliver(l, p) \/ Lose(l, p)

Spec == Init /\ [][Next]_vars
=============================================================================
