-------------------------------- MODULE Qos --------------------------------
(***************************************************************************)
(* The queues of packets from the LAN (src/ixc_syscore/router/src/qos.c):  *)
(* a slot per hash of the addresses, the slots in use linked in a list,    *)
(* and a walk of that list that takes one packet from each slot.           *)
(***************************************************************************)
EXTENDS Sequences, FiniteSets

CONSTANTS
  Slots,  \* slot_objs, an array
  NoSlot  \* NULL

ASSUME NoSlotAssumption == NoSlot \notin Slots /\ IsFiniteSet(Slots)

VARIABLES
  slot,       \* mbuf_first .. mbuf_last of each slot
  is_used,
  next,       \* the links of the list of slots in use
  slot_head,
  slot_first, slot_obj, slot_old \* the locals of ixc_qos_pop

listVars == <<slot, is_used, next, slot_head>>
cursorVars == <<slot_first, slot_obj, slot_old>>
qosVars == <<listVars, cursorVars>>

QosTypeOK(M) ==
  /\ slot \in [Slots -> Seq(M)]
  /\ is_used \in [Slots -> BOOLEAN]
  /\ next \in [Slots -> Slots \cup {NoSlot}]
  /\ {slot_head, slot_first, slot_obj, slot_old} \subseteq Slots \cup {NoSlot}

QosInit ==
  /\ slot = [s \in Slots |-> <<>>]
  /\ is_used = [s \in Slots |-> FALSE]
  /\ next = [s \in Slots |-> NoSlot]
  /\ slot_head = NoSlot
  /\ slot_first = NoSlot /\ slot_obj = NoSlot /\ slot_old = NoSlot

\* (Faulty variant of QosPut: a packet overtakes those of its slot.)
QosPutFirst(s, m) ==
  /\ slot' = [slot EXCEPT ![s] = <<m>> \o @]
  /\ is_used' = [is_used EXCEPT ![s] = TRUE]
  /\ next' = IF is_used[s] THEN next ELSE [next EXCEPT ![s] = slot_head]
  /\ slot_head' = IF is_used[s] THEN slot_head ELSE s
  /\ UNCHANGED cursorVars

\* ixc_qos_put: a slot that was empty becomes the first of the list.
QosPut(s, m) ==
  /\ IF is_used[s]
     THEN /\ slot' = [slot EXCEPT ![s] = Append(@, m)]
          /\ UNCHANGED <<is_used, next, slot_head>>
     ELSE /\ slot' = [slot EXCEPT ![s] = <<m>>]
          /\ is_used' = [is_used EXCEPT ![s] = TRUE]
          /\ next' = [next EXCEPT ![s] = slot_head]
          /\ slot_head' = s
  /\ UNCHANGED cursorVars

QosPopBegins ==
  /\ slot_first' = slot_head /\ slot_obj' = slot_head /\ slot_old' = slot_head
  /\ UNCHANGED listVars

\* (Faulty variants of UnlinkFirst: the new head is not taken for the first
\* slot of the walk; the rest of the list is lost.)
UnlinkFirstKeepsFirst ==
  /\ is_used' = [is_used EXCEPT ![slot_obj] = FALSE]
  /\ next' = [next EXCEPT ![slot_obj] = NoSlot]
  /\ slot_head' = next[slot_obj]
  /\ slot_obj' = next[slot_obj]
  /\ UNCHANGED <<slot_first, slot_old>>

UnlinkFirstLosesRest ==
  /\ is_used' = [is_used EXCEPT ![slot_obj] = FALSE]
  /\ next' = [next EXCEPT ![slot_obj] = NoSlot]
  /\ slot_head' = NoSlot
  /\ slot_obj' = next[slot_obj]
  /\ slot_first' = next[slot_obj]
  /\ slot_old' = next[slot_obj]

\* One turn of the loop of ixc_qos_pop: the first packet of slot_obj leaves.
\* A slot that still has packets stays where it is ...
KeepSlot ==
  /\ slot_old' = slot_obj /\ slot_obj' = next[slot_obj]
  /\ UNCHANGED <<is_used, next, slot_head, slot_first>>

\* ... and an empty one is unlinked, in the middle of the list ...
UnlinkInner ==
  /\ is_used' = [is_used EXCEPT ![slot_obj] = FALSE]
  /\ next' = [next EXCEPT ![slot_old] = next[slot_obj], ![slot_obj] = NoSlot]
  /\ slot_obj' = next[slot_obj]
  /\ UNCHANGED <<slot_head, slot_first, slot_old>>

\* ... or at its head.
UnlinkFirst ==
  /\ is_used' = [is_used EXCEPT ![slot_obj] = FALSE]
  /\ next' = [next EXCEPT ![slot_obj] = NoSlot]
  /\ slot_head' = next[slot_obj]
  /\ slot_obj' = next[slot_obj]
  /\ slot_first' = next[slot_obj]
  /\ slot_old' = next[slot_obj]

PopFrom ==
  /\ slot' = [slot EXCEPT ![slot_obj] = Tail(@)]
  /\ IF Tail(slot[slot_obj]) # <<>> THEN KeepSlot
     ELSE IF slot_obj # slot_first THEN UnlinkInner
     ELSE UnlinkFirst

InSlot(s) == {slot[s][i] : i \in DOMAIN slot[s]}
=============================================================================
