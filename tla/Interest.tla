------------------------------ MODULE Interest ------------------------------
(***************************************************************************)
(* What the event loop asks the kernel to report for a descriptor:         *)
(* ev_modify (src/pywind/clib/ev/ev.c) keeps the flags is_added_read and   *)
(* is_added_write and calls the backend, ev_epoll.c or ev_select.c.        *)
(***************************************************************************)
CONSTANTS
  Fds,     \* the descriptors
  Backends \* the backends ev_set_init may choose: "epoll", "select"

ASSUME BackendAssumption == Backends \subseteq {"epoll", "select"}

VARIABLES
  backend,    \* ev_set->is_select, fixed at start
  added,      \* is_added_read ("r") and is_added_write ("w") of each ev
  polled,     \* the events the kernel reports for the descriptor
  registered  \* the descriptors in the epoll set

interestVars == <<backend, added, polled, registered>>

InterestTypeOK ==
  /\ backend \in Backends
  /\ added \in [Fds -> SUBSET {"r", "w"}]
  /\ polled \in [Fds -> SUBSET {"r", "w"}]
  /\ registered \subseteq Fds

\* ev_create and the EV_READABLE of ixc_netif_create.
InterestInit ==
  /\ backend \in Backends
  /\ added = [d \in Fds |-> {"r"}]
  /\ polled = [d \in Fds |-> {"r"}]
  /\ registered = Fds

\* EPOLL_CTL_MOD with one event alone; it fails for a descriptor that is
\* not in the set and nobody looks at the result.  select builds its sets
\* from the flags.
PollAfterAdd(d, e) ==
  IF backend = "select" THEN polled[d] \cup {e}
  ELSE IF d \in registered THEN {e}
  ELSE polled[d]

\* EPOLL_CTL_DEL takes the whole descriptor out of the set.
PollAfterDel(d, e) == IF backend = "select" THEN polled[d] \ {e} ELSE {}

\* ev_modify(EV_CTL_ADD).
AddEvent(d, e) ==
  IF e \in added[d] THEN UNCHANGED interestVars
  ELSE /\ added' = [added EXCEPT ![d] = @ \cup {e}]
       /\ polled' = [polled EXCEPT ![d] = PollAfterAdd(d, e)]
       /\ UNCHANGED <<backend, registered>>

\* ev_modify(EV_CTL_DEL).
DelEvent(d, e) ==
  IF e \notin added[d] THEN UNCHANGED interestVars
  ELSE /\ added' = [added EXCEPT ![d] = @ \ {e}]
       /\ polled' = [polled EXCEPT ![d] = PollAfterDel(d, e)]
       /\ registered' = IF backend = "select" THEN registered ELSE registered \ {d}
       /\ UNCHANGED backend
=============================================================================
