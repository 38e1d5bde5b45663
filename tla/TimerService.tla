---------------------------- MODULE TimerService ----------------------------
(***************************************************************************)
(* What a client of the time wheel relies on, without the wheel: a timer   *)
(* is off, armed or due.  An armed timer leaves that state only by         *)
(* expiring or because its client cancels it, a due timer is served before *)
(* the client runs again, once, and serving it may arm it anew.  A client  *)
(* that holds a timer can count on it.                                     *)
(* (src/pywind/clib/timer.h: "after the timeout the timeout function is    *)
(* called" unless the entry was deleted.)                                  *)
(***************************************************************************)
CONSTANT Timers

VARIABLES
  status, \* of each timer: "off", "armed" or "due"
  held    \* whether its client has it armed, as the client sees it

NoneDue == \A t \in Timers : status[t] # "due"

TypeOK ==
  /\ status \in [Timers -> {"off", "armed", "due"}]
  /\ held \in [Timers -> BOOLEAN]

Init ==
  /\ status = [t \in Timers |-> "off"]
  /\ held = [t \in Timers |-> FALSE]

Start(t) ==
  /\ NoneDue /\ ~held[t]
  /\ status' = [status EXCEPT ![t] = "armed"]
  /\ held' = [held EXCEPT ![t] = TRUE]

Cancel(t) ==
  /\ NoneDue /\ held[t]
  /\ status' = [status EXCEPT ![t] = "off"]
  /\ held' = [held EXCEPT ![t] = FALSE]

\* Time passes: some armed timers become due together.
Expire(S) ==
  /\ NoneDue
  /\ \A t \in S : status[t] = "armed"
  /\ status' = [t \in Timers |-> IF t \in S THEN "due" ELSE status[t]]
  /\ UNCHANGED held

\* The timeout function of t runs: it arms t again or lets go of it.
Serve(t) ==
  /\ status[t] = "due"
  /\ \E again \in BOOLEAN :
       /\ status' = [status EXCEPT ![t] = IF again THEN "armed" ELSE "off"]
       /\ held' = [held EXCEPT ![t] = again]

Next ==
  \/ \E t \in Timers : Start(t) \/ Cancel(t) \/ Serve(t)
  \/ \E S \in SUBSET Timers : Expire(S)

Spec == Init /\ [][Next]_<<status, held>>

\* A timer its client holds is never lost, and no other timer fires.
HeldWillFire == \A t \in Timers : held[t] <=> status[t] # "off"
=============================================================================
