------------------------------- MODULE EvRpc -------------------------------
(***************************************************************************)
(* The router's event loop and the RPC connections it serves               *)
(* (src/pywind/clib/ev/ev.c, src/pywind/clib/ev/rpc.c) on top of the time  *)
(* wheel.  A connection is a struct ev with a timer; ev_delete only marks  *)
(* it and its timer node, the loop frees it after the wheel has run.       *)
(*                                                                         *)
(* One turn of ev_loop: the io phase (callbacks of ready descriptors), the *)
(* wheel, then the sweep of the deleted events.                            *)
(***************************************************************************)
EXTENDS TimeWheel

CONSTANTS
  IdleTimeout,  \* the 10 seconds of rpc_session_timeout_fn
  AgeCap        \* bound: ages above it are not told apart

ASSUME IdleAssumption == IdleTimeout \in Nat \ {0}
ASSUME AgeCapAssumption == AgeCap \in Nat /\ AgeCap >= IdleTimeout + MaxLag

VARIABLES
  phase,  \* where ev_loop is
  state,  \* of each struct ev: not allocated, open, or on del_head
  tdata,  \* ev->tdata
  age,    \* time(NULL) - ev->up_time of an open event
  idle    \* auxiliary: time since the peer last sent a request

evVars == <<phase, state, tdata, age, idle>>
vars == <<wheelVars, evVars>>

Open == {e \in Data : state[e] = "open"}

TypeOK ==
  /\ WheelTypeOK
  /\ phase \in {"io", "wheel", "sweep"}
  /\ state \in [Data -> {"free", "open", "deleted"}]
  /\ tdata \in [Data -> Nodes \cup {NoNode}]
  /\ age \in [Data -> Int]
  /\ idle \in [Data -> Int]

Init ==
  /\ WheelInit
  /\ phase = "io"
  /\ state = [e \in Data |-> "free"]
  /\ tdata = [e \in Data |-> NoNode]
  /\ age = [e \in Data |-> 0]
  /\ idle = [e \in Data |-> 0]

(***************************************************************************)
(* The io phase.                                                           *)
(***************************************************************************)
\* An event that is open gets older by d.
Older(a, d) ==
  [e \in Data |->
    IF state[e] # "open" THEN 0 ELSE IF a[e] + d > AgeCap THEN AgeCap ELSE a[e] + d]

\* time(NULL) moves while the loop waits for events.
Wait(d) ==
  /\ phase = "io"
  /\ ClockStep(d)
  /\ age' = Older(age, d)
  /\ idle' = Older(idle, d)
  /\ UNCHANGED <<phase, state, tdata>>

\* rpc_session_create: ev_create, ev_timeout_set.
Accept(e, m) ==
  /\ phase = "io" /\ state[e] = "free"
  /\ Arm(m, e, FALSE)
  /\ state' = [state EXCEPT ![e] = "open"]
  /\ tdata' = [tdata EXCEPT ![e] = m]
  /\ age' = [age EXCEPT ![e] = 0]
  /\ idle' = [idle EXCEPT ![e] = 0]
  /\ UNCHANGED phase

\* rpc_session_create when time_wheel_add finds no memory: the event is
\* deleted again and waits for the sweep.
AcceptNoMemory(e) ==
  /\ phase = "io" /\ state[e] = "free"
  /\ state' = [state EXCEPT ![e] = "deleted"]
  /\ UNCHANGED <<wheelVars, phase, tdata, age, idle>>

\* (Faulty variant of Request: up_time is not set.)
RequestWithoutUpTime(e) ==
  /\ phase = "io" /\ state[e] = "open"
  /\ idle' = [idle EXCEPT ![e] = 0]
  /\ UNCHANGED <<wheelVars, phase, state, tdata, age>>

\* rpc_session_parse_rpc_req: a whole request was received and answered.
Request(e) ==
  /\ phase = "io" /\ state[e] = "open"
  /\ age' = [age EXCEPT ![e] = 0]
  /\ idle' = [idle EXCEPT ![e] = 0]
  /\ UNCHANGED <<wheelVars, phase, state, tdata>>

\* (Faulty variant of Close: the timer is not cancelled.)
CloseKeepsTimer(e) ==
  /\ phase = "io" /\ state[e] = "open"
  /\ state' = [state EXCEPT ![e] = "deleted"]
  /\ age' = [age EXCEPT ![e] = 0]
  /\ idle' = [idle EXCEPT ![e] = 0]
  /\ UNCHANGED <<wheelVars, phase, tdata>>

\* ev_delete from a readable callback: the peer closed, or sent a bad request.
Close(e) ==
  /\ phase = "io" /\ state[e] = "open"
  /\ state' = [state EXCEPT ![e] = "deleted"]
  /\ age' = [age EXCEPT ![e] = 0]
  /\ idle' = [idle EXCEPT ![e] = 0]
  /\ del' = [n \in Nodes |-> del[n] \/ n = tdata[e]]
  /\ UNCHANGED <<slots, data, heap, empty, clockVars, walkVars, phase, tdata>>

(***************************************************************************)
(* time_wheel_handle and rpc_session_timeout_fn.                           *)
(***************************************************************************)
\* (Faulty variant of EndIo: old_time is set in every turn, a whole tick or
\* not.)
EndIoForgetsLag ==
  /\ phase = "io"
  /\ phase' = "wheel"
  /\ IF lag >= Every THEN HandleBegin ELSE lag' = 0 /\ UNCHANGED <<walkVars, nodeVars>>
  /\ UNCHANGED <<state, tdata, age, idle>>

EndIo ==
  /\ phase = "io"
  /\ phase' = "wheel"
  /\ IF lag >= Every THEN HandleBegin ELSE UNCHANGED wheelVars
  /\ UNCHANGED <<state, tdata, age, idle>>

Skip(n) ==
  /\ SkipDeleted(n)
  /\ UNCHANGED evVars

\* (Faulty variant of Active: a tick too long.)
ActiveTooLong(e) == age[e] <= IdleTimeout

\* Heard from within the last IdleTimeout seconds.
Active(e) == age[e] < IdleTimeout

\* ev_timeout_set again, which also sets up_time.
KeepAlive(n, m) ==
  /\ n \in todo /\ ~del[n] /\ Active(data[n])
  /\ FireRearm(n, m)
  /\ tdata' = [tdata EXCEPT ![data[n]] = m]
  /\ age' = [age EXCEPT ![data[n]] = 0]
  /\ UNCHANGED <<phase, state, idle>>

\* The same when time_wheel_add finds no memory: the event stays open and
\* has no timer any more.
KeepAliveNoMemory(n) ==
  /\ n \in todo /\ ~del[n] /\ Active(data[n])
  /\ FireOnly(n)
  /\ tdata' = [tdata EXCEPT ![data[n]] = NoNode]
  /\ UNCHANGED <<phase, state, age, idle>>

\* Idle: ev_delete from the timeout callback.
IdleClose(n) ==
  /\ n \in todo /\ ~del[n] /\ ~Active(data[n])
  /\ FireOnly(n)
  /\ state' = [state EXCEPT ![data[n]] = "deleted"]
  /\ tdata' = [tdata EXCEPT ![data[n]] = NoNode]
  /\ age' = [age EXCEPT ![data[n]] = 0]
  /\ idle' = [idle EXCEPT ![data[n]] = 0]
  /\ UNCHANGED phase

NextSlot ==
  /\ SlotDone
  /\ UNCHANGED evVars

WheelDone ==
  /\ phase = "wheel" /\ Outside
  /\ phase' = "sweep"
  /\ UNCHANGED <<wheelVars, state, tdata, age, idle>>

(***************************************************************************)
(* The sweep: map_del and ev_del_cb of every event on del_head.            *)
(***************************************************************************)
Sweep ==
  /\ phase = "sweep"
  /\ phase' = "io"
  /\ state' = [e \in Data |-> IF state[e] = "deleted" THEN "free" ELSE state[e]]
  /\ tdata' = [e \in Data |-> IF state[e] = "deleted" THEN NoNode ELSE tdata[e]]
  /\ UNCHANGED <<wheelVars, age, idle>>

(***************************************************************************)
(* Specification.                                                          *)
(***************************************************************************)
Peer ==
  \E e \in Data :
    \/ \E m \in Nodes : Accept(e, m)
    \/ AcceptNoMemory(e) \/ Request(e) \/ Close(e)

Fire ==
  \E n \in Nodes :
    \/ Skip(n) \/ IdleClose(n) \/ KeepAliveNoMemory(n)
    \/ \E m \in Nodes : KeepAlive(n, m)

Time == \E d \in ClockSteps : Wait(d)

Loop == EndIo \/ Fire \/ NextSlot \/ WheelDone \/ Sweep

Next == Peer \/ Time \/ Loop

Spec == Init /\ [][Next]_vars

\* The loop turns for ever: epoll_wait returns after at most wait_timeout
\* seconds and no callback blocks.  The clock moves on however fast the loop
\* turns: a step of it is possible in every turn, not all of the time.
FairSpec == Spec /\ WF_vars(Loop) /\ SF_vars(Time)

(***************************************************************************)
(* Properties.                                                             *)
(***************************************************************************)
\* ev->tdata and the wheel agree: the node an open event points to is its
\* own and still has its callback to come, and every such node belongs to an
\* event that is open, so that no callback runs on a freed struct ev and no
\* event has two timers.
TimersMatchEvents ==
  /\ \A e \in Open : tdata[e] # NoNode => tdata[e] \in Pending /\ data[tdata[e]] = e
  /\ \A n \in Pending : data[n] \in Open /\ tdata[data[n]] = n

\* A connection whose timer is armed is not kept idle for longer than the
\* timeout and one gap between two turns of the loop, although every re-arm
\* also sets up_time (as long as the clock is not set back).
IdleBounded ==
  \A e \in Open : tdata[e] # NoNode => idle[e] < IdleTimeout + MaxLag

\* A connection is only ever closed by the wheel after a full timeout
\* without a request (as long as the clock is not set back).
ClosedOnlyWhenIdle ==
  [][\A e \in Data : state[e] = "open" /\ state'[e] = "deleted" /\ phase = "wheel"
        => idle[e] >= IdleTimeout]_vars

\* timer.h:16 of a node whose is_deleted is 0: "after the timeout the timeout
\* function will be called".  Between two calls of time_wheel_handle the
\* timer of an open event is on the ring.
ArmedWillFire ==
  Outside => \A e \in Open : tdata[e] # NoNode => \E i \in Slots : tdata[e] \in slots[i]

\* An idle connection is closed, or hears from its peer, or lost its timer
\* for want of memory.
IdleIsClosed ==
  \A e \in Data :
    (state[e] = "open" /\ idle[e] >= IdleTimeout)
      ~> (state[e] # "open" \/ idle[e] < IdleTimeout \/ tdata[e] = NoNode)

\* The timer of each event as a client of the service sees it.
TimerStatus(e) ==
  IF \E n \in todo : ~del[n] /\ data[n] = e THEN "due"
  ELSE IF \E n \in Pending : data[n] = e THEN "armed" ELSE "off"

Service == INSTANCE TimerService WITH
  Timers <- Data,
  status <- [e \in Data |-> TimerStatus(e)],
  held <- [e \in Data |-> e \in Open /\ tdata[e] # NoNode]

\* The wheel under the event loop implements the timer service: the callback
\* of an event that holds a timer runs once, between io phases, unless the
\* event was closed, and none runs for an event that does not.
ImplementsTimerService == Service!Spec
============================================================================
