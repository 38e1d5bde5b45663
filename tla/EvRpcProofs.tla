---------------------------- MODULE EvRpcProofs ----------------------------
(***************************************************************************)
(* Proofs about the event loop and the RPC connections for any number of   *)
(* connections and nodes, any ring and any timeout.  The first part holds  *)
(* however long the loop is held up; the second part, that no timer is     *)
(* lost, as long as two turns of the loop are less than one turn of the    *)
(* ring apart (NoStall).                                                   *)
(***************************************************************************)
EXTENDS EvRpc, TimeWheelProofs

(***************************************************************************)
(* What holds for ever: a node with a callback to come belongs to an event *)
(* that is open and has no other timer, and a walk only goes on in the     *)
(* wheel phase.                                                            *)
(***************************************************************************)
\* No callback will run on a struct ev that was freed, or twice for one.
PendingOwned == \A n \in Pending : data[n] \in Open /\ tdata[data[n]] = n

EvSound == TypeOK /\ WheelSound /\ PendingOwned /\ (phase # "wheel" => left = 0)

LEMMA EvSoundTypes ==
  ASSUME EvSound
  PROVE  /\ state \in [Data -> {"free", "open", "deleted"}]
         /\ tdata \in [Data -> Nodes \cup {NoNode}]
         /\ data \in [Nodes -> Data \cup {NoData}] /\ del \in [Nodes -> BOOLEAN]
         /\ age \in [Data -> Int] /\ idle \in [Data -> Int]
         /\ Pending \subseteq Nodes /\ NoNode \notin Nodes /\ NoData \notin Data
         /\ todo \subseteq Nodes /\ Open \subseteq Data
         /\ lag \in Int /\ lag <= MaxLag /\ MaxLag \in Nat
         /\ IdleTimeout \in Nat /\ IdleTimeout > 0 /\ AgeCap \in Nat
         /\ AgeCap >= IdleTimeout + MaxLag
  BY NullAssumption, ClockAssumption, IdleAssumption, AgeCapAssumption
     DEF EvSound, TypeOK, WheelTypeOK, Pending, Listed, Open

LEMMA EvSoundInit ==
  ASSUME Init PROVE EvSound
  <1>1. WheelSound /\ Pending = {}
    BY SoundInit DEF Init
  <1>2. TypeOK
    BY <1>1 DEF Init, TypeOK, WheelSound
  <1> QED BY <1>1, <1>2 DEF EvSound, PendingOwned, Init, WheelInit

\* Fewer nodes are pending, and they and the open events are as before.
LEMMA OwnedStill ==
  ASSUME PendingOwned, Open' = Open, \A e \in Open : tdata'[e] = tdata[e],
         Pending' \subseteq Pending, \A n \in Pending' : data'[n] = data[n]
  PROVE  PendingOwned'
  BY DEF PendingOwned

LEMMA OlderType ==
  ASSUME NEW a \in [Data -> Int], NEW d \in ClockSteps PROVE Older(a, d) \in [Data -> Int]
  BY ClockAssumption, AgeCapAssumption DEF Older

LEMMA WaitSound ==
  ASSUME EvSound, NEW d \in ClockSteps, Wait(d) PROVE EvSound'
  <1>1. WheelSound' /\ Pending' = Pending /\ data' = data /\ left' = left
    BY SoundClock, ClockAssumption DEF EvSound, Wait, ClockStep, walkVars, nodeVars
  <1>2. TypeOK'
    BY <1>1, OlderType DEF EvSound, TypeOK, WheelSound, Wait
  <1>3. PendingOwned'
    BY <1>1, OwnedStill DEF EvSound, Wait, Open
  <1> QED BY <1>1, <1>2, <1>3 DEF EvSound, Wait

LEMMA AcceptSound ==
  ASSUME EvSound, NEW e \in Data, NEW m \in Nodes, Accept(e, m) PROVE EvSound'
  <1>1. Arm(m, e, FALSE)
    BY DEF Accept
  <1>2. WheelSound' /\ m \notin Pending /\ Pending' \subseteq Pending \cup {m}
    BY <1>1, SoundArm DEF EvSound
  <1>3. /\ data' = [data EXCEPT ![m] = e] /\ tdata' = [tdata EXCEPT ![e] = m]
        /\ state' = [state EXCEPT ![e] = "open"] /\ state[e] = "free"
        /\ left' = left /\ phase' = phase
    BY <1>1 DEF Accept, Arm, ArmAfter, walkVars
  <1>4. Open' = Open \cup {e} /\ e \notin Open
    BY <1>3, EvSoundTypes DEF Open
  <1>5. TypeOK'
    BY <1>2, <1>3, EvSoundTypes DEF EvSound, TypeOK, WheelSound, Accept
  <1>6. PendingOwned'
    BY <1>2, <1>3, <1>4, EvSoundTypes DEF EvSound, PendingOwned
  <1> QED BY <1>2, <1>3, <1>5, <1>6 DEF EvSound

\* Steps that leave the wheel alone, and which events are open.
LEMMA NoTimerSound ==
  ASSUME EvSound, UNCHANGED wheelVars, Open' = Open, \A e \in Open : tdata'[e] = tdata[e],
         WheelTypeOK' => TypeOK', left = 0 \/ phase' = phase
  PROVE  EvSound'
  <1>1. WheelSound' /\ Pending' = Pending /\ data' = data /\ left' = left
    BY SoundStutter DEF EvSound, wheelVars
  <1>2. PendingOwned'
    BY <1>1, OwnedStill DEF EvSound
  <1> QED BY <1>1, <1>2 DEF EvSound, WheelSound

LEMMA AcceptNoMemorySound ==
  ASSUME EvSound, NEW e \in Data, AcceptNoMemory(e) PROVE EvSound' /\ Open' = Open
  <1>1. Open' = Open
    BY EvSoundTypes DEF AcceptNoMemory, Open
  <1>2. WheelTypeOK' => TypeOK'
    BY EvSoundTypes DEF EvSound, TypeOK, AcceptNoMemory
  <1> QED BY <1>1, <1>2, NoTimerSound DEF AcceptNoMemory

LEMMA RequestSound ==
  ASSUME EvSound, NEW e \in Data, Request(e) PROVE EvSound'
  <1>1. WheelTypeOK' => TypeOK'
    BY EvSoundTypes DEF EvSound, TypeOK, Request
  <1> QED BY <1>1, NoTimerSound DEF Request, Open

\* Closing marks the node of the event, and no other.
LEMMA CloseSound ==
  ASSUME EvSound, NEW e \in Data, Close(e)
  PROVE  EvSound' /\ Open' = Open \ {e} /\ Pending' = Pending \ {tdata[e]}
  <1>1. /\ del' = [n \in Nodes |-> del[n] \/ n = tdata[e]]
        /\ UNCHANGED <<slots, cur, lag, left, at, todo, data, heap, empty, phase, tdata>>
    BY DEF Close, clockVars, walkVars
  <1>2. [n \in Nodes |-> del[n] \/ n = tdata[e]] \in [Nodes -> BOOLEAN]
    BY EvSoundTypes
  <1>3. WheelSound' /\ Pending' = {n \in Listed \cup todo : ~del'[n]}
    BY <1>1, <1>2, SoundCancel DEF EvSound, clockVars, walkVars
  <1>4. Pending' = Pending \ {tdata[e]}
    BY <1>1, <1>3, PendingTypes, EvSoundTypes DEF EvSound, TypeOK, Pending
  <1>5. Open' = Open \ {e}
    BY EvSoundTypes DEF Close, Open
  <1>6. TypeOK'
    BY <1>1, <1>3, EvSoundTypes DEF EvSound, TypeOK, WheelSound, Close
  <1>7. PendingOwned'
    BY <1>1, <1>4, <1>5 DEF EvSound, PendingOwned
  <1> QED BY <1>1, <1>3, <1>4, <1>5, <1>6, <1>7 DEF EvSound

LEMMA EndIoSound ==
  ASSUME EvSound, EndIo PROVE EvSound'
  <1>1. WheelSound' /\ Pending' = Pending /\ data' = data
    <2>1. CASE lag >= Every
      BY <2>1, SoundHandleBegin DEF EvSound, EndIo, HandleBegin, nodeVars
    <2>2. CASE ~(lag >= Every)
      BY <2>2, SoundStutter DEF EvSound, EndIo, wheelVars
    <2> QED BY <2>1, <2>2
  <1>2. TypeOK'
    BY <1>1 DEF EvSound, TypeOK, WheelSound, EndIo
  <1>3. PendingOwned'
    BY <1>1, OwnedStill DEF EvSound, EndIo, Open
  <1> QED BY <1>1, <1>2, <1>3 DEF EvSound, EndIo

LEMMA WalkIsWheelPhase ==
  ASSUME EvSound, NEW n \in todo PROVE phase = "wheel" /\ left # 0
  BY DEF EvSound, WheelSound

LEMMA SkipSound ==
  ASSUME EvSound, NEW n \in Nodes, Skip(n) PROVE EvSound' /\ \A x \in Pending : data'[x] = data[x]
  <1>1. n \in todo /\ SkipDeleted(n) /\ n \notin Pending /\ UNCHANGED evVars
    BY DEF Skip, SkipDeleted, Pending
  <1>2. WheelSound' /\ Pending' \subseteq Pending
    BY <1>1, SoundSkip DEF EvSound
  <1>3. \A x \in Pending : data'[x] = data[x]
    BY <1>1, EvSoundTypes DEF SkipDeleted
  <1>4. TypeOK'
    BY <1>1, <1>2 DEF EvSound, TypeOK, WheelSound, evVars
  <1>5. PendingOwned'
    BY <1>1, <1>2, <1>3, OwnedStill DEF EvSound, evVars, Open
  <1> QED BY <1>1, <1>2, <1>3, <1>4, <1>5, WalkIsWheelPhase DEF EvSound, evVars

LEMMA KeepAliveSound ==
  ASSUME EvSound, NEW n \in Nodes, NEW m \in Nodes, KeepAlive(n, m)
  PROVE  EvSound' /\ data[n] \in Open /\ tdata[data[n]] = n /\ m \notin todo
  <1>1. n \in todo /\ FireRearm(n, m)
    BY DEF KeepAlive
  <1>2. /\ WheelSound' /\ n \in Pending /\ m \notin Pending
        /\ Pending' \subseteq (Pending \ {n}) \cup {m}
    BY <1>1, SoundFireRearm DEF EvSound
  <1>3. m \notin todo
    BY <1>1, SoundGettable DEF EvSound, FireRearm
  <1>4. data[n] \in Open /\ tdata[data[n]] = n
    BY <1>2 DEF EvSound, PendingOwned
  <1>5. /\ tdata' = [tdata EXCEPT ![data[n]] = m]
        /\ data' = [data EXCEPT ![m] = data[n], ![n] = NoData]
        /\ UNCHANGED <<phase, state, idle>>
    BY <1>1 DEF KeepAlive, FireRearm
  <1>6. TypeOK'
    BY <1>2, <1>4, <1>5, EvSoundTypes DEF EvSound, TypeOK, WheelSound, KeepAlive
  <1>7. PendingOwned'
    <2>1. ASSUME NEW y \in Pending' PROVE data'[y] \in Open /\ tdata'[data'[y]] = y
      BY <1>2, <1>4, <1>5, EvSoundTypes DEF EvSound, PendingOwned
    <2> QED BY <1>5, <2>1 DEF PendingOwned, Open
  <1> QED BY <1>1, <1>2, <1>3, <1>4, <1>5, <1>6, <1>7, WalkIsWheelPhase DEF EvSound

\* The callback of n returns without a timer, with or without its event.
LEMMA LetGoSound ==
  ASSUME EvSound, NEW n \in Nodes, n \in todo, FireOnly(n), WheelTypeOK' => TypeOK',
         tdata' = [tdata EXCEPT ![data[n]] = NoNode], UNCHANGED phase,
         Open \ {data[n]} \subseteq Open'
  PROVE  EvSound'
  <1>1. WheelSound' /\ n \in Pending /\ Pending' = Pending \ {n}
    BY SoundFireOnly DEF EvSound
  <1>2. data[n] \in Open /\ tdata[data[n]] = n /\ data' = [data EXCEPT ![n] = NoData]
    BY <1>1 DEF EvSound, PendingOwned, FireOnly
  <1>3. PendingOwned'
    BY <1>1, <1>2, EvSoundTypes DEF EvSound, PendingOwned
  <1> QED BY <1>1, <1>2, <1>3, WalkIsWheelPhase DEF EvSound, WheelSound

LEMMA KeepAliveNoMemorySound ==
  ASSUME EvSound, NEW n \in Nodes, KeepAliveNoMemory(n)
  PROVE  EvSound' /\ data[n] \in Open /\ tdata[data[n]] = n
  <1>1. data[n] \in Open /\ tdata[data[n]] = n
    BY SoundFireOnly DEF KeepAliveNoMemory, EvSound, PendingOwned
  <1>2. WheelTypeOK' => TypeOK'
    BY <1>1, EvSoundTypes DEF EvSound, TypeOK, KeepAliveNoMemory
  <1>3. Open' = Open
    BY DEF KeepAliveNoMemory, Open
  <1> QED BY <1>1, <1>2, <1>3, LetGoSound DEF KeepAliveNoMemory

LEMMA IdleCloseSound ==
  ASSUME EvSound, NEW n \in Nodes, IdleClose(n)
  PROVE  EvSound' /\ data[n] \in Open /\ tdata[data[n]] = n /\ Open' = Open \ {data[n]}
  <1>1. data[n] \in Open /\ tdata[data[n]] = n
    BY SoundFireOnly DEF IdleClose, EvSound, PendingOwned
  <1>2. WheelTypeOK' => TypeOK'
    BY <1>1, EvSoundTypes DEF EvSound, TypeOK, IdleClose
  <1>3. Open' = Open \ {data[n]}
    BY <1>1, EvSoundTypes DEF IdleClose, Open
  <1> QED BY <1>1, <1>2, <1>3, LetGoSound DEF IdleClose

LEMMA NextSlotSound ==
  ASSUME EvSound, NextSlot PROVE EvSound'
  <1>1. WheelSound' /\ Pending' \subseteq Pending /\ data' = data /\ left # 0
    BY SoundSlotDone DEF EvSound, NextSlot, SlotDone
  <1>2. TypeOK'
    BY <1>1 DEF EvSound, TypeOK, WheelSound, NextSlot, evVars
  <1>3. PendingOwned'
    BY <1>1, OwnedStill DEF EvSound, NextSlot, evVars, Open
  <1> QED BY <1>1, <1>2, <1>3 DEF EvSound, NextSlot, evVars

LEMMA WheelDoneSound ==
  ASSUME EvSound, WheelDone PROVE EvSound'
  <1>1. WheelTypeOK' => TypeOK'
    BY DEF EvSound, TypeOK, WheelDone
  <1> QED BY <1>1, NoTimerSound DEF WheelDone, Outside, Open

LEMMA SweepSound ==
  ASSUME EvSound, Sweep
  PROVE  EvSound' /\ Open' = Open /\ \A e \in Open : tdata'[e] = tdata[e]
  <1>1. Open' = Open /\ (\A e \in Open : tdata'[e] = tdata[e]) /\ left = 0
    BY EvSoundTypes DEF EvSound, Sweep, Open
  <1>2. state' \in [Data -> {"free", "open", "deleted"}]
    BY EvSoundTypes DEF Sweep
  <1>3. tdata' \in [Data -> Nodes \cup {NoNode}]
    BY EvSoundTypes DEF Sweep
  <1>4. WheelTypeOK' => TypeOK'
    BY <1>2, <1>3 DEF EvSound, TypeOK, Sweep
  <1> QED BY <1>1, <1>4, NoTimerSound DEF Sweep

LEMMA EvSoundNext ==
  ASSUME EvSound, [Next]_vars PROVE EvSound'
  <1>1. CASE Peer
    BY <1>1, AcceptSound, AcceptNoMemorySound, RequestSound, CloseSound DEF Peer
  <1>2. CASE Fire
    BY <1>2, SkipSound, IdleCloseSound, KeepAliveNoMemorySound, KeepAliveSound DEF Fire
  <1>3. CASE UNCHANGED vars
    <2>1. WheelTypeOK' => TypeOK'
      BY <1>3 DEF EvSound, TypeOK, vars, evVars
    <2> QED BY <1>3, <2>1, NoTimerSound DEF vars, evVars, Open
  <1> QED
    BY <1>1, <1>2, <1>3, WaitSound, EndIoSound, NextSlotSound, WheelDoneSound, SweepSound
       DEF Next, Time, Loop

\* In every reachable state no node is on two lists, and who has a callback to
\* come is open (timer.c:90-170, ev.c:199-260).
THEOREM EvSoundAlways ==
  Spec => []EvSound
  <1>1. Init => EvSound
    BY EvSoundInit
  <1>2. EvSound /\ [Next]_vars => EvSound'
    BY EvSoundNext
  <1> QED BY <1>1, <1>2, PTL DEF Spec

\* Every variable keeps its type, however long the loop is held up: the ring
\* is never left (timer.c:196-225).
THEOREM EvTypeCorrect ==
  Spec => []TypeOK
  <1>1. EvSound => TypeOK
    BY DEF EvSound
  <1> QED BY <1>1, EvSoundAlways, PTL

\* However long the loop is held up, no callback runs on a struct ev that was
\* freed or that has another timer (time_wheel_timeout, ev_delete, ev.c:199).
THEOREM EvNoStrayCallback ==
  Spec => []PendingOwned
  <1>1. EvSound => PendingOwned
    BY DEF EvSound
  <1> QED BY <1>1, EvSoundAlways, PTL

\* The free list never holds more nodes than were pre-allocated.
THEOREM EvPoolBounded ==
  Spec => []PoolBounded
  <1>1. EvSound => PoolBounded
    BY DEF EvSound, WheelSound
  <1> QED BY <1>1, EvSoundAlways, PTL

(***************************************************************************)
(* Without a stall: the wheel's own invariant, and that every timer an     *)
(* open event points to still has its callback to come.                    *)
(***************************************************************************)
EvInv == TypeOK /\ WheelInv /\ TimersMatchEvents /\ (phase # "wheel" => left = 0)

EventsArmed == \A e \in Open : tdata[e] # NoNode => tdata[e] \in Pending /\ data[tdata[e]] = e

\* An event with a timer of its own.
Held(e) == e \in Open /\ tdata[e] # NoNode

LEMMA EvInvParts == EvInv <=> EvSound /\ WheelInv /\ EventsArmed
  BY WheelInvSound DEF EvInv, EvSound, TimersMatchEvents, PendingOwned, EventsArmed

LEMMA EvInvPartsNext == EvSound' /\ WheelInv' /\ EventsArmed' => EvInv'
  BY DEF EvInv, EvSound, TimersMatchEvents, PendingOwned, EventsArmed

LEMMA EvTypes ==
  ASSUME EvInv
  PROVE  /\ state \in [Data -> {"free", "open", "deleted"}]
         /\ tdata \in [Data -> Nodes \cup {NoNode}]
         /\ data \in [Nodes -> Data \cup {NoData}] /\ del \in [Nodes -> BOOLEAN]
         /\ age \in [Data -> Int] /\ idle \in [Data -> Int]
         /\ Pending \subseteq Nodes /\ NoNode \notin Nodes /\ NoData \notin Data
         /\ todo \subseteq Nodes /\ Open \subseteq Data
         /\ lag \in Int /\ lag <= MaxLag /\ MaxLag \in Nat
         /\ IdleTimeout \in Nat /\ IdleTimeout > 0 /\ AgeCap \in Nat
         /\ AgeCap >= IdleTimeout + MaxLag
  BY EvInvParts, EvSoundTypes

LEMMA EvInvInit ==
  ASSUME Init PROVE EvInv
  <1>1. WheelInv /\ EventsArmed
    BY InitStep DEF Init, EventsArmed, Open
  <1> QED BY <1>1, EvSoundInit, EvInvParts

\* The pending nodes and the timers of open events are as before.
LEMMA ArmedStill ==
  ASSUME EvInv, EvSound', WheelInv', \A e \in Open' : e \in Open /\ tdata'[e] = tdata[e],
         Pending \subseteq Pending', \A n \in Pending : data'[n] = data[n]
  PROVE  EvInv'
  <1>1. EventsArmed'
    BY EvInvParts DEF EventsArmed
  <1> QED BY <1>1, EvInvPartsNext

LEMMA WaitKeeps ==
  ASSUME EvInv, NEW d \in ClockSteps, Wait(d) PROVE EvInv'
  <1>1. WheelInv' /\ Pending' = Pending /\ data' = data
    BY ClockStepStep, ClockAssumption DEF EvInv, Wait, ClockStep, walkVars, nodeVars
  <1> QED BY <1>1, EvInvParts, WaitSound, ArmedStill DEF Wait, Open

LEMMA AcceptKeeps ==
  ASSUME EvInv, NEW e \in Data, NEW m \in Nodes, Accept(e, m) PROVE EvInv'
  <1>1. Arm(m, e, FALSE)
    BY DEF Accept
  <1>2. WheelInv' /\ m \notin Pending /\ Pending' = Pending \cup {m}
    BY <1>1, ArmStep DEF EvInv
  <1>3. /\ data' = [data EXCEPT ![m] = e] /\ tdata' = [tdata EXCEPT ![e] = m]
        /\ state' = [state EXCEPT ![e] = "open"]
    BY <1>1 DEF Accept, Arm, ArmAfter
  <1>4. Open' = Open \cup {e}
    BY <1>3, EvTypes DEF Open
  <1>5. EventsArmed'
    <2> SUFFICES ASSUME NEW x \in Open', tdata'[x] # NoNode
                 PROVE  tdata'[x] \in Pending' /\ data'[tdata'[x]] = x
      BY DEF EventsArmed
    <2> QED BY <1>2, <1>3, <1>4, EvTypes DEF EvInv, TimersMatchEvents
  <1> QED BY <1>2, <1>5, EvInvParts, EvInvPartsNext, AcceptSound

\* Steps that leave the wheel alone.
LEMMA NoTimerKeeps ==
  ASSUME EvInv, EvSound', UNCHANGED wheelVars, Open' = Open, \A e \in Open : tdata'[e] = tdata[e]
  PROVE  EvInv'
  <1>1. WheelInv' /\ Pending' = Pending /\ data' = data
    BY StutterStep DEF EvInv, wheelVars
  <1> QED BY <1>1, ArmedStill

\* Closing marks the node of the event, and no other.
LEMMA CloseKeeps ==
  ASSUME EvInv, NEW e \in Data, Close(e)
  PROVE  EvInv' /\ Open' = Open \ {e} /\ Pending' = Pending \ {tdata[e]}
  <1>1. EvSound' /\ Open' = Open \ {e} /\ Pending' = Pending \ {tdata[e]}
    BY EvInvParts, CloseSound
  <1>2. UNCHANGED <<slots, cur, lag, left, at, todo, data, heap, empty, tdata>>
    BY DEF Close, clockVars, walkVars
  <1>3. del' \in [Nodes -> BOOLEAN]
    BY EvTypes DEF Close
  <1>4. WheelInv'
    BY <1>2, <1>3, CancelStep DEF EvInv, clockVars, walkVars
  <1>5. EventsArmed'
    <2> SUFFICES ASSUME NEW x \in Open', tdata[x] # NoNode
                 PROVE  tdata[x] \in Pending' /\ data[tdata[x]] = x
      BY <1>2 DEF EventsArmed
    <2>1. x \in Open /\ x # e /\ tdata[x] \in Pending /\ data[tdata[x]] = x
      BY <1>1 DEF EvInv, TimersMatchEvents
    <2>2. tdata[x] # tdata[e]
      BY <2>1, EvTypes DEF EvInv, TimersMatchEvents, Open, Close
    <2> QED BY <1>1, <2>1, <2>2
  <1> QED BY <1>1, <1>4, <1>5, EvInvPartsNext

LEMMA EndIoKeeps ==
  ASSUME EvInv, NoStall, EndIo PROVE EvInv'
  <1>1. WheelInv' /\ Pending' = Pending /\ data' = data
    <2>1. CASE lag >= Every
      BY <2>1, HandleBeginStep DEF EvInv, EndIo, HandleBegin, nodeVars
    <2>2. CASE ~(lag >= Every)
      BY <2>2, StutterStep DEF EvInv, EndIo, wheelVars
    <2> QED BY <2>1, <2>2
  <1> QED BY <1>1, EvInvParts, EndIoSound, ArmedStill DEF EndIo, Open

LEMMA SkipKeeps ==
  ASSUME EvInv, NEW n \in Nodes, Skip(n) PROVE EvInv'
  <1>1. WheelInv' /\ Pending' = Pending
    BY SkipDeletedStep DEF EvInv, Skip, SkipDeleted
  <1> QED BY <1>1, EvInvParts, SkipSound, ArmedStill DEF Skip, evVars, Open

LEMMA KeepAliveKeeps ==
  ASSUME EvInv, NEW n \in Nodes, NEW m \in Nodes, KeepAlive(n, m)
  PROVE  EvInv' /\ data[n] \in Open /\ tdata[data[n]] = n /\ m \notin todo
  <1>1. n \in todo /\ FireRearm(n, m)
    BY DEF KeepAlive
  <1>2. /\ WheelInv' /\ n \in Pending /\ m \notin Pending
        /\ Pending' = (Pending \ {n}) \cup {m}
    BY <1>1, FireRearmStep DEF EvInv
  <1>3. EvSound' /\ data[n] \in Open /\ tdata[data[n]] = n /\ m \notin todo
    BY EvInvParts, KeepAliveSound
  <1>4. /\ tdata' = [tdata EXCEPT ![data[n]] = m]
        /\ data' = [data EXCEPT ![m] = data[n], ![n] = NoData]
        /\ Open' = Open
    BY <1>1 DEF KeepAlive, FireRearm, Open
  <1>5. EventsArmed'
    <2> SUFFICES ASSUME NEW x \in Open, tdata'[x] # NoNode
                 PROVE  tdata'[x] \in Pending' /\ data'[tdata'[x]] = x
      BY <1>4 DEF EventsArmed
    <2> QED BY <1>2, <1>3, <1>4, EvTypes DEF EvInv, TimersMatchEvents
  <1> QED BY <1>2, <1>3, <1>5, EvInvPartsNext

\* The callback of n returns without a timer, with or without its event.
LEMMA LetGoKeeps ==
  ASSUME EvInv, EvSound', NEW n \in Nodes, n \in todo, FireOnly(n),
         tdata' = [tdata EXCEPT ![data[n]] = NoNode], Open' \subseteq Open
  PROVE  EvInv'
  <1>1. WheelInv' /\ n \in Pending /\ Pending' = Pending \ {n}
    BY FireOnlyStep DEF EvInv
  <1>2. data[n] \in Open /\ tdata[data[n]] = n /\ data' = [data EXCEPT ![n] = NoData]
    BY <1>1 DEF EvInv, TimersMatchEvents, FireOnly
  <1>3. EventsArmed'
    <2> SUFFICES ASSUME NEW x \in Open', tdata'[x] # NoNode
                 PROVE  tdata'[x] \in Pending' /\ data'[tdata'[x]] = x
      BY DEF EventsArmed
    <2> QED BY <1>1, <1>2, EvTypes DEF EvInv, TimersMatchEvents
  <1> QED BY <1>1, <1>3, EvInvPartsNext

LEMMA KeepAliveNoMemoryKeeps ==
  ASSUME EvInv, NEW n \in Nodes, KeepAliveNoMemory(n)
  PROVE  EvInv' /\ data[n] \in Open /\ tdata[data[n]] = n
  BY EvInvParts, KeepAliveNoMemorySound, LetGoKeeps DEF KeepAliveNoMemory, Open

LEMMA IdleCloseKeeps ==
  ASSUME EvInv, NEW n \in Nodes, IdleClose(n)
  PROVE  EvInv' /\ data[n] \in Open /\ tdata[data[n]] = n /\ Open' = Open \ {data[n]}
  BY EvInvParts, IdleCloseSound, LetGoKeeps DEF IdleClose

LEMMA NextSlotKeeps ==
  ASSUME EvInv, NextSlot PROVE EvInv' /\ todo = {} /\ todo' = {}
  <1>1. WheelInv' /\ Pending' = Pending /\ todo' = {} /\ todo = {} /\ data' = data
    BY SlotDoneStep DEF EvInv, NextSlot, SlotDone
  <1> QED BY <1>1, EvInvParts, NextSlotSound, ArmedStill DEF NextSlot, evVars, Open

LEMMA EvInvNext ==
  ASSUME EvInv, NoStall, [Next]_vars PROVE EvInv'
  <1>1. EvSound'
    BY EvInvParts, EvSoundNext
  <1>2. CASE Peer
    <2>1. ASSUME NEW e \in Data, AcceptNoMemory(e) PROVE EvInv'
      BY <1>1, <2>1, EvInvParts, AcceptNoMemorySound, NoTimerKeeps DEF AcceptNoMemory
    <2>2. ASSUME NEW e \in Data, Request(e) PROVE EvInv'
      BY <1>1, <2>2, NoTimerKeeps DEF Request, Open
    <2> QED BY <1>2, <2>1, <2>2, AcceptKeeps, CloseKeeps DEF Peer
  <1>3. CASE Fire
    BY <1>3, SkipKeeps, IdleCloseKeeps, KeepAliveNoMemoryKeeps, KeepAliveKeeps DEF Fire
  <1>4. CASE WheelDone \/ UNCHANGED vars
    BY <1>1, <1>4, NoTimerKeeps DEF WheelDone, vars, evVars, Open
  <1>5. CASE Sweep
    BY <1>1, <1>5, EvInvParts, SweepSound, NoTimerKeeps DEF Sweep
  <1> QED
    BY <1>2, <1>3, <1>4, <1>5, WaitKeeps, EndIoKeeps, NextSlotKeeps DEF Next, Time, Loop

(***************************************************************************)
(* The invariant holds in every reachable state.                           *)
(***************************************************************************)
\* In every reachable state the wheel is sound and events and timers agree.
THEOREM EvInvAlways ==
  ASSUME NoStall PROVE Spec => []EvInv
  <1>1. Init => EvInv
    BY EvInvInit
  <1>2. EvInv /\ [Next]_vars => EvInv'
    BY EvInvNext
  <1> QED BY <1>1, <1>2, PTL DEF Spec

\* No node leaks, none is on two lists (time_data_get, time_data_put).
THEOREM EvNodesAccounted ==
  ASSUME NoStall PROVE Spec => []NodesAccounted
  <1>1. EvInv => NodesAccounted
    BY WheelInvAccounts DEF EvInv
  <1> QED BY <1>1, EvInvAlways, PTL

\* No callback runs on a freed struct ev, no event has two timers
\* (ev_delete, ev_timeout_set, ev_timeout_cb).
THEOREM EvTimersMatch ==
  ASSUME NoStall PROVE Spec => []TimersMatchEvents
  <1>1. EvInv => TimersMatchEvents
    BY DEF EvInv
  <1> QED BY <1>1, EvInvAlways, PTL

(***************************************************************************)
(* The wheel under the loop implements the timer service.                  *)
(***************************************************************************)
\* The status of the timer of e in terms of its node alone.
StatusOf(e) == IF ~Held(e) THEN "off" ELSE IF tdata[e] \in todo THEN "due" ELSE "armed"

StatusMap == [e \in Data |-> TimerStatus(e)]
HeldMap   == [e \in Data |-> e \in Open /\ tdata[e] # NoNode]

LEMMA StatusIs ==
  EvInv => /\ StatusMap = [e \in Data |-> StatusOf(e)]
           /\ HeldMap = [e \in Data |-> Held(e)]
  <1> SUFFICES ASSUME EvInv, NEW e \in Data PROVE TimerStatus(e) = StatusOf(e)
    BY DEF StatusMap, HeldMap, Held
  <1>1. \A n \in Pending : data[n] = e => Held(e) /\ tdata[e] = n
    BY EvTypes DEF EvInv, TimersMatchEvents, Held
  <1>2. Held(e) => tdata[e] \in Pending /\ data[tdata[e]] = e
    BY DEF EvInv, TimersMatchEvents, Held
  <1>3. \A n \in todo : ~del[n] => n \in Pending
    BY DEF Pending
  <1>4. \A n \in Pending : ~del[n] /\ n \in Nodes
    BY EvTypes DEF Pending
  <1> QED BY <1>1, <1>2, <1>3, <1>4, EvTypes DEF TimerStatus, StatusOf

LEMMA NextStatusIs ==
  EvInv' => /\ StatusMap' = [e \in Data |-> StatusOf(e)']
            /\ HeldMap' = [e \in Data |-> Held(e)']
  <1>1. (EvInv => /\ StatusMap = [e \in Data |-> StatusOf(e)]
                  /\ HeldMap = [e \in Data |-> Held(e)])'
    BY StatusIs, PTL
  <1> QED BY <1>1

\* A step of one event leaves the timers of the others alone.
LEMMA OneTimer ==
  ASSUME EvInv, EvInv', NEW e \in Data, NEW st, NEW h,
         StatusOf(e)' = st, Held(e)' = h,
         \A x \in Data \ {e} : StatusOf(x)' = StatusOf(x) /\ Held(x)' = Held(x)
  PROVE  StatusMap' = [StatusMap EXCEPT ![e] = st] /\ HeldMap' = [HeldMap EXCEPT ![e] = h]
  BY StatusIs, NextStatusIs

LEMMA SameTimers ==
  ASSUME EvInv, EvInv', \A x \in Data : StatusOf(x)' = StatusOf(x) /\ Held(x)' = Held(x)
  PROVE  UNCHANGED <<StatusMap, HeldMap>>
  BY StatusIs, NextStatusIs

LEMMA NoneDueOutside ==
  ASSUME EvInv, todo = {} PROVE \A e \in Data : StatusMap[e] # "due"
  BY StatusIs DEF StatusOf

LEMMA OutsideWhen ==
  ASSUME EvInv, phase # "wheel" \/ left = 0 PROVE left = 0 /\ todo = {}
  BY DEF EvInv, WheelInv, WalkOK

TimerNext == [Service!Next]_<<StatusMap, HeldMap>>

LEMMA AcceptStarts ==
  ASSUME EvInv, EvInv', NEW e \in Data, NEW m \in Nodes, Accept(e, m) PROVE Service!Start(e)
  <1>1. /\ state[e] = "free" /\ phase = "io" /\ UNCHANGED todo
        /\ tdata' = [tdata EXCEPT ![e] = m] /\ state' = [state EXCEPT ![e] = "open"]
    BY DEF Accept, Arm, ArmAfter, walkVars
  <1>2. todo = {}
    BY <1>1, OutsideWhen
  <1>3. ~Held(e) /\ Held(e)' = TRUE /\ StatusOf(e)' = "armed"
    BY <1>1, <1>2, EvTypes DEF Held, Open, StatusOf
  <1>4. \A x \in Data \ {e} : Held(x)' = Held(x) /\ StatusOf(x)' = StatusOf(x)
    BY <1>1, EvTypes DEF Held, Open, StatusOf
  <1>5. StatusMap' = [StatusMap EXCEPT ![e] = "armed"] /\ HeldMap' = [HeldMap EXCEPT ![e] = TRUE]
    BY <1>3, <1>4, OneTimer
  <1>6. ~HeldMap[e] /\ \A x \in Data : StatusMap[x] # "due"
    BY <1>2, <1>3, StatusIs, NoneDueOutside
  <1> QED BY <1>5, <1>6 DEF Service!Start, Service!NoneDue, StatusMap, HeldMap

LEMMA CloseCancels ==
  ASSUME EvInv, EvInv', NEW e \in Data, Close(e) PROVE TimerNext
  <1>1. /\ phase = "io" /\ UNCHANGED <<todo, tdata>> /\ Open' = Open \ {e}
    BY CloseKeeps DEF Close, walkVars
  <1>2. todo = {}
    BY <1>1, OutsideWhen
  <1>3. Held(e)' = FALSE /\ StatusOf(e)' = "off"
    BY <1>1 DEF Held, StatusOf
  <1>4. \A x \in Data \ {e} : Held(x)' = Held(x) /\ StatusOf(x)' = StatusOf(x)
    BY <1>1 DEF Held, StatusOf
  <1>5. CASE Held(e)
    <2>1. StatusMap' = [StatusMap EXCEPT ![e] = "off"] /\ HeldMap' = [HeldMap EXCEPT ![e] = FALSE]
      BY <1>3, <1>4, OneTimer
    <2>2. HeldMap[e] /\ \A x \in Data : StatusMap[x] # "due"
      BY <1>2, <1>5, StatusIs, NoneDueOutside
    <2>3. Service!Cancel(e)
      BY <2>1, <2>2 DEF Service!Cancel, Service!NoneDue, StatusMap, HeldMap
    <2> QED BY <2>3 DEF Service!Next, TimerNext
  <1>6. CASE ~Held(e)
    <2>1. \A x \in Data : StatusOf(x)' = StatusOf(x) /\ Held(x)' = Held(x)
      BY <1>3, <1>4, <1>6 DEF StatusOf, Held
    <2> QED BY <2>1, SameTimers DEF TimerNext
  <1> QED BY <1>5, <1>6

\* The wheel begins a walk: every timer that is held becomes due.
LEMMA EndIoExpires ==
  ASSUME EvInv, EvInv', EndIo PROVE TimerNext
  <1>1. /\ todo = {} /\ UNCHANGED <<state, tdata>>
    BY OutsideWhen DEF EndIo
  <1>2. Open' = Open /\ \A x \in Data : Held(x)' = Held(x)
    BY <1>1 DEF Open, Held
  <1>3. CASE lag >= Every
    <2>1. \A x \in Data : Held(x) => tdata[x] \in todo'
      BY <1>1, <1>3, PendingIsCurOrTodo DEF EvInv, TimersMatchEvents, Held, EndIo, HandleBegin
    <2> DEFINE S == {x \in Data : Held(x)}
    <2>2. \A x \in Data : /\ StatusOf(x) = IF x \in S THEN "armed" ELSE "off"
                          /\ StatusOf(x)' = IF x \in S THEN "due" ELSE StatusOf(x)
      BY <1>1, <1>2, <2>1 DEF StatusOf
    <2>3. /\ \A x \in S : StatusMap[x] = "armed"
          /\ StatusMap' = [x \in Data |-> IF x \in S THEN "due" ELSE StatusMap[x]]
          /\ HeldMap' = HeldMap
      BY <1>2, <2>2, StatusIs, NextStatusIs
    <2>4. Service!Expire(S)
      BY <1>1, <2>3, NoneDueOutside DEF Service!Expire, Service!NoneDue, StatusMap, HeldMap
    <2> QED BY <2>4 DEF Service!Next, TimerNext
  <1>4. CASE ~(lag >= Every)
    <2>1. todo' = todo
      BY <1>4 DEF EndIo, wheelVars
    <2>2. \A x \in Data : StatusOf(x)' = StatusOf(x)
      BY <1>1, <1>2, <2>1 DEF StatusOf
    <2> QED BY <1>2, <2>2, SameTimers DEF TimerNext
  <1> QED BY <1>3, <1>4

LEMMA KeepAliveServes ==
  ASSUME EvInv, EvInv', NEW n \in Nodes, NEW m \in Nodes, NEW e \in Data, e = data[n],
         KeepAlive(n, m)
  PROVE  Service!Serve(e)
  <1>1. n \in todo /\ e \in Open /\ tdata[e] = n /\ m \notin todo
    BY KeepAliveKeeps DEF KeepAlive
  <1>2. /\ tdata' = [tdata EXCEPT ![e] = m] /\ todo' = todo \ {n} /\ Open' = Open
    BY DEF KeepAlive, FireRearm, Open
  <1>3. Held(e)' = TRUE /\ StatusOf(e)' = "armed" /\ StatusOf(e) = "due"
    BY <1>1, <1>2, EvTypes DEF Held, StatusOf
  <1>4. \A x \in Data \ {e} : Held(x) => tdata[x] # n
    BY <1>1 DEF EvInv, TimersMatchEvents, Held
  <1>5. \A x \in Data \ {e} : Held(x)' = Held(x) /\ StatusOf(x)' = StatusOf(x)
    BY <1>1, <1>2, <1>4, EvTypes DEF Held, StatusOf
  <1>6. StatusMap' = [StatusMap EXCEPT ![e] = "armed"] /\ HeldMap' = [HeldMap EXCEPT ![e] = TRUE]
    BY <1>3, <1>5, OneTimer
  <1>7. StatusMap[e] = "due"
    BY <1>3, StatusIs
  <1> QED BY <1>6, <1>7 DEF Service!Serve, StatusMap, HeldMap

\* The callback of n lets go of its timer.
LEMMA LetGoServes ==
  ASSUME EvInv, EvInv', NEW n \in Nodes, NEW e \in Data, e = data[n],
         n \in todo, e \in Open, tdata[e] = n,
         todo' = todo \ {n}, tdata' = [tdata EXCEPT ![e] = NoNode],
         Open' \subseteq Open, Open \ {e} \subseteq Open'
  PROVE  Service!Serve(e)
  <1>2. Held(e)' = FALSE /\ StatusOf(e)' = "off" /\ StatusOf(e) = "due"
    BY EvTypes DEF Held, StatusOf
  <1>3. \A x \in Data \ {e} : Held(x) => tdata[x] # n
    BY DEF EvInv, TimersMatchEvents, Held
  <1>4. \A x \in Data \ {e} : Held(x)' = Held(x) /\ StatusOf(x)' = StatusOf(x)
    BY <1>3, EvTypes DEF Held, StatusOf
  <1>5. StatusMap' = [StatusMap EXCEPT ![e] = "off"] /\ HeldMap' = [HeldMap EXCEPT ![e] = FALSE]
    BY <1>2, <1>4, OneTimer
  <1>6. StatusMap[e] = "due"
    BY <1>2, StatusIs
  <1> QED BY <1>5, <1>6 DEF Service!Serve, StatusMap, HeldMap

\* Steps that leave the timers of open events alone.
LEMMA TimersUntouched ==
  ASSUME EvInv, EvInv', Open' = Open, \A e \in Open : tdata'[e] = tdata[e], todo' = todo
  PROVE  TimerNext
  <1>1. \A x \in Data : StatusOf(x)' = StatusOf(x) /\ Held(x)' = Held(x)
    BY DEF StatusOf, Held
  <1> QED BY <1>1, SameTimers DEF TimerNext

LEMMA SkipUntouched ==
  ASSUME EvInv, EvInv', NEW n \in Nodes, Skip(n) PROVE TimerNext
  <1>1. n \notin Pending /\ todo' = todo \ {n} /\ UNCHANGED <<state, tdata>>
    BY DEF Skip, SkipDeleted, evVars, Pending
  <1>2. \A x \in Data : Held(x) => tdata[x] # n
    BY <1>1 DEF EvInv, TimersMatchEvents, Held
  <1>3. \A x \in Data : StatusOf(x)' = StatusOf(x) /\ Held(x)' = Held(x)
    BY <1>1, <1>2 DEF StatusOf, Held, Open
  <1> QED BY <1>3, SameTimers DEF TimerNext

\* Every step of the loop is a step of the service or none.
LEMMA LoopServes ==
  ASSUME EvInv, EvInv', NoStall, [Next]_vars PROVE TimerNext
  <1>1. CASE UNCHANGED vars
    BY <1>1, TimersUntouched DEF vars, evVars, wheelVars, Open
  <1>2. ASSUME NEW e \in Data, NEW m \in Nodes, Accept(e, m) PROVE TimerNext
    BY <1>2, AcceptStarts DEF TimerNext, Service!Next
  <1>3. ASSUME NEW e \in Data, AcceptNoMemory(e) PROVE TimerNext
    <2>1. Open' = Open
      BY <1>3, EvTypes DEF AcceptNoMemory, Open
    <2> QED BY <1>3, <2>1, TimersUntouched DEF AcceptNoMemory, wheelVars
  <1>4. ASSUME NEW e \in Data, Request(e) PROVE TimerNext
    BY <1>4, TimersUntouched DEF Request, wheelVars, Open
  <1>5. ASSUME NEW e \in Data, Close(e) PROVE TimerNext
    BY <1>5, CloseCancels
  <1>6. ASSUME NEW d \in ClockSteps, Wait(d) PROVE TimerNext
    BY <1>6, TimersUntouched DEF Wait, ClockStep, walkVars, Open
  <1>7. CASE EndIo
    BY <1>7, EndIoExpires
  <1>8. ASSUME NEW n \in Nodes, Skip(n) PROVE TimerNext
    BY <1>8, SkipUntouched
  <1>9. ASSUME NEW n \in Nodes, NEW m \in Nodes, KeepAlive(n, m) PROVE TimerNext
    <2>1. data[n] \in Data
      BY <1>9, KeepAliveKeeps DEF Open
    <2> QED BY <1>9, <2>1, KeepAliveServes DEF TimerNext, Service!Next
  <1>10. ASSUME NEW n \in Nodes, KeepAliveNoMemory(n) \/ IdleClose(n) PROVE TimerNext
    <2>1. data[n] \in Open /\ tdata[data[n]] = n /\ data[n] \in Data
      BY <1>10, KeepAliveNoMemoryKeeps, IdleCloseKeeps DEF Open
    <2>2. /\ n \in todo /\ todo' = todo \ {n} /\ tdata' = [tdata EXCEPT ![data[n]] = NoNode]
      BY <1>10 DEF KeepAliveNoMemory, IdleClose, FireOnly
    <2>3. Open' \subseteq Open /\ Open \ {data[n]} \subseteq Open'
      BY <1>10, IdleCloseKeeps DEF KeepAliveNoMemory, Open
    <2> QED BY <2>1, <2>2, <2>3, LetGoServes DEF TimerNext, Service!Next
  <1>11. CASE NextSlot
    BY <1>11, NextSlotKeeps, TimersUntouched DEF NextSlot, evVars, Open
  <1>12. CASE WheelDone
    BY <1>12, TimersUntouched DEF WheelDone, wheelVars, Open
  <1>13. CASE Sweep
    BY <1>13, EvInvParts, SweepSound, TimersUntouched DEF Sweep, wheelVars
  <1> QED
    BY <1>1, <1>2, <1>3, <1>4, <1>5, <1>6, <1>7, <1>8, <1>9, <1>10, <1>11, <1>12, <1>13
       DEF Next, Peer, Time, Loop, Fire

\* The wheel under the event loop implements the timer service: the callback
\* of an event that holds a timer runs once, between two io phases, unless
\* the event was closed, and none runs for an event that holds no timer
\* (time_wheel_add, time_wheel_handle, ev_timeout_set, ev_delete).
THEOREM EvImplementsTimerService ==
  ASSUME NoStall PROVE Spec => ImplementsTimerService
  <1>1. Init => Service!Init
    <2>1. Init => EvInv /\ Open = {}
      BY EvInvInit DEF Init, Open
    <2>2. Init => \A e \in Data : StatusOf(e) = "off" /\ Held(e) = FALSE
      BY <2>1 DEF StatusOf, Held
    <2> QED BY <2>1, <2>2, StatusIs DEF Service!Init, StatusMap, HeldMap
  <1>2. EvInv /\ EvInv' /\ [Next]_vars => [Service!Next]_<<StatusMap, HeldMap>>
    BY LoopServes DEF TimerNext
  <1>3. Spec => []EvInv
    BY EvInvAlways
  <1> QED
    BY <1>1, <1>2, <1>3, PTL DEF Spec, ImplementsTimerService, Service!Spec, StatusMap, HeldMap

\* A timer that its event holds is armed or due, and no other is: none is lost,
\* and none fires for an event that let go of it (the promise of timer.h:16).
THEOREM EvHeldWillFire ==
  ASSUME NoStall PROVE Spec => []Service!HeldWillFire
  <1> DEFINE P == Service!TypeOK /\ Service!HeldWillFire
  <1>1. Service!Init => P
    BY DEF Service!Init, Service!TypeOK, Service!HeldWillFire
  <1>2. P /\ [Service!Next]_<<StatusMap, HeldMap>> => P'
    <2> SUFFICES ASSUME P, [Service!Next]_<<StatusMap, HeldMap>> PROVE P'
      OBVIOUS
    <2>1. ASSUME NEW t \in Data, Service!Start(t) PROVE P'
      BY <2>1 DEF Service!Start, Service!TypeOK, Service!HeldWillFire, StatusMap, HeldMap
    <2>2. ASSUME NEW t \in Data, Service!Cancel(t) PROVE P'
      BY <2>2 DEF Service!Cancel, Service!TypeOK, Service!HeldWillFire, StatusMap, HeldMap
    <2>3. ASSUME NEW t \in Data, Service!Serve(t) PROVE P'
      BY <2>3 DEF Service!Serve, Service!TypeOK, Service!HeldWillFire, StatusMap, HeldMap
    <2>4. ASSUME NEW S \in SUBSET Data, Service!Expire(S) PROVE P'
      <3>1. /\ StatusMap' = [t \in Data |-> IF t \in S THEN "due" ELSE StatusMap[t]]
            /\ HeldMap' = HeldMap /\ \A t \in S : StatusMap[t] = "armed"
        BY <2>4 DEF Service!Expire, StatusMap, HeldMap
      <3>2. /\ StatusMap \in [Data -> {"off", "armed", "due"}] /\ HeldMap \in [Data -> BOOLEAN]
            /\ \A t \in Data : HeldMap[t] <=> StatusMap[t] # "off"
        BY DEF Service!TypeOK, Service!HeldWillFire, StatusMap, HeldMap
      <3>3. /\ StatusMap' \in [Data -> {"off", "armed", "due"}]
            /\ HeldMap' \in [Data -> BOOLEAN]
        BY <3>1, <3>2
      <3>4. \A t \in Data : StatusMap'[t] # "off" <=> StatusMap[t] # "off"
        BY <3>1
      <3>5. \A t \in Data : HeldMap'[t] <=> StatusMap'[t] # "off"
        BY <3>1, <3>2, <3>4
      <3> QED BY <3>3, <3>5 DEF Service!TypeOK, Service!HeldWillFire, StatusMap, HeldMap
    <2>5. CASE UNCHANGED <<StatusMap, HeldMap>>
      BY <2>5 DEF Service!TypeOK, Service!HeldWillFire, StatusMap, HeldMap
    <2> QED BY <2>1, <2>2, <2>3, <2>4, <2>5 DEF Service!Next
  <1>3. Service!Spec => []P
    BY <1>1, <1>2, PTL DEF Service!Spec, StatusMap, HeldMap
  <1>4. P => Service!HeldWillFire
    OBVIOUS
  <1> QED BY <1>3, <1>4, EvImplementsTimerService, PTL DEF ImplementsTimerService

(***************************************************************************)
(* Idle connections.  A re-arm sets up_time, so that the age of an event   *)
(* is not the time since its last request.  What saves the bound is that   *)
(* the first callback after a request already comes when the age is that   *)
(* time, and that a callback which does not close re-arms with no lag.     *)
(* The clock must not be set back, and a timeout not be longer than a      *)
(* tick: 10 seconds both, ev.c:199-212 and rpc.c:329-341.                  *)
(***************************************************************************)
NeverBack == ClockSteps \subseteq Nat
TickCoversIdle == IdleTimeout <= Every

\* The age never says more than the idle time; what is not open has neither.
AgeInv == \A e \in Data : 0 <= age[e] /\ age[e] <= idle[e]

LEMMA AgeInvNext ==
  ASSUME EvSound, AgeInv, NeverBack, [Next]_vars PROVE AgeInv'
  <1>1. ASSUME NEW e \in Data PROVE age[e] \in Int /\ idle[e] \in Int
    BY EvSoundTypes
  <1>2. ASSUME NEW d \in ClockSteps, Wait(d) PROVE AgeInv'
    BY <1>1, <1>2, EvSoundTypes DEF AgeInv, Wait, Older, NeverBack
  <1>3. ASSUME NEW e \in Data, NEW m \in Nodes, Accept(e, m) PROVE AgeInv'
    BY <1>1, <1>3, EvSoundTypes DEF AgeInv, Accept
  <1>4. ASSUME NEW e \in Data, Request(e) \/ Close(e) PROVE AgeInv'
    BY <1>1, <1>4, EvSoundTypes DEF AgeInv, Request, Close
  <1>5. ASSUME NEW e \in Data, AcceptNoMemory(e) PROVE AgeInv'
    BY <1>5 DEF AgeInv, AcceptNoMemory
  <1>6. CASE Fire
    <2>1. ASSUME NEW n \in Nodes, IdleClose(n) PROVE AgeInv'
      BY <1>1, <2>1, EvSoundTypes DEF AgeInv, IdleClose
    <2>2. ASSUME NEW n \in Nodes, NEW m \in Nodes, KeepAlive(n, m) PROVE AgeInv'
      BY <1>1, <2>2, EvSoundTypes DEF AgeInv, KeepAlive
    <2>3. ASSUME NEW n \in Nodes, Skip(n) \/ KeepAliveNoMemory(n) PROVE AgeInv'
      BY <2>3 DEF AgeInv, Skip, KeepAliveNoMemory, evVars
    <2> QED BY <1>6, <2>1, <2>2, <2>3 DEF Fire
  <1>7. CASE EndIo \/ NextSlot \/ WheelDone \/ Sweep \/ UNCHANGED vars
    BY <1>7 DEF AgeInv, EndIo, NextSlot, WheelDone, Sweep, vars, evVars
  <1> QED BY <1>2, <1>3, <1>4, <1>5, <1>6, <1>7 DEF Next, Peer, Time, Loop

LEMMA AgeInvAlways ==
  ASSUME NeverBack PROVE Spec => []AgeInv
  <1>1. Init => AgeInv
    BY DEF Init, AgeInv
  <1>2. EvSound /\ AgeInv /\ [Next]_vars => AgeInv'
    BY AgeInvNext
  <1> QED BY <1>1, <1>2, EvSoundAlways, PTL DEF Spec

\* The wheel closes a connection only after a full timeout without a request
\* (rpc_session_timeout_fn), if the clock is never set back,
\* however long the loop is held up.
THEOREM EvClosedOnlyWhenIdle ==
  ASSUME NeverBack PROVE Spec => ClosedOnlyWhenIdle
  <1>1. ASSUME EvSound, AgeInv, Next, NEW e \in Data,
               state[e] = "open", state'[e] = "deleted", phase = "wheel"
        PROVE  idle[e] >= IdleTimeout
    <2>1. PICK n \in Nodes : IdleClose(n) /\ data[n] = e
      BY <1>1, EvSoundTypes
         DEF Next, Peer, Accept, AcceptNoMemory, Request, Close, Time, Wait, Loop, EndIo, Fire,
             Skip, KeepAlive, KeepAliveNoMemory, IdleClose, NextSlot, WheelDone, Sweep, evVars
    <2>2. ~(age[e] < IdleTimeout)
      BY <2>1 DEF IdleClose, Active
    <2> QED BY <1>1, <2>2, EvSoundTypes DEF AgeInv
  <1>2. EvSound /\ AgeInv /\ [Next]_vars =>
          [\A e \in Data : state[e] = "open" /\ state'[e] = "deleted" /\ phase = "wheel"
             => idle[e] >= IdleTimeout]_vars
    BY <1>1
  <1> QED BY <1>2, EvSoundAlways, AgeInvAlways, PTL DEF Spec, ClosedOnlyWhenIdle

\* Of a connection with a timer: before its callback comes it has been idle
\* for less than a timeout and the lag; a callback that is due sees the idle
\* time, or an age that closes the connection.
IdleOK(e) ==
  IF tdata[e] \in todo
  THEN idle[e] < IdleTimeout + MaxLag /\ (age[e] = idle[e] \/ age[e] >= Every)
  ELSE idle[e] < IdleTimeout + lag /\ (age[e] = idle[e] \/ age[e] >= lag)

IdleInv ==
  /\ lag >= 0
  /\ left > 0 => lag = 0
  /\ \A e \in Data : Held(e) => IdleOK(e)

\* Steps that leave the clock, the walk and the timers of open events alone.
LEMMA IdleSame ==
  ASSUME IdleInv, UNCHANGED <<lag, left, todo, age, idle>>, Open' = Open,
         \A e \in Open : tdata'[e] = tdata[e]
  PROVE  IdleInv'
  BY DEF IdleInv, IdleOK, Held

\* A step of the clock adds the same to the lag, to the age and to idle.
LEMMA IdleWait ==
  ASSUME EvInv, IdleInv, NeverBack, NEW d \in ClockSteps, Wait(d) PROVE IdleInv'
  <1>1. /\ left = 0 /\ left' = left /\ lag' = lag + d /\ todo = {} /\ todo' = {}
        /\ lag + d <= MaxLag /\ Open' = Open /\ tdata' = tdata
        /\ age' = Older(age, d) /\ idle' = Older(idle, d)
    BY OutsideWhen, ClockAssumption DEF Wait, ClockStep, walkVars, Outside, Open
  <1>2. d \in Nat
    BY DEF NeverBack
  <1>3. ASSUME NEW e \in Data, Held(e) PROVE IdleOK(e)'
    <2>1. /\ idle[e] < IdleTimeout + lag /\ (age[e] = idle[e] \/ age[e] >= lag)
          /\ age[e] \in Int /\ idle[e] \in Int /\ state[e] = "open"
      BY <1>1, <1>3, EvTypes DEF IdleInv, IdleOK, Held, Open
    <2>2. PICK a \in Int : a = age'[e] /\ a = IF age[e] + d > AgeCap THEN AgeCap ELSE age[e] + d
      BY <1>1, <1>2, <2>1, EvTypes DEF Older
    <2>3. PICK i \in Int : i = idle'[e] /\ i = IF idle[e] + d > AgeCap THEN AgeCap ELSE idle[e] + d
      BY <1>1, <1>2, <2>1, EvTypes DEF Older
    <2>4. i < IdleTimeout + (lag + d) /\ (a = i \/ a >= lag + d)
      BY <1>1, <1>2, <2>1, <2>2, <2>3, EvTypes
    <2> QED BY <1>1, <2>2, <2>3, <2>4 DEF IdleOK
  <1>4. \A e \in Data : Held(e)' => Held(e)
    BY <1>1 DEF Held
  <1>5. PICK l \in Int : l = lag' /\ l >= 0
    BY <1>1, <1>2, EvTypes DEF IdleInv
  <1> QED BY <1>1, <1>3, <1>4, <1>5 DEF IdleInv

\* An event that starts afresh.
LEMMA IdleFresh ==
  ASSUME EvInv, IdleInv, NEW e \in Data, UNCHANGED <<lag, left, todo>>, todo = {},
         age' = [age EXCEPT ![e] = 0], idle' = [idle EXCEPT ![e] = 0],
         \A x \in Data \ {e} : Held(x)' => Held(x) /\ tdata'[x] = tdata[x]
  PROVE  IdleInv'
  <1>1. ASSUME NEW x \in Data, Held(x)' PROVE IdleOK(x)'
    <2>1. CASE x = e
      <3>1. age'[x] = 0 /\ idle'[x] = 0
        BY <2>1, EvTypes
      <3>2. 0 < IdleTimeout + lag
        BY EvTypes DEF IdleInv
      <3> QED BY <3>1, <3>2 DEF IdleOK
    <2>2. CASE x # e
      <3>1. IdleOK(x) /\ age'[x] = age[x] /\ idle'[x] = idle[x] /\ tdata'[x] = tdata[x]
        BY <1>1, <2>2, EvTypes DEF IdleInv
      <3> QED BY <3>1 DEF IdleOK
    <2> QED BY <2>1, <2>2
  <1> QED BY <1>1 DEF IdleInv

LEMMA IdleEndIo ==
  ASSUME EvInv, IdleInv, EndIo PROVE IdleInv'
  <1>1. CASE ~(lag >= Every)
    BY <1>1, IdleSame DEF EndIo, wheelVars, Open
  <1>2. CASE lag >= Every
    <2>1. /\ lag' = 0 /\ todo = {} /\ todo' = slots[cur]
          /\ UNCHANGED <<age, idle, tdata>> /\ Open' = Open
      BY <1>2, OutsideWhen DEF EndIo, HandleBegin, Open
    <2>2. ASSUME NEW x \in Data, Held(x) PROVE IdleOK(x)'
      <3>1. tdata[x] \in todo'
        BY <2>1, <2>2, PendingIsCurOrTodo DEF EvInv, TimersMatchEvents, Held
      <3>2. idle[x] < IdleTimeout + lag /\ (age[x] = idle[x] \/ age[x] >= lag)
        BY <2>1, <2>2 DEF IdleInv, IdleOK
      <3>3. idle[x] < IdleTimeout + MaxLag /\ (age[x] = idle[x] \/ age[x] >= Every)
        BY <1>2, <3>2, EvTypes, RingAssumption
      <3> QED BY <2>1, <3>1, <3>3 DEF IdleOK
    <2>3. \A x \in Data : Held(x)' => Held(x)
      BY <2>1 DEF Held
    <2> QED BY <2>1, <2>2, <2>3 DEF IdleInv
  <1> QED BY <1>1, <1>2

\* A callback does not change what is idle, and re-arms without lag.
LEMMA IdleFire ==
  ASSUME EvInv, IdleInv, TickCoversIdle, Fire PROVE IdleInv'
  <1>1. UNCHANGED <<lag, left>>
    BY DEF Fire, Skip, SkipDeleted, IdleClose, KeepAliveNoMemory, KeepAlive, FireOnly, FireRearm
  <1>2. ASSUME NEW n \in Nodes, todo' = todo \ {n}, NEW e \in Data,
               \A x \in Data \ {e} : Held(x) => tdata[x] # n,
               \A x \in Data \ {e} : age'[x] = age[x] /\ idle'[x] = idle[x],
               \A x \in Data \ {e} : Held(x)' => Held(x) /\ tdata'[x] = tdata[x],
               Held(e)' => IdleOK(e)'
        PROVE  IdleInv'
    <2>1. ASSUME NEW x \in Data \ {e}, Held(x)' PROVE IdleOK(x)'
      <3>1. IdleOK(x) /\ age'[x] = age[x] /\ idle'[x] = idle[x] /\ tdata'[x] = tdata[x]
        BY <1>2, <2>1 DEF IdleInv
      <3>2. tdata'[x] \in todo' <=> tdata[x] \in todo
        BY <1>2, <2>1, <3>1
      <3> QED BY <1>1, <3>1, <3>2 DEF IdleOK
    <2> QED BY <1>1, <1>2, <2>1 DEF IdleInv
  <1>3. ASSUME NEW n \in Nodes, NEW e \in Data, data[n] = e, e \in Open, tdata[e] = n,
               n \in todo, NEW x \in Data \ {e}, Held(x)
        PROVE  tdata[x] # n
    BY <1>3 DEF EvInv, TimersMatchEvents, Held
  <1>4. ASSUME NEW n \in Nodes, Skip(n) PROVE IdleInv'
    <2>1. n \notin Pending /\ todo' = todo \ {n} /\ UNCHANGED <<state, tdata, age, idle>>
      BY <1>4 DEF Skip, SkipDeleted, evVars, Pending
    <2>2. ASSUME NEW x \in Data, Held(x)' PROVE IdleOK(x)'
      <3>1. Held(x) /\ IdleOK(x) /\ tdata[x] # n
        BY <2>1, <2>2 DEF Held, Open, IdleInv, EvInv, TimersMatchEvents
      <3> QED BY <1>1, <2>1, <3>1 DEF IdleOK
    <2> QED BY <1>1, <2>2 DEF IdleInv
  <1>5. ASSUME NEW n \in Nodes, KeepAliveNoMemory(n) \/ IdleClose(n) PROVE IdleInv'
    <2>1. /\ data[n] \in Open /\ data[n] \in Data /\ tdata[data[n]] = n
          /\ Open' \subseteq Open
      BY <1>5, KeepAliveNoMemoryKeeps, IdleCloseKeeps DEF Open, KeepAliveNoMemory
    <2> DEFINE others == Data \ {data[n]}
    <2>2. /\ n \in todo /\ todo' = todo \ {n} /\ tdata' = [tdata EXCEPT ![data[n]] = NoNode]
          /\ \A x \in others : age'[x] = age[x] /\ idle'[x] = idle[x]
      BY <1>5, EvTypes DEF KeepAliveNoMemory, IdleClose, FireOnly
    <2>3. PICK e \in Data : e = data[n]
      BY <2>1
    <2>4. /\ ~Held(e)'
          /\ \A x \in Data \ {e} : Held(x)' => Held(x) /\ tdata'[x] = tdata[x]
      BY <2>1, <2>2, <2>3, EvTypes DEF Held
    <2> QED BY <1>2, <1>3, <2>1, <2>2, <2>3, <2>4
  <1>6. ASSUME NEW n \in Nodes, NEW m \in Nodes, KeepAlive(n, m) PROVE IdleInv'
    <2>1. data[n] \in Open /\ data[n] \in Data /\ tdata[data[n]] = n /\ m \notin todo
      BY <1>6, KeepAliveKeeps DEF Open
    <2>2. PICK e \in Data : e = data[n]
      BY <2>1
    <2>3. /\ n \in todo /\ todo' = todo \ {n} /\ tdata' = [tdata EXCEPT ![e] = m]
          /\ Open' = Open /\ age' = [age EXCEPT ![e] = 0] /\ idle' = idle /\ Active(e)
      BY <1>6, <2>2 DEF KeepAlive, FireRearm, Open
    <2>4. lag = 0
      <3>1. left # 0 /\ left \in Nat
        BY <2>3, EvInvParts, WalkIsWheelPhase DEF EvInv, WheelInv, WheelTypeOK
      <3> QED BY <3>1 DEF IdleInv
    <2>5. idle[e] < IdleTimeout
      <3>1. age[e] < IdleTimeout /\ (age[e] = idle[e] \/ age[e] >= Every)
        BY <2>1, <2>2, <2>3, EvTypes DEF IdleInv, IdleOK, Held, Active
      <3> QED BY <3>1, EvTypes, RingAssumption DEF TickCoversIdle
    <2>6. IdleOK(e)'
      <3>1. tdata'[e] \notin todo' /\ age'[e] = 0 /\ idle'[e] = idle[e] /\ lag' = 0
        BY <1>1, <2>1, <2>3, <2>4, EvTypes
      <3>2. idle[e] < IdleTimeout + 0 /\ 0 >= 0
        BY <2>5, EvTypes
      <3> QED BY <3>1, <3>2 DEF IdleOK
    <2>7. /\ \A x \in Data \ {e} : Held(x)' => Held(x) /\ tdata'[x] = tdata[x]
          /\ \A x \in Data \ {e} : age'[x] = age[x] /\ idle'[x] = idle[x]
      BY <2>3, EvTypes DEF Held
    <2> QED BY <1>2, <1>3, <2>1, <2>2, <2>3, <2>6, <2>7
  <1> QED BY <1>4, <1>5, <1>6 DEF Fire

LEMMA IdleInvNext ==
  ASSUME EvInv, IdleInv, NeverBack, TickCoversIdle, [Next]_vars PROVE IdleInv'
  <1>1. ASSUME NEW e \in Data, NEW m \in Nodes, Accept(e, m) PROVE IdleInv'
    <2>1. /\ todo = {} /\ UNCHANGED <<lag, left, todo>> /\ state[e] = "free"
          /\ tdata' = [tdata EXCEPT ![e] = m] /\ state' = [state EXCEPT ![e] = "open"]
          /\ age' = [age EXCEPT ![e] = 0] /\ idle' = [idle EXCEPT ![e] = 0]
      BY <1>1, OutsideWhen DEF Accept, Arm, ArmAfter, clockVars, walkVars
    <2>2. \A x \in Data \ {e} : Held(x)' => Held(x) /\ tdata'[x] = tdata[x]
      BY <2>1, EvTypes DEF Held, Open
    <2> QED BY <2>1, <2>2, IdleFresh
  <1>2. ASSUME NEW e \in Data, Request(e) PROVE IdleInv'
    <2>1. todo = {} /\ UNCHANGED <<lag, left, todo, tdata, state>>
      BY <1>2, OutsideWhen DEF Request, wheelVars
    <2>2. \A x \in Data \ {e} : Held(x)' => Held(x) /\ tdata'[x] = tdata[x]
      BY <2>1 DEF Held, Open
    <2> QED BY <1>2, <2>1, <2>2, IdleFresh DEF Request
  <1>3. ASSUME NEW e \in Data, Close(e) PROVE IdleInv'
    <2>1. /\ todo = {} /\ UNCHANGED <<lag, left, todo, tdata>>
          /\ age' = [age EXCEPT ![e] = 0] /\ idle' = [idle EXCEPT ![e] = 0] /\ Open' = Open \ {e}
      BY <1>3, OutsideWhen, CloseKeeps DEF Close, clockVars, walkVars
    <2>2. \A x \in Data \ {e} : Held(x)' => Held(x) /\ tdata'[x] = tdata[x]
      BY <2>1 DEF Held
    <2> QED BY <2>1, <2>2, IdleFresh
  <1>4. ASSUME NEW e \in Data, AcceptNoMemory(e) PROVE IdleInv'
    <2>1. Open' = Open
      BY <1>4, EvTypes DEF AcceptNoMemory, Open
    <2> QED BY <1>4, <2>1, IdleSame DEF AcceptNoMemory, wheelVars
  <1>5. CASE NextSlot
    <2>1. /\ todo' = todo /\ lag' = lag /\ left > 0 /\ UNCHANGED <<state, tdata, age, idle>>
      BY <1>5, NextSlotKeeps DEF NextSlot, SlotDone, evVars
    <2> QED BY <2>1 DEF IdleInv, IdleOK, Held, Open
  <1>6. CASE WheelDone \/ UNCHANGED vars
    BY <1>6, IdleSame DEF WheelDone, vars, evVars, wheelVars, Open
  <1>7. CASE Sweep
    BY <1>7, EvInvParts, SweepSound, IdleSame DEF Sweep, wheelVars
  <1> QED
    BY <1>1, <1>2, <1>3, <1>4, <1>5, <1>6, <1>7, IdleWait, IdleEndIo, IdleFire
       DEF Next, Peer, Time, Loop

\* A connection whose timer is armed is closed before it has been idle for a
\* timeout and one gap between two turns of the loop, although every re-arm
\* sets up_time as if the peer had been heard from.
THEOREM EvIdleBounded ==
  ASSUME NoStall, NeverBack, TickCoversIdle PROVE Spec => []IdleBounded
  <1>1. Init => IdleInv
    BY DEF Init, WheelInit, IdleInv, Held, Open
  <1>2. EvInv /\ IdleInv /\ [Next]_vars => IdleInv'
    BY IdleInvNext
  <1>3. EvInv /\ IdleInv => IdleBounded
    <2> SUFFICES ASSUME EvInv, IdleInv, NEW e \in Open, tdata[e] # NoNode
                 PROVE  idle[e] < IdleTimeout + MaxLag
      BY DEF IdleBounded
    <2>1. e \in Data /\ Held(e) /\ idle[e] \in Int
      BY EvTypes DEF Held, Open
    <2> QED BY <2>1, EvTypes DEF IdleInv, IdleOK
  <1> QED BY <1>1, <1>2, <1>3, EvInvAlways, PTL DEF Spec
============================================================================
