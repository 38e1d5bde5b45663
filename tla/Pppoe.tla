------------------------------- MODULE Pppoe -------------------------------
(***************************************************************************)
(* The PPPoE client.  Its two halves run in one thread: pppoe.c finds a    *)
(* concentrator and owns the line, pylib/pppoe.py and pylib/lcp.py         *)
(* negotiate, authenticate and watch the session.  Each keeps its own idea *)
(* of how far the connection is, its own timeouts and its own reset; the   *)
(* Python reset also rotates the concentrators, and raises in the middle   *)
(* when its index has run over the end of the list.                        *)
(*                                                                         *)
(* Packets of the network are free inputs: any may come late, twice or     *)
(* never.  Time passes in steps of ten seconds (Retry below), of which all *)
(* limits of the code are multiples.  A concentrator stands for its name   *)
(* and its hardware address; the two ways to authenticate change the same  *)
(* state.                                                                  *)
(***************************************************************************)
EXTENDS Naturals, Sequences, FiniteSets

CONSTANTS Acs,         \* the concentrators on the line
          NoAc,        \* none of them
          Heartbeat,   \* is the LCP heartbeat switched on?
          GiveUp,      \* C waits for a session no longer than this: 60 s
          PyEvery,     \* turns of the Python loop: 30 s
          LcpWait,     \* LCP not agreed, or time for an echo: 30 s
          AuthWait,    \* authentication: 30 s
          MaxFails     \* echoes without an answer: 3

ASSUME AcsAssumption == IsFiniteSet(Acs) /\ NoAc \notin Acs
ASSUME HeartbeatAssumption == Heartbeat \in BOOLEAN
ASSUME LimitsAssumption ==
  /\ {GiveUp, LcpWait, AuthWait, MaxFails} \subseteq Nat
  /\ PyEvery \in Nat \ {0, 1}

VARIABLES c,         \* struct ixc_pppoe
          py,        \* the objects pppoe and LCP
          loopAge,   \* time since the last turn of the Python loop
          aborted    \* auxiliary: a Python reset raised, and C was not reset since
vars == <<c, py, loopAge, aborted>>

\* PADI is sent again after one step of time.
Retry == 1

\* Bound of the index, beyond the end of any list; ages stop where no limit
\* tells them apart any more.
CountCap == Cardinality(Acs) + 1

Later(age, cap) == IF age < cap THEN age + 1 ELSE age

\* What a call makes of both halves is written on one record of them.
World(theC, thePy, cut) == [c |-> theC, py |-> thePy, aborted |-> cut]
Now == World(c, py, aborted)
Become(w) == c' = w.c /\ py' = w.py /\ aborted' = w.aborted

LcpOk(w) == w.py.mruOk /\ w.py.srvMru /\ w.py.srvAuth

(***************************************************************************)
(* Resets.                                                                 *)
(***************************************************************************)
\* A C half that forgets that the session had been up.
CResetKeepsOk(w) ==
  World([w.c EXCEPT !.up = 0, !.discoveryOk = FALSE, !.selected = FALSE,
                    !.stage = "none"], w.py, FALSE)
\* ixc_pppoe_reset; the name forced on the line and the selected address stay.
CReset(w) ==
  World([w.c EXCEPT !.up = 0, !.discoveryOk = FALSE, !.selected = FALSE,
                    !.stage = "none", !.pppoeOk = FALSE], w.py, FALSE)

\* LCP.reset: the count of unanswered echoes stays.
LcpReset(w) ==
  World(w.c, [w.py EXCEPT !.mruOk = FALSE, !.srvMru = FALSE, !.srvAuth = FALSE,
                          !.lcpAge = 0], w.aborted)

\* An index that is not remembered from one reset to the next.
NextCountForgets(w) == IF Len(w.py.names) = 1 THEN 0 ELSE 1
\* change_ac_server: the index it moves to.  Only an index that meets the end
\* exactly starts again at the front.
NextCount(w) ==
  IF w.py.count + 1 = Len(w.py.names) THEN 0 ELSE Later(w.py.count, CountCap)

\* pppoe.reset: down first, then the next concentrator, and only then the
\* protocols and the C half.  An index beyond the list raises IndexError.
Reset(w) ==
  LET down == [w.py EXCEPT !.start = FALSE, !.authOk = FALSE]
      n    == NextCount(w)
  IN  CASE w.py.names = << >> -> CReset(LcpReset(World(w.c, down, w.aborted)))
        [] w.py.names # << >> /\ n < Len(w.py.names) ->
             CReset(LcpReset(World([w.c EXCEPT !.forced = w.py.names[n + 1]],
                                   [down EXCEPT !.count = n], w.aborted)))
        [] OTHER -> World(w.c, [down EXCEPT !.count = n], TRUE)

(***************************************************************************)
(* A turn of the loop.                                                     *)
(***************************************************************************)
Aged(w) ==
  World([w.c EXCEPT !.up = Later(@, GiveUp + 1)],
        [w.py EXCEPT !.authAge = Later(@, AuthWait), !.lcpAge = Later(@, LcpWait)],
        w.aborted)

\* A C half that never gives up.
SysloopCbPatient(w, sent) ==
  IF w.c.up >= Retry /\ ~w.c.discoveryOk /\ w.c.stage = "none" /\ sent
  THEN World([w.c EXCEPT !.up = 0], w.py, w.aborted) ELSE w
\* ixc_pppoe_sysloop_cb; a PADI that gets no buffer leaves up_time alone.
SysloopCb(w, sent) ==
  IF w.c.up < Retry /\ ~w.c.discoveryOk THEN w
  ELSE IF w.c.up > GiveUp /\ ~w.c.pppoeOk THEN CReset(w)
  ELSE IF ~w.c.discoveryOk /\ w.c.stage = "none" /\ sent
       THEN World([w.c EXCEPT !.up = 0], w.py, w.aborted)
  ELSE w

\* One echo too many.
LcpGivesUpLate(w) ==
  /\ w.py.mruOk /\ w.py.lcpAge >= LcpWait
  /\ LcpOk(w) => Heartbeat /\ w.py.fails > MaxFails + 1
\* LCP.loop resets: the server's side is not agreed, or too many echoes are
\* unanswered.  As long as the client's side is not acknowledged it only asks
\* again (is_first implies that it is not).
LcpGivesUp(w) ==
  /\ w.py.mruOk /\ w.py.lcpAge >= LcpWait
  /\ LcpOk(w) => Heartbeat /\ w.py.fails > MaxFails

\* An echo that is not counted.
EchoesUncounted(w) ==
  IF LcpOk(w) /\ w.py.lcpAge >= LcpWait /\ Heartbeat
  THEN World(w.c, [w.py EXCEPT !.lcpAge = 0], w.aborted) ELSE w
\* LCP.loop sends an echo.
Echoes(w) ==
  IF LcpOk(w) /\ w.py.lcpAge >= LcpWait /\ Heartbeat
  THEN World(w.c, [w.py EXCEPT !.fails = @ + 1, !.lcpAge = 0], w.aborted) ELSE w

\* pppoe.loop; `hour' says whether the list of concentrators is an hour old.
PyLoop(w, hour) ==
  LET echoed  == Echoes(w)
      cleared == IF hour
                 THEN World(echoed.c, [echoed.py EXCEPT !.names = << >>], echoed.aborted)
                 ELSE echoed
  IN  CASE ~w.py.start -> w
        [] w.py.start /\ LcpGivesUp(w) -> Reset(w)
        [] w.py.start /\ ~LcpGivesUp(w) /\ ~LcpOk(w) -> w
        [] OTHER -> IF w.py.authAge >= AuthWait /\ ~w.py.authOk
                    THEN Reset(cleared) ELSE cleared

\* ixc_myloop after ten seconds: the C half every time, the Python half when
\* its time has come.
Turn ==
  /\ loopAge' = IF loopAge + 1 < PyEvery THEN loopAge + 1 ELSE 0
  /\ \E sent, hour \in BOOLEAN :
        \E line \in {SysloopCb(Aged(Now), sent)} :
           \E both \in {IF loopAge + 1 < PyEvery THEN line ELSE PyLoop(line, hour)} :
              Become(both)

(***************************************************************************)
(* Discovery packets: ixc_pppoe_handle_discovery_response.                 *)
(***************************************************************************)
\* record_ac_name comes before a packet is ignored.
Recorded(w, a) ==
  IF \E i \in DOMAIN w.py.names : w.py.names[i] = a
  THEN w ELSE World(w.c, [w.py EXCEPT !.names = Append(@, a)], w.aborted)

\* The selected concentrator, and the one the Python half forces, if any.
Acceptable(a) == (c.selected => c.server = a) /\ c.forced \in {NoAc, a}

Pado(a) ==
  /\ LET w == Recorded(Now, a)
     IN  Become(IF Acceptable(a)
                THEN World([w.c EXCEPT !.server = a, !.selected = TRUE,
                                       !.stage = "PADR", !.up = 0], w.py, w.aborted)
                ELSE w)
  /\ UNCHANGED loopAge

\* A session is granted; start_lcp keeps what the last negotiation left.  That
\* a concentrator is selected at all is not asked for.
Pads(a) ==
  /\ LET w == Recorded(Now, a)
     IN  Become(IF Acceptable(a)
                THEN World([w.c EXCEPT !.discoveryOk = TRUE, !.stage = "PADS"],
                           [w.py EXCEPT !.start = TRUE, !.authAge = 0], w.aborted)
                ELSE w)
  /\ UNCHANGED loopAge

\* A PADO or PADS with an error tag, from anyone.
DiscoveryError == Become(CReset(Reset(Now))) /\ UNCHANGED loopAge

\* The selected concentrator ends the session.
Padt == c.selected /\ Become(CReset(Reset(Now))) /\ UNCHANGED loopAge

(***************************************************************************)
(* Session packets: of the session granted, from the selected address.     *)
(***************************************************************************)
InSession == c.discoveryOk /\ c.server # NoAc

\* handle_cfg_req: the options of the server that the client accepts.
CfgReq(mru, auth) ==
  /\ InSession
  /\ py' = [py EXCEPT !.srvMru = @ \/ mru, !.srvAuth = @ \/ auth]
  /\ UNCHANGED <<c, loopAge, aborted>>

\* handle_cfg_ack of the client's last request.
CfgAck ==
  /\ InSession
  /\ py' = [py EXCEPT !.mruOk = TRUE]
  /\ UNCHANGED <<c, loopAge, aborted>>

\* handle_cfg_reject, handle_term_req.
Refused == InSession /\ Become(Reset(Now)) /\ UNCHANGED loopAge

\* handle_echo_request, handle_echo_reply.
Echo ==
  /\ InSession
  /\ py' = [py EXCEPT !.fails = 0, !.lcpAge = 0]
  /\ UNCHANGED <<c, loopAge, aborted>>

\* handle_success of PAP and CHAP: the only place that opens the line.
AuthSuccess ==
  /\ InSession /\ LcpOk(Now)
  /\ py' = [py EXCEPT !.authOk = TRUE]
  /\ c' = [c EXCEPT !.pppoeOk = TRUE]
  /\ UNCHANGED <<loopAge, aborted>>

\* handle_fail, handle_failure, a malformed challenge.
AuthFailure == InSession /\ LcpOk(Now) /\ Become(Reset(Now)) /\ UNCHANGED loopAge

\* pppoe_force_re_dial, by the operator.
ReDial == Become(Reset(Now)) /\ UNCHANGED loopAge

-----------------------------------------------------------------------------
Init ==
  /\ c = [up |-> 0, discoveryOk |-> FALSE, selected |-> FALSE, server |-> NoAc,
          stage |-> "none", pppoeOk |-> FALSE, forced |-> NoAc]
  /\ py = [start |-> FALSE, authOk |-> FALSE, authAge |-> 0, names |-> << >>,
           count |-> 0, mruOk |-> FALSE, srvMru |-> FALSE, srvAuth |-> FALSE,
           lcpAge |-> 0, fails |-> 0]
  /\ loopAge = 0
  /\ aborted = FALSE

Packet ==
  \/ \E a \in Acs : Pado(a) \/ Pads(a)
  \/ DiscoveryError \/ Padt
  \/ \E mru, auth \in BOOLEAN : (mru \/ auth) /\ CfgReq(mru, auth)
  \/ CfgAck \/ Refused \/ Echo \/ AuthSuccess \/ AuthFailure

Next == Turn \/ Packet \/ ReDial

Spec == Init /\ [][Next]_vars

\* The loop turns at least every ten seconds; no packet need ever come.
FairSpec == Spec /\ WF_vars(Turn)

-----------------------------------------------------------------------------
\* Types.  struct ixc_pppoe and the Python objects.
TypeOK ==
  /\ c \in [up : 0..(GiveUp + 1), discoveryOk : BOOLEAN, selected : BOOLEAN,
            server : Acs \cup {NoAc}, stage : {"none", "PADR", "PADS"},
            pppoeOk : BOOLEAN, forced : Acs \cup {NoAc}]
  /\ py \in [start : BOOLEAN, authOk : BOOLEAN, authAge : 0..AuthWait,
             names : Seq(Acs), count : 0..CountCap, mruOk : BOOLEAN,
             srvMru : BOOLEAN, srvAuth : BOOLEAN, lcpAge : 0..LcpWait,
             fails : 0..(MaxFails + 1)]
  /\ loopAge \in 0..(PyEvery - 1)
  /\ aborted \in BOOLEAN

\* The two halves agree on whether the session is up, though each has its own
\* timeouts and resets: what Python takes for authenticated is a session the
\* line carries, and the line carries traffic only for a session that Python
\* has negotiated, authenticated and still watches, unless a Python reset
\* raised before it reached the C half (pppoe.py:250).
HalvesAgree ==
  /\ py.authOk => c.pppoeOk /\ LcpOk(Now)
  /\ c.pppoeOk => InSession
  /\ c.pppoeOk /\ ~aborted => py.authOk /\ py.start

\* Everyone else has fallen silent for good: only turns, which alone move
\* loopAge (the Python half runs at every second turn at most).
Silence == <>[][loopAge' # loopAge]_vars

Dialling == ~c.discoveryOk /\ ~c.selected /\ c.stage = "none"

\* Dialling, or up with nobody watching.
Settled == Dialling \/ (c.pppoeOk /\ (aborted \/ ~Heartbeat))

\* A client whose concentrator has vanished ends up dialling anew from any
\* stage of any half (the resets of pppoe.c:125, lcp.py:399 and pppoe.py:204
\* cover for each other), unless there is no heartbeat to notice it or a reset
\* was cut short, which leaves a dead session nobody watches.
Redials == Silence => <>[]Settled

\* How many turns that may take: C gives up a session that does not come up;
\* of one that is up each missing echo takes until the answer is due and the
\* Python half has its turn.
Overdue ==
  IF py.lcpAge < LcpWait THEN (LcpWait - py.lcpAge) + (PyEvery - 1)
  ELSE (PyEvery - 1) - loopAge

TurnsLeft ==
  IF Settled THEN 0
  ELSE IF ~c.pppoeOk THEN (GiveUp + 1) - c.up
  ELSE ((MaxFails + 1) - py.fails) * (LcpWait + PyEvery) + Overdue + 1

TurnsAtMost ==
  LET up == (MaxFails + 2) * (LcpWait + PyEvery)
  IN  IF up > GiveUp THEN up ELSE GiveUp + 1

\* The same with a deadline, and wherever the client is left alone: every turn
\* brings it nearer, no timeout of one half puts off that of the other, and
\* once it is there only a packet takes it away.
RedialsInTime ==
  /\ [](TurnsLeft \in 0 .. TurnsAtMost /\ (TurnsLeft = 0 => Settled))
  /\ [][loopAge' # loopAge => Settled' \/ TurnsLeft' < TurnsLeft]_vars

\* A concentrator the client could be sent to: listed, the index in the list.
Listed(a) == py.count < Len(py.names) /\ \E i \in DOMAIN py.names : py.names[i] = a

\* If sessions go on failing, every concentrator that stays listed is tried
\* again and again (pppoe.py:179): a broken one does not lock the others out.
EveryAcTried ==
  \A a \in Acs :
     <>[]Listed(a) /\ []<>py.start /\ []<>~py.start => []<>(c.forced = a)
=============================================================================
