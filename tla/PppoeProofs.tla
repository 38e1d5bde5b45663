---------------------------- MODULE PppoeProofs ----------------------------
(***************************************************************************)
(* Theorems about the PPPoE client.  A reset runs through both halves in   *)
(* one step, so the operators of the model work on one record of the two   *)
(* halves, and so do the lemmas: each says what an operator makes of a     *)
(* good record, Good being the invariant.  The steps then follow from the  *)
(* lemmas.                                                                 *)
(***************************************************************************)
EXTENDS Pppoe, FiniteSetTheorems, TLAPS

\* struct ixc_pppoe, the Python objects, and the record of both.
CHalf ==
  [up : 0..(GiveUp + 1), discoveryOk : BOOLEAN, selected : BOOLEAN,
   server : Acs \cup {NoAc}, stage : {"none", "PADR", "PADS"},
   pppoeOk : BOOLEAN, forced : Acs \cup {NoAc}]
PyHalf ==
  [start : BOOLEAN, authOk : BOOLEAN, authAge : 0..AuthWait,
   names : Seq(Acs), count : 0..CountCap, mruOk : BOOLEAN,
   srvMru : BOOLEAN, srvAuth : BOOLEAN, lcpAge : 0..LcpWait,
   fails : 0..(MaxFails + 1)]
Worlds == [c : CHalf, py : PyHalf, aborted : BOOLEAN]

\* The two halves agree on the session; and, which the property does not say
\* but authentication relies on, Python watches a session from the moment it
\* is granted.
Agree(w) ==
  /\ w.py.authOk => w.c.pppoeOk /\ LcpOk(w)
  /\ w.c.pppoeOk => w.c.discoveryOk /\ w.c.server # NoAc
  /\ w.c.pppoeOk /\ ~w.aborted => w.py.authOk /\ w.py.start
  /\ w.c.discoveryOk => w.py.start \/ w.aborted

Good(w) == w \in Worlds /\ Agree(w)

\* A record of two halves, one of them replaced.
LEMMA WorldType ==
  ASSUME NEW w \in Worlds
  PROVE  /\ w.c \in CHalf /\ w.py \in PyHalf /\ w.aborted \in BOOLEAN
         /\ \A d \in CHalf : World(d, w.py, w.aborted) \in Worlds
         /\ \A p \in PyHalf : World(w.c, p, w.aborted) \in Worlds
         /\ \A d, p, cut : LET v == World(d, p, cut)
                           IN  v.c = d /\ v.py = p /\ v.aborted = cut
BY DEF Worlds, World

LEMMA LimitsNat ==
  ASSUME LimitsAssumption
  PROVE  /\ GiveUp \in Nat /\ LcpWait \in Nat /\ AuthWait \in Nat /\ MaxFails \in Nat
         /\ 0 \in 0..(GiveUp + 1) /\ 0 \in 0..LcpWait /\ 0 \in 0..AuthWait
BY DEF LimitsAssumption

LEMMA CapNat == CountCap \in Nat
BY AcsAssumption, FS_CardinalityType DEF CountCap

LEMMA LaterType ==
  ASSUME NEW cap \in Nat, NEW a \in 0..cap
  PROVE  Later(a, cap) \in 0..cap
BY DEF Later

\* The invariant: that of the property, strengthened.
Watched == c.discoveryOk => py.start \/ aborted

PppoeInv == TypeOK /\ HalvesAgree /\ Watched

\* It is Good of the current record.
LEMMA GoodNow == PppoeInv <=> Good(Now) /\ loopAge \in 0..(PyEvery - 1)
BY DEF PppoeInv, Watched, TypeOK, HalvesAgree, Good, Now, Worlds, CHalf, PyHalf, World, Agree, InSession, LcpOk

LEMMA BecomeGood ==
  ASSUME NEW w, Good(w), Become(w), loopAge' \in 0..(PyEvery - 1)
  PROVE  PppoeInv'
<1>1. Now' = w
  BY DEF Good, Worlds, CHalf, PyHalf, World, Become, Now
<1>2. Good(Now')
  BY <1>1
<1> QED BY <1>2 DEF PppoeInv, Watched, TypeOK, HalvesAgree, Good, Now, Worlds, CHalf, PyHalf, World, Agree, InSession, LcpOk

(***************************************************************************)
(* Resets.                                                                 *)
(***************************************************************************)
\* The C half alone may be reset only when Python does not think that the
\* session is up.
LEMMA CResetGood ==
  ASSUME LimitsAssumption, NEW w \in Worlds, ~w.py.authOk
  PROVE  Good(CReset(w))
<1>1. CReset(w) \in Worlds
  BY LimitsNat DEF CReset, Worlds, CHalf, PyHalf, World
<1>2. Agree(CReset(w))
  BY DEF CReset, Worlds, CHalf, PyHalf, World, Agree
<1> QED BY <1>1, <1>2 DEF Good

LEMMA LcpResetType ==
  ASSUME LimitsAssumption, NEW w \in Worlds
  PROVE  /\ LcpReset(w) \in Worlds
         /\ LcpReset(w).py.authOk = w.py.authOk
<1> DEFINE p == [w.py EXCEPT !.mruOk = FALSE, !.srvMru = FALSE, !.srvAuth = FALSE,
                             !.lcpAge = 0]
<1>1. w.py \in PyHalf
  BY DEF Worlds
<1>2. 0 \in 0..LcpWait
  BY LimitsNat
<1>3. p \in PyHalf
  BY <1>1, <1>2 DEF PyHalf
<1>4. p.authOk = w.py.authOk
  BY <1>1 DEF PyHalf
<1> HIDE DEF p
<1>5. World(w.c, p, w.aborted) \in Worlds /\ World(w.c, p, w.aborted).py = p
  BY <1>3, WorldType
<1> QED BY <1>4, <1>5 DEF LcpReset, p

LEMMA NextCountType ==
  ASSUME NEW w \in Worlds
  PROVE  NextCount(w) \in 0..CountCap
<1>1. w.py.count \in 0..CountCap
  BY DEF Worlds, CHalf, PyHalf, World
<1>2. Later(w.py.count, CountCap) \in 0..CountCap /\ 0 \in 0..CountCap
  BY <1>1, CapNat, LaterType
<1> QED BY <1>2 DEF NextCount

\* What a Python reset assigns before it calls the resets of the others.
LEMMA DownHalf ==
  ASSUME NEW p \in PyHalf
  PROVE  LET d == [p EXCEPT !.start = FALSE, !.authOk = FALSE]
         IN  d \in PyHalf /\ ~d.authOk /\ ~d.start /\ d.names = p.names
BY DEF PyHalf

LEMMA CountHalf ==
  ASSUME NEW p \in PyHalf, NEW n \in 0..CountCap
  PROVE  LET d == [p EXCEPT !.count = n]
         IN  /\ d \in PyHalf /\ d.count = n
             /\ d.authOk = p.authOk /\ d.start = p.start /\ d.names = p.names
BY DEF PyHalf

LEMMA ForcedHalf ==
  ASSUME NEW d \in CHalf, NEW a \in Acs
  PROVE  [d EXCEPT !.forced = a] \in CHalf
BY DEF CHalf

LEMMA NextType ==
  ASSUME NEW w \in Worlds, NEW n \in 0..CountCap, NEW a \in Acs
  PROVE  LET dpy == [w.py EXCEPT !.start = FALSE, !.authOk = FALSE]
         IN  /\ World(w.c, dpy, w.aborted) \in Worlds
             /\ World([w.c EXCEPT !.forced = a], [dpy EXCEPT !.count = n], w.aborted) \in Worlds
<1> DEFINE dpy == [w.py EXCEPT !.start = FALSE, !.authOk = FALSE]
           nc  == [w.c EXCEPT !.forced = a]
           np  == [dpy EXCEPT !.count = n]
<1>1. dpy \in PyHalf /\ nc \in CHalf
  BY WorldType, DownHalf, ForcedHalf
<1>2. np \in PyHalf
  BY <1>1, CountHalf
<1>3. w.c \in CHalf /\ w.aborted \in BOOLEAN
  BY WorldType
<1> HIDE DEF dpy, nc, np
<1>4. World(w.c, dpy, w.aborted) \in Worlds /\ World(nc, np, w.aborted) \in Worlds
  BY <1>1, <1>2, <1>3 DEF Worlds, World
<1> QED BY <1>4 DEF dpy, nc, np

\* A Python reset, complete or cut short, leaves the halves in agreement.
LEMMA ResetGood ==
  ASSUME LimitsAssumption, NEW w, Good(w)
  PROVE  Good(Reset(w)) /\ ~Reset(w).py.authOk
<1> DEFINE dpy  == [w.py EXCEPT !.start = FALSE, !.authOk = FALSE]
           down == World(w.c, dpy, w.aborted)
           n    == NextCount(w)
           next == World([w.c EXCEPT !.forced = w.py.names[n + 1]],
                         [dpy EXCEPT !.count = n], w.aborted)
           cut  == World(w.c, [dpy EXCEPT !.count = n], TRUE)
<1>1. w \in Worlds /\ Agree(w)
  BY DEF Good
<1>2. n \in 0..CountCap /\ n \in Nat
  BY <1>1, NextCountType, CapNat
<1>3. /\ w.c \in CHalf /\ dpy \in PyHalf /\ ~dpy.authOk /\ down.py = dpy
      /\ down \in Worlds /\ ~down.py.authOk
  <2>1. dpy \in PyHalf /\ ~dpy.authOk
    BY <1>1, WorldType, DownHalf
  <2> HIDE DEF dpy
  <2> QED BY <1>1, <2>1, WorldType
<1>4. CASE w.py.names = << >>
  <2>1. Reset(w) = CReset(LcpReset(down))
    BY <1>4 DEF Reset
  <2>2. CReset(LcpReset(down)).py = LcpReset(down).py
    BY <1>3, LcpResetType DEF CReset, Worlds, CHalf, PyHalf, World
  <2> QED BY <2>1, <2>2, <1>3, LcpResetType, CResetGood
<1>5. CASE w.py.names # << >> /\ n < Len(w.py.names)
  <2>1. Reset(w) = CReset(LcpReset(next))
    BY <1>5 DEF Reset
  <2>2. w.py.names \in Seq(Acs)
    BY <1>1 DEF Worlds, CHalf, PyHalf, World
  <2>3. w.py.names[n + 1] \in Acs
    BY <2>2, <1>2, <1>5
  <2>4. next \in Worlds /\ ~next.py.authOk
    <3> DEFINE nc == [w.c EXCEPT !.forced = w.py.names[n + 1]]
               np == [dpy EXCEPT !.count = n]
    <3>1. nc \in CHalf
      BY <1>3, <2>3, ForcedHalf
    <3>2. np \in PyHalf /\ ~np.authOk
      BY <1>2, <1>3, CountHalf
    <3> HIDE DEF nc, np
    <3>3. World(nc, np, w.aborted) \in Worlds /\ World(nc, np, w.aborted).py = np
      BY <1>1, <3>1, <3>2 DEF Worlds, World
    <3> QED BY <3>2, <3>3 DEF nc, np
  <2>5. CReset(LcpReset(next)).py = LcpReset(next).py
    BY <2>4, LcpResetType DEF CReset, Worlds, CHalf, PyHalf, World
  <2> QED BY <2>1, <2>4, <2>5, LcpResetType, CResetGood
<1>6. CASE w.py.names # << >> /\ ~(n < Len(w.py.names))
  <2>1. Reset(w) = cut
    BY <1>6 DEF Reset
  <2>2. cut \in Worlds /\ ~cut.py.authOk /\ cut.aborted /\ cut.c = w.c
    <3> DEFINE np == [dpy EXCEPT !.count = n]
    <3>1. np \in PyHalf /\ ~np.authOk
      BY <1>2, <1>3, CountHalf
    <3> HIDE DEF np
    <3>2. /\ World(w.c, np, TRUE) \in Worlds /\ World(w.c, np, TRUE).py = np
          /\ World(w.c, np, TRUE).c = w.c /\ World(w.c, np, TRUE).aborted
      BY <1>3, <3>1 DEF Worlds, World
    <3> QED BY <3>1, <3>2 DEF np
  <2>3. Agree(cut)
    BY <1>1, <2>2 DEF Agree
  <2> QED BY <2>1, <2>2, <2>3 DEF Good
<1> QED BY <1>4, <1>5, <1>6

(***************************************************************************)
(* A turn.                                                                 *)
(***************************************************************************)
LEMMA AgedGood ==
  ASSUME LimitsAssumption, NEW w, Good(w)
  PROVE  Good(Aged(w))
<1>1. w \in Worlds /\ Agree(w)
  BY DEF Good
<1>2. /\ Later(w.c.up, GiveUp + 1) \in 0..(GiveUp + 1)
      /\ Later(w.py.authAge, AuthWait) \in 0..AuthWait
      /\ Later(w.py.lcpAge, LcpWait) \in 0..LcpWait
  <2>1. w.c.up \in 0..(GiveUp + 1) /\ w.py.authAge \in 0..AuthWait /\ w.py.lcpAge \in 0..LcpWait
    BY <1>1 DEF Worlds, CHalf, PyHalf, World
  <2>2. GiveUp + 1 \in Nat /\ AuthWait \in Nat /\ LcpWait \in Nat
    BY DEF LimitsAssumption
  <2> QED BY <2>1, <2>2, LaterType
<1>4. Aged(w) \in Worlds
  BY <1>1, <1>2 DEF Aged, Worlds, CHalf, PyHalf, World
<1>5. Agree(Aged(w))
  BY <1>1 DEF Aged, Agree, LcpOk, Worlds, CHalf, PyHalf, World
<1> QED BY <1>4, <1>5 DEF Good

LEMMA SysloopGood ==
  ASSUME LimitsAssumption, NEW w, Good(w), NEW sent \in BOOLEAN
  PROVE  Good(SysloopCb(w, sent))
<1>1. w \in Worlds /\ Agree(w)
  BY DEF Good
<1>2. CASE w.c.up < Retry /\ ~w.c.discoveryOk
  BY <1>2 DEF SysloopCb
<1>3. CASE ~(w.c.up < Retry /\ ~w.c.discoveryOk) /\ w.c.up > GiveUp /\ ~w.c.pppoeOk
  <2>1. ~w.py.authOk
    BY <1>1, <1>3 DEF Agree
  <2>2. SysloopCb(w, sent) = CReset(w)
    BY <1>3 DEF SysloopCb
  <2> QED BY <2>1, <2>2, <1>1, CResetGood
<1>4. CASE ~(w.c.up < Retry /\ ~w.c.discoveryOk) /\ ~(w.c.up > GiveUp /\ ~w.c.pppoeOk)
  <2> DEFINE padi == World([w.c EXCEPT !.up = 0], w.py, w.aborted)
  <2>1. SysloopCb(w, sent) \in {w, padi}
    BY <1>4 DEF SysloopCb
  <2>2. padi \in Worlds
    BY <1>1, LimitsNat DEF Worlds, CHalf, PyHalf, World
  <2>3. Agree(padi)
    BY <1>1 DEF Agree, LcpOk, Worlds, CHalf, PyHalf, World
  <2> QED BY <2>1, <2>2, <2>3 DEF Good
<1> QED BY <1>2, <1>3, <1>4

LEMMA EchoesGood ==
  ASSUME LimitsAssumption, NEW w, Good(w), LcpOk(w), ~LcpGivesUp(w)
  PROVE  Good(Echoes(w))
<1>1. w \in Worlds /\ Agree(w)
  BY DEF Good
<1> DEFINE beat == World(w.c, [w.py EXCEPT !.fails = @ + 1, !.lcpAge = 0], w.aborted)
<1>2. CASE w.py.lcpAge >= LcpWait /\ Heartbeat
  <2>1. Echoes(w) = beat
    BY <1>2 DEF Echoes
  <2>2. w.py.fails \in 0..(MaxFails + 1) /\ ~(w.py.fails > MaxFails)
    BY <1>1, <1>2 DEF Worlds, CHalf, PyHalf, LcpGivesUp, LcpOk
  <2>3. w.py.fails + 1 \in 0..(MaxFails + 1)
    BY <2>2, LimitsNat
  <2>4. beat \in Worlds
    BY <1>1, <2>3, LimitsNat DEF Worlds, CHalf, PyHalf, World
  <2>5. Agree(beat)
    BY <1>1 DEF Agree, LcpOk, Worlds, CHalf, PyHalf, World
  <2> QED BY <2>1, <2>4, <2>5 DEF Good
<1>3. CASE ~(w.py.lcpAge >= LcpWait /\ Heartbeat)
  BY <1>3 DEF Echoes
<1> QED BY <1>2, <1>3

LEMMA PyLoopGood ==
  ASSUME LimitsAssumption, NEW w, Good(w), NEW hour \in BOOLEAN
  PROVE  Good(PyLoop(w, hour))
<1> DEFINE echoed  == Echoes(w)
           none    == World(echoed.c, [echoed.py EXCEPT !.names = << >>], echoed.aborted)
           cleared == IF hour THEN none ELSE echoed
<1>1. CASE ~w.py.start \/ (~LcpGivesUp(w) /\ ~LcpOk(w))
  BY <1>1 DEF PyLoop
<1>2. CASE w.py.start /\ LcpGivesUp(w)
  BY <1>2, ResetGood DEF PyLoop
<1>3. CASE w.py.start /\ ~LcpGivesUp(w) /\ LcpOk(w)
  <2>1. Good(echoed)
    BY <1>3, EchoesGood
  <2>2. Good(none)
    <3>1. echoed \in Worlds /\ Agree(echoed)
      BY <2>1 DEF Good
    <3> HIDE DEF echoed
    <3>2. none \in Worlds
      <4>1. << >> \in Seq(Acs)
        OBVIOUS
      <4> QED BY <3>1, <4>1 DEF Worlds, CHalf, PyHalf, World
    <3>3. Agree(none)
      BY <3>1 DEF Agree, LcpOk, Worlds, CHalf, PyHalf, World
    <3> QED BY <3>2, <3>3 DEF Good
  <2>3. Good(cleared)
    BY <2>1, <2>2
  <2>4. PyLoop(w, hour) \in {cleared, Reset(cleared)}
    BY <1>3 DEF PyLoop
  <2> QED BY <2>3, <2>4, ResetGood
<1> QED BY <1>1, <1>2, <1>3

(***************************************************************************)
(* The invariant.                                                          *)
(***************************************************************************)
LEMMA PppoeInit == Init => PppoeInv
<1> SUFFICES ASSUME Init PROVE PppoeInv
  OBVIOUS
<1>1. 0 \in 0..CountCap /\ 0 \in 0..(MaxFails + 1) /\ 0 \in 0..(PyEvery - 1)
  BY CapNat, LimitsNat, LimitsAssumption DEF LimitsAssumption
<1>2. TypeOK
  <2>1. << >> \in Seq(Acs)
    OBVIOUS
  <2>2. c \in [up : 0..(GiveUp + 1), discoveryOk : BOOLEAN, selected : BOOLEAN,
              server : Acs \cup {NoAc}, stage : {"none", "PADR", "PADS"},
              pppoeOk : BOOLEAN, forced : Acs \cup {NoAc}]
    BY LimitsNat, LimitsAssumption DEF Init
  <2>3. py \in [start : BOOLEAN, authOk : BOOLEAN, authAge : 0..AuthWait,
               names : Seq(Acs), count : 0..CountCap, mruOk : BOOLEAN,
               srvMru : BOOLEAN, srvAuth : BOOLEAN, lcpAge : 0..LcpWait,
               fails : 0..(MaxFails + 1)]
    BY <1>1, <2>1, LimitsNat, LimitsAssumption DEF Init
  <2> QED BY <1>1, <2>2, <2>3 DEF Init, TypeOK
<1>3. HalvesAgree /\ Watched
  BY DEF Init, HalvesAgree, Watched
<1> QED BY <1>2, <1>3 DEF PppoeInv

\* The only step that reads both halves' clocks.
LEMMA TurnStep ==
  ASSUME PppoeInv, Turn
  PROVE  PppoeInv'
<1>1. Good(Now) /\ loopAge \in 0..(PyEvery - 1)
  BY GoodNow
<1>2. PICK sent, hour \in BOOLEAN :
         \E line \in {SysloopCb(Aged(Now), sent)} :
           \E both \in {IF loopAge + 1 < PyEvery THEN line ELSE PyLoop(line, hour)} :
              Become(both)
  BY DEF Turn
<1> DEFINE w == SysloopCb(Aged(Now), sent)
<1>3. Good(w) /\ Good(PyLoop(w, hour))
  BY <1>1, LimitsAssumption, AgedGood, SysloopGood, PyLoopGood
<1>4. loopAge' \in 0..(PyEvery - 1)
  BY <1>1, LimitsAssumption DEF Turn, LimitsAssumption
<1>5. Become(w) \/ Become(PyLoop(w, hour))
  BY <1>2
<1> HIDE DEF w
<1> QED BY <1>3, <1>4, <1>5, BecomeGood

LEMMA RecordedGood ==
  ASSUME NEW w, Good(w), NEW a \in Acs
  PROVE  Good(Recorded(w, a)) /\ Recorded(w, a).c = w.c
<1>1. w \in Worlds /\ Agree(w)
  BY DEF Good
<1> DEFINE longer == World(w.c, [w.py EXCEPT !.names = Append(@, a)], w.aborted)
<1>2. Append(w.py.names, a) \in Seq(Acs)
  BY <1>1 DEF Worlds, CHalf, PyHalf
<1>3. longer \in Worlds
  BY <1>1, <1>2 DEF Worlds, CHalf, PyHalf, World
<1>4. Agree(longer)
  BY <1>1 DEF Agree, LcpOk, Worlds, CHalf, PyHalf, World
<1>5. longer.c = w.c
  BY DEF World
<1>6. Recorded(w, a) \in {w, longer}
  BY DEF Recorded
<1> HIDE DEF longer
<1> QED BY <1>1, <1>3, <1>4, <1>5, <1>6 DEF Good

\* An offer re-selects the concentrator, also under a session that is up: it
\* keeps discovery_ok.
LEMMA PadoStep ==
  ASSUME PppoeInv, NEW a \in Acs, Pado(a)
  PROVE  PppoeInv'
<1> DEFINE w == Recorded(Now, a)
           v == World([w.c EXCEPT !.server = a, !.selected = TRUE,
                                  !.stage = "PADR", !.up = 0], w.py, w.aborted)
<1>1. Good(w) /\ loopAge \in 0..(PyEvery - 1)
  BY GoodNow, RecordedGood
<1>2. Become(v) \/ Become(w)
  BY DEF Pado
<1>3. loopAge' \in 0..(PyEvery - 1)
  BY <1>1 DEF Pado
<1> HIDE DEF w
<1>4. w \in Worlds /\ Agree(w) /\ a # NoAc
  BY <1>1, AcsAssumption DEF Good
<1>5. v \in Worlds
  BY <1>4, LimitsNat, LimitsAssumption DEF Worlds, CHalf, PyHalf, World
<1>6. Agree(v)
  BY <1>4 DEF Agree, LcpOk, Worlds, CHalf, PyHalf, World
<1> QED BY <1>1, <1>2, <1>3, <1>5, <1>6, BecomeGood DEF Good

LEMMA PadsStep ==
  ASSUME PppoeInv, NEW a \in Acs, Pads(a)
  PROVE  PppoeInv'
<1> DEFINE w == Recorded(Now, a)
           v == World([w.c EXCEPT !.discoveryOk = TRUE, !.stage = "PADS"],
                      [w.py EXCEPT !.start = TRUE, !.authAge = 0], w.aborted)
<1>1. Good(w) /\ loopAge \in 0..(PyEvery - 1)
  BY GoodNow, RecordedGood
<1>2. Become(v) \/ Become(w)
  BY DEF Pads
<1>3. loopAge' \in 0..(PyEvery - 1)
  BY <1>1 DEF Pads
<1> HIDE DEF w
<1>4. w \in Worlds /\ Agree(w)
  BY <1>1 DEF Good
<1>5. v \in Worlds
  BY <1>4, LimitsNat, LimitsAssumption DEF Worlds, CHalf, PyHalf, World
<1>6. Agree(v)
  BY <1>4 DEF Agree, LcpOk, Worlds, CHalf, PyHalf, World
<1> QED BY <1>1, <1>2, <1>3, <1>5, <1>6, BecomeGood DEF Good

\* The steps that reset, with or without the C half's own reset after it.
LEMMA ResetStep ==
  ASSUME PppoeInv, UNCHANGED loopAge, Become(Reset(Now)) \/ Become(CReset(Reset(Now)))
  PROVE  PppoeInv'
<1>1. Good(Now) /\ loopAge' \in 0..(PyEvery - 1)
  BY GoodNow
<1>2. Good(Reset(Now)) /\ ~Reset(Now).py.authOk
  BY <1>1, LimitsAssumption, ResetGood
<1>3. Good(CReset(Reset(Now)))
  BY <1>2, LimitsAssumption, CResetGood DEF Good
<1> QED BY <1>1, <1>2, <1>3, BecomeGood

LEMMA PppoeStep == PppoeInv /\ [Next]_vars => PppoeInv'
<1> SUFFICES ASSUME PppoeInv, [Next]_vars PROVE PppoeInv'
  OBVIOUS
<1>1. CASE Turn
  BY <1>1, TurnStep
<1>2. CASE \E a \in Acs : Pado(a) \/ Pads(a)
  BY <1>2, PadoStep, PadsStep
<1>3. CASE DiscoveryError \/ Padt \/ Refused \/ AuthFailure \/ ReDial
  BY <1>3, ResetStep DEF DiscoveryError, Padt, Refused, AuthFailure, ReDial
<1>4. CASE \E mru, auth \in BOOLEAN : CfgReq(mru, auth)
  <2>1. PICK mru, auth \in BOOLEAN : CfgReq(mru, auth)
    BY <1>4
  <2>2. py.srvMru \in BOOLEAN /\ py.srvAuth \in BOOLEAN
    BY DEF PppoeInv, TypeOK
  <2>3. (py.srvMru \/ mru) \in BOOLEAN /\ (py.srvAuth \/ auth) \in BOOLEAN
    BY <2>2
  <2>4. TypeOK'
    <3>1. py \in PyHalf
      BY DEF PppoeInv, TypeOK, PyHalf
    <3>2. py' = [py EXCEPT !.srvMru = py.srvMru \/ mru, !.srvAuth = py.srvAuth \/ auth]
      BY <2>1, <3>1 DEF CfgReq
    <3>3. py' \in PyHalf
      BY <2>3, <3>1, <3>2 DEF PyHalf
    <3> QED BY <2>1, <3>3 DEF CfgReq, PppoeInv, TypeOK, PyHalf
  <2>5. HalvesAgree' /\ Watched'
    BY <2>1 DEF CfgReq, PppoeInv, Watched, TypeOK, HalvesAgree, InSession, LcpOk, Now, World
  <2> QED BY <2>4, <2>5 DEF PppoeInv
<1>5. CASE CfgAck
  BY <1>5 DEF CfgAck, PppoeInv, Watched, TypeOK, HalvesAgree, InSession, LcpOk, Now, World
<1>6. CASE Echo
  <2>1. 0 \in 0..(MaxFails + 1) /\ 0 \in 0..LcpWait
    BY LimitsNat, LimitsAssumption
  <2>2. TypeOK'
    BY <1>6, <2>1 DEF Echo, PppoeInv, TypeOK
  <2>3. HalvesAgree' /\ Watched'
    BY <1>6 DEF Echo, PppoeInv, Watched, TypeOK, HalvesAgree, InSession, LcpOk, Now, World
  <2> QED BY <2>2, <2>3 DEF PppoeInv
<1>7. CASE AuthSuccess
  <2>1. TypeOK'
    BY <1>7 DEF AuthSuccess, PppoeInv, TypeOK
  <2>2. py.start \/ aborted
    BY <1>7 DEF AuthSuccess, InSession, PppoeInv, Watched
  <2> QED BY <2>1, <2>2, <1>7
          DEF AuthSuccess, PppoeInv, Watched, TypeOK, HalvesAgree, InSession, LcpOk, Now, World
<1>8. CASE UNCHANGED vars
  BY <1>8 DEF vars, PppoeInv, Watched, TypeOK, HalvesAgree, InSession, LcpOk, Now, World
<1> QED BY <1>1, <1>2, <1>3, <1>4, <1>5, <1>6, <1>7, <1>8 DEF Next, Packet

(***************************************************************************)
(* The theorems.                                                           *)
(***************************************************************************)
\* Together: whatever the network sends and whenever the timeouts fall, for
\* any concentrators and any limits.
THEOREM PppoeInvAlways == Spec => []PppoeInv
<1> QED BY PppoeInit, PppoeStep, PTL DEF Spec

\* The state of both halves (pppoe.c, pppoe.py, lcp.py) stays within its
\* types; in particular no more echoes are counted than the heartbeat allows.
THEOREM PppoeTypeCorrect == Spec => []TypeOK
<1>1. PppoeInv => TypeOK
  BY DEF PppoeInv
<1> QED BY <1>1, PppoeInvAlways, PTL

\* pppoe.c and pppoe.py agree on whether the session is up, unless a reset
\* raised halfway (pppoe.py:250).
THEOREM PppoeHalvesAgree == Spec => []HalvesAgree
<1>1. PppoeInv => HalvesAgree
  BY DEF PppoeInv
<1> QED BY <1>1, PppoeInvAlways, PTL

(***************************************************************************)
(* Dialling anew in time.  What the operators do to the C half and to the  *)
(* count of missing echoes, and that the age of the C half means what      *)
(* RedialsInTime takes it for.                                             *)
(***************************************************************************)
\* The C half after a reset.
Down(k) == ~k.discoveryOk /\ ~k.selected /\ k.stage = "none" /\ k.up = 0 /\ ~k.pppoeOk

\* Without a stage nothing is selected, and C does not outlive its patience.
Placed(k) ==
  /\ k.stage = "none" => ~k.selected /\ ~k.discoveryOk
  /\ k.up > GiveUp => k.pppoeOk

TimelyInv == PppoeInv /\ Placed(c)

AtRest(w) ==
  \/ ~w.c.discoveryOk /\ ~w.c.selected /\ w.c.stage = "none"
  \/ w.c.pppoeOk /\ (w.aborted \/ ~Heartbeat)

LEMMA RestNow == AtRest(Now) <=> Settled
BY DEF AtRest, Settled, Dialling, Now, World

LEMMA DownPlaced ==
  ASSUME LimitsAssumption, NEW k, Down(k)
  PROVE  Placed(k)
BY LimitsNat DEF Down, Placed

LEMMA CResetDown ==
  ASSUME NEW w \in Worlds PROVE Down(CReset(w).c)
BY DEF CReset, Worlds, CHalf, PyHalf, World, Down

\* A Python reset takes the C half with it or is cut short.
LEMMA ResetOutcome ==
  ASSUME LimitsAssumption, NEW w, Good(w)
  PROVE  Down(Reset(w).c) \/ (Reset(w).c = w.c /\ Reset(w).aborted)
<1> DEFINE dpy  == [w.py EXCEPT !.start = FALSE, !.authOk = FALSE]
           down == World(w.c, dpy, w.aborted)
           n    == NextCount(w)
           next == World([w.c EXCEPT !.forced = w.py.names[n + 1]],
                         [dpy EXCEPT !.count = n], w.aborted)
<1>1. w \in Worlds
  BY DEF Good
<1>2. n \in 0..CountCap /\ n \in Nat
  BY <1>1, NextCountType, CapNat
<1>3. down \in Worlds
  <2>1. dpy \in PyHalf
    BY <1>1, WorldType, DownHalf
  <2> HIDE DEF dpy
  <2> QED BY <1>1, <2>1, WorldType
<1>4. CASE w.py.names = << >>
  <2>1. Reset(w) = CReset(LcpReset(down))
    BY <1>4 DEF Reset
  <2> QED BY <2>1, <1>3, LcpResetType, CResetDown
<1>5. CASE w.py.names # << >> /\ n < Len(w.py.names)
  <2>1. Reset(w) = CReset(LcpReset(next))
    BY <1>5 DEF Reset
  <2>2. w.py.names \in Seq(Acs)
    BY <1>1 DEF Worlds, CHalf, PyHalf, World
  <2>3. w.py.names[n + 1] \in Acs
    BY <2>2, <1>2, <1>5
  <2>4. next \in Worlds
    BY <1>1, <1>2, <2>3, NextType
  <2> QED BY <2>1, <2>4, LcpResetType, CResetDown
<1>6. CASE w.py.names # << >> /\ ~(n < Len(w.py.names))
  <2>1. Reset(w) = World(w.c, [dpy EXCEPT !.count = n], TRUE)
    BY <1>6 DEF Reset
  <2> QED BY <2>1 DEF World
<1> QED BY <1>4, <1>5, <1>6

\* The Python half has its turn: a reset, an echo that is due, or neither.
EchoDue(w) == w.py.start /\ LcpOk(w) /\ Heartbeat /\ w.py.lcpAge >= LcpWait

LEMMA PyLoopOutcome ==
  ASSUME LimitsAssumption, NEW w, Good(w), NEW hour \in BOOLEAN,
         NEW v, v = PyLoop(w, hour)
  PROVE  \/ Down(v.c) \/ (v.c = w.c /\ v.aborted)
         \/ /\ v.c = w.c /\ v.aborted = w.aborted
            /\ IF EchoDue(w)
               THEN w.py.fails <= MaxFails /\ v.py.fails = w.py.fails + 1 /\ v.py.lcpAge = 0
               ELSE v.py.fails = w.py.fails /\ v.py.lcpAge = w.py.lcpAge
<1> DEFINE echoed  == Echoes(w)
           none    == World(echoed.c, [echoed.py EXCEPT !.names = << >>], echoed.aborted)
           cleared == IF hour THEN none ELSE echoed
<1>1. CASE ~w.py.start \/ (~LcpGivesUp(w) /\ ~LcpOk(w))
  BY <1>1 DEF PyLoop, EchoDue
<1>2. CASE w.py.start /\ LcpGivesUp(w)
  BY <1>2, ResetOutcome DEF PyLoop
<1>3. CASE w.py.start /\ ~LcpGivesUp(w) /\ LcpOk(w)
  <2>1. Good(echoed)
    BY <1>3, EchoesGood
  <2>2. echoed \in Worlds /\ Agree(echoed) /\ w \in Worlds
    BY <2>1 DEF Good
  <2>3. /\ echoed.c = w.c /\ echoed.aborted = w.aborted
        /\ IF EchoDue(w)
           THEN w.py.fails <= MaxFails /\ echoed.py.fails = w.py.fails + 1 /\ echoed.py.lcpAge = 0
           ELSE echoed.py.fails = w.py.fails /\ echoed.py.lcpAge = w.py.lcpAge
    <3>1. CASE EchoDue(w)
      <4>1. ~(w.py.fails > MaxFails) /\ w.py.fails \in 0..(MaxFails + 1)
        BY <1>3, <2>2, <3>1 DEF EchoDue, LcpGivesUp, LcpOk, Worlds, CHalf, PyHalf
      <4>2. echoed = World(w.c, [w.py EXCEPT !.fails = @ + 1, !.lcpAge = 0], w.aborted)
        BY <3>1 DEF Echoes, EchoDue
      <4> HIDE DEF echoed
      <4>3. /\ echoed.c = w.c /\ echoed.aborted = w.aborted
            /\ echoed.py = [w.py EXCEPT !.fails = @ + 1, !.lcpAge = 0]
        BY <4>2 DEF World
      <4>4. echoed.py.fails = w.py.fails + 1 /\ echoed.py.lcpAge = 0
        BY <2>2, <4>3 DEF Worlds, CHalf, PyHalf
      <4>5. w.py.fails <= MaxFails
        BY <4>1, LimitsNat
      <4> QED BY <3>1, <4>3, <4>4, <4>5
    <3>2. CASE ~EchoDue(w)
      BY <1>3, <3>2 DEF Echoes, EchoDue
    <3> QED BY <3>1, <3>2
  <2> HIDE DEF echoed
  <2>4. Good(none)
    <3>1. none \in Worlds
      <4>1. << >> \in Seq(Acs)
        OBVIOUS
      <4> QED BY <2>2, <4>1 DEF Worlds, CHalf, PyHalf, World
    <3>2. Agree(none)
      BY <2>2 DEF Agree, LcpOk, Worlds, CHalf, PyHalf, World
    <3> QED BY <3>1, <3>2 DEF Good
  <2>5. /\ none.c = echoed.c /\ none.aborted = echoed.aborted
        /\ none.py.fails = echoed.py.fails /\ none.py.lcpAge = echoed.py.lcpAge
    BY <2>2 DEF Worlds, CHalf, PyHalf, World
  <2> HIDE DEF none
  <2>6. /\ Good(cleared) /\ cleared.c = echoed.c /\ cleared.aborted = echoed.aborted
        /\ cleared.py.fails = echoed.py.fails /\ cleared.py.lcpAge = echoed.py.lcpAge
    BY <2>1, <2>4, <2>5
  <2>7. v \in {cleared, Reset(cleared)}
    BY <1>3 DEF PyLoop, none, echoed
  <2> HIDE DEF cleared
  <2>8. CASE v = cleared
    BY <2>3, <2>6, <2>8
  <2>9. CASE v = Reset(cleared)
    <3>1. Down(v.c) \/ (v.c = cleared.c /\ v.aborted)
      BY <2>6, <2>9, ResetOutcome
    <3> QED BY <2>3, <2>6, <3>1
  <2> QED BY <2>7, <2>8, <2>9
<1> QED BY <1>1, <1>2, <1>3

\* The C half has its turn, after ten seconds.
LEMMA LineOutcome ==
  ASSUME LimitsAssumption, TimelyInv, NEW sent \in BOOLEAN, NEW v, v = SysloopCb(Aged(Now), sent)
  PROVE  /\ Good(v) /\ Placed(v.c)
         /\ v.py.fails = py.fails /\ v.py.lcpAge = Later(py.lcpAge, LcpWait)
         /\ v.py.start = py.start /\ (LcpOk(v) <=> LcpOk(Now))
         /\ Settled => AtRest(v)
         /\ ~Settled => \/ Down(v.c)
                        \/ /\ v.c.pppoeOk = c.pppoeOk /\ v.aborted = aborted
                           /\ ~c.pppoeOk => v.c.up = c.up + 1
<1> DEFINE a == Aged(Now)
<1>1. Good(Now) /\ Good(a) /\ Good(v)
  BY GoodNow, AgedGood, SysloopGood DEF TimelyInv
<1>2. /\ a.c = [c EXCEPT !.up = Later(@, GiveUp + 1)] /\ a.aborted = aborted
      /\ a.py = [py EXCEPT !.authAge = Later(@, AuthWait), !.lcpAge = Later(@, LcpWait)]
  BY DEF Aged, Now, World
<1>3. /\ a \in Worlds /\ Now \in Worlds /\ Agree(Now)
  BY <1>1 DEF Good
<1>4. c.up \in 0..(GiveUp + 1) /\ Placed(c) /\ GiveUp \in Nat
  BY LimitsNat DEF TimelyInv, PppoeInv, TypeOK
<1>5. a.c.up = Later(c.up, GiveUp + 1) /\ a.c.up \in 1..(GiveUp + 1)
  <2>1. a.c.up = Later(c.up, GiveUp + 1)
    BY <1>2, <1>3 DEF Worlds, CHalf, PyHalf, Now, World
  <2> QED BY <1>4, <2>1 DEF Later
<1>6. /\ a.c.discoveryOk = c.discoveryOk /\ a.c.selected = c.selected /\ a.c.stage = c.stage
      /\ a.c.pppoeOk = c.pppoeOk
  BY <1>2, <1>3 DEF Worlds, CHalf, PyHalf, Now, World
<1>7. /\ a.py.fails = py.fails /\ a.py.lcpAge = Later(py.lcpAge, LcpWait)
      /\ a.py.start = py.start /\ (LcpOk(a) <=> LcpOk(Now))
  BY <1>2, <1>3 DEF Worlds, CHalf, PyHalf, Now, World, LcpOk
<1> HIDE DEF a
<1>8. c.pppoeOk => c.discoveryOk
  BY <1>3 DEF Agree, Now, World
<1>9. CASE a.c.up > GiveUp /\ ~c.pppoeOk
  <2>1. v = CReset(a)
    BY <1>5, <1>6, <1>9 DEF SysloopCb, Retry, a
  <2>2. Down(v.c) /\ v.py = a.py
    <3>1. Down(v.c)
      BY <1>3, <2>1, CResetDown
    <3>2. v.py = a.py
      BY <2>1 DEF CReset, World
    <3> QED BY <3>1, <3>2
  <2> QED BY <1>1, <1>7, <2>2, DownPlaced DEF AtRest, Down, LcpOk
<1>10. CASE ~(a.c.up > GiveUp /\ ~c.pppoeOk) /\ ~c.discoveryOk /\ c.stage = "none" /\ sent
  <2>1. v = World([a.c EXCEPT !.up = 0], a.py, a.aborted)
    BY <1>5, <1>6, <1>10 DEF SysloopCb, Retry, a
  <2>2. ~c.selected /\ Settled /\ v.py = a.py
    <3>1. ~c.selected
      BY <1>4, <1>10 DEF Placed
    <3>2. Settled
      BY <1>10, <3>1 DEF Settled, Dialling
    <3>3. v.py = a.py
      BY <2>1 DEF World
    <3> QED BY <3>1, <3>2, <3>3
  <2>3. Down(v.c)
    <3>1. v.c = [a.c EXCEPT !.up = 0]
      BY <2>1 DEF World
    <3>2. /\ v.c.up = 0 /\ v.c.discoveryOk = c.discoveryOk /\ v.c.selected = c.selected
          /\ v.c.stage = c.stage /\ v.c.pppoeOk = c.pppoeOk
      BY <1>3, <1>6, <3>1 DEF Worlds, CHalf, PyHalf
    <3> QED BY <1>8, <1>10, <2>2, <3>2 DEF Down
  <2> QED BY <1>1, <1>7, <2>2, <2>3, DownPlaced DEF AtRest, Down, LcpOk
<1>11. CASE ~(a.c.up > GiveUp /\ ~c.pppoeOk) /\ ~(~c.discoveryOk /\ c.stage = "none" /\ sent)
  <2>1. v = a
    BY <1>5, <1>6, <1>11 DEF SysloopCb, Retry, a
  <2>2. Placed(v.c)
    BY <1>4, <1>5, <1>6, <1>11, <2>1 DEF Placed
  <2>3. Settled => AtRest(v)
    BY <1>2, <1>6, <2>1 DEF Settled, Dialling, AtRest
  <2>4. ~c.pppoeOk => v.c.up = c.up + 1
    BY <1>4, <1>5, <2>1 DEF Placed, Later
  <2> QED BY <1>1, <1>2, <1>6, <1>7, <2>1, <2>2, <2>3, <2>4
<1> QED BY <1>9, <1>10, <1>11

LEMMA PlacedStep == TimelyInv /\ [Next]_vars => TimelyInv'
<1> SUFFICES ASSUME TimelyInv, [Next]_vars PROVE Placed(c')
  BY PppoeStep DEF TimelyInv, Placed
<1>1. Placed(c) /\ Good(Now) /\ Now \in Worlds /\ Now.c = c /\ c = Now.c
  BY GoodNow DEF TimelyInv, Good, Now, World
<1>2. CASE Turn
  <2>1. PICK sent, hour \in BOOLEAN :
           \E line \in {SysloopCb(Aged(Now), sent)} :
             \E both \in {IF loopAge + 1 < PyEvery THEN line ELSE PyLoop(line, hour)} :
                Become(both)
    BY <1>2 DEF Turn
  <2>2. PICK v : v = SysloopCb(Aged(Now), sent)
    OBVIOUS
  <2>3. Good(v) /\ Placed(v.c)
    BY <2>2, LineOutcome, LimitsAssumption
  <2>4. PICK u : u = PyLoop(v, hour)
    OBVIOUS
  <2>5. Down(u.c) \/ u.c = v.c
    BY <2>3, <2>4, PyLoopOutcome, LimitsAssumption
  <2>6. c' = v.c \/ c' = u.c
    BY <2>1, <2>2, <2>4 DEF Become
  <2> QED BY <2>3, <2>5, <2>6, DownPlaced, LimitsAssumption
<1>3. ASSUME NEW a \in Acs, Pado(a) PROVE Placed(c')
  <2>1. \/ c' = [Recorded(Now, a).c EXCEPT !.server = a, !.selected = TRUE,
                                          !.stage = "PADR", !.up = 0]
        \/ c' = Recorded(Now, a).c
    BY <1>3 DEF Pado, Become, World
  <2>2. Recorded(Now, a).c = c
    BY <1>1, RecordedGood
  <2>3. c' = c \/ (c'.stage = "PADR" /\ c'.up = 0)
    BY <1>1, <2>1, <2>2 DEF Worlds, CHalf, PyHalf
  <2>4. GiveUp \in Nat
    BY LimitsNat, LimitsAssumption
  <2> QED BY <1>1, <2>3, <2>4 DEF Placed
<1>4. ASSUME NEW a \in Acs, Pads(a) PROVE Placed(c')
  <2>1. \/ c' = [Recorded(Now, a).c EXCEPT !.discoveryOk = TRUE, !.stage = "PADS"]
        \/ c' = Recorded(Now, a).c
    BY <1>4 DEF Pads, Become, World
  <2>2. Recorded(Now, a).c = c
    BY <1>1, RecordedGood
  <2>3. c' = c \/ (c'.stage = "PADS" /\ c'.up = c.up /\ c'.pppoeOk = c.pppoeOk)
    <3>1. /\ c \in [up : 0..(GiveUp + 1), discoveryOk : BOOLEAN, selected : BOOLEAN,
                    server : Acs \cup {NoAc}, stage : {"none", "PADR", "PADS"},
                    pppoeOk : BOOLEAN, forced : Acs \cup {NoAc}]
          /\ c' = c \/ c' = [c EXCEPT !.discoveryOk = TRUE, !.stage = "PADS"]
      BY <2>1, <2>2 DEF TimelyInv, PppoeInv, TypeOK
    <3> QED BY <3>1
  <2> QED BY <1>1, <2>3 DEF Placed
<1>5. CASE DiscoveryError \/ Padt \/ Refused \/ AuthFailure \/ ReDial
  <2>1. PICK r : r = Reset(Now)
    OBVIOUS
  <2>2. r \in Worlds /\ (Down(r.c) \/ r.c = c)
    BY <1>1, <2>1, ResetGood, ResetOutcome, LimitsAssumption DEF Good
  <2>3. c' = r.c \/ c' = CReset(r).c
    BY <1>5, <2>1 DEF DiscoveryError, Padt, Refused, AuthFailure, ReDial, Become
  <2> QED BY <1>1, <2>2, <2>3, CResetDown, DownPlaced, LimitsAssumption
<1>6. CASE UNCHANGED c
  BY <1>1, <1>6
<1>7. CASE AuthSuccess
  BY <1>1, <1>7 DEF AuthSuccess, Placed, Worlds, CHalf, PyHalf
<1> QED BY <1>2, <1>3, <1>4, <1>5, <1>6, <1>7 DEF Next, Packet, CfgReq, CfgAck, Echo, vars

(***************************************************************************)
(* The deadline.                                                           *)
(***************************************************************************)
LEMMA Nearer ==
  ASSUME NEW n \in Int, NEW i \in Int, NEW j \in Int, i < j
  PROVE  n + i + 1 < n + j + 1
OBVIOUS

LEMMA NearerByOne ==
  ASSUME NEW n \in Nat, NEW m \in Nat, NEW i \in Int, NEW j \in Nat, i + 1 <= m
  PROVE  n + i + 1 < (n + m) + j + 1
OBVIOUS

LEMMA Times ==
  ASSUME NEW W \in Nat, NEW a \in Nat, NEW b \in Nat, a <= b
  PROVE  a * W \in Nat /\ a * W <= b * W /\ (a + 1) * W = a * W + W
OBVIOUS

LEMMA PatienceFits ==
  ASSUME TimelyInv
  PROVE  TurnsLeft \in 0 .. TurnsAtMost /\ (TurnsLeft = 0 => Settled)
<1> DEFINE W == LcpWait + PyEvery
           k == (MaxFails + 1) - py.fails
<1>1. /\ LcpWait \in Nat /\ MaxFails \in Nat /\ PyEvery \in Nat /\ PyEvery > 1 /\ GiveUp \in Nat
      /\ py.fails \in 0..(MaxFails + 1) /\ py.lcpAge \in 0..LcpWait /\ loopAge \in 0..(PyEvery - 1)
      /\ c.up \in 0..(GiveUp + 1) /\ Placed(c)
  BY LimitsNat, LimitsAssumption DEF TimelyInv, PppoeInv, TypeOK, LimitsAssumption
<1>2. k \in Nat /\ k <= MaxFails + 1 /\ W \in Nat
  BY <1>1
<1>3. k * W \in Nat /\ k * W <= (MaxFails + 1) * W /\ (MaxFails + 1) * W \in Nat
  <2> HIDE DEF k, W
  <2>1. MaxFails + 1 \in Nat
    BY <1>1
  <2> QED BY <1>2, <2>1, Times
<1>4. (MaxFails + 2) * W = (MaxFails + 1) * W + W
  <2> HIDE DEF W
  <2>1. MaxFails + 1 \in Nat /\ MaxFails + 2 = (MaxFails + 1) + 1
    BY <1>1
  <2> QED BY <1>2, <2>1, Times
<1>5. Overdue + 1 \in 1 .. W
  BY <1>1 DEF Overdue
<1>6. TurnsLeft = IF Settled THEN 0
                  ELSE IF ~c.pppoeOk THEN (GiveUp + 1) - c.up ELSE k * W + Overdue + 1
  BY DEF TurnsLeft
<1>7. TurnsAtMost \in Nat /\ TurnsAtMost >= GiveUp + 1 /\ TurnsAtMost >= (MaxFails + 1) * W + W
  <2>1. TurnsAtMost = IF (MaxFails + 2) * W > GiveUp THEN (MaxFails + 2) * W ELSE GiveUp + 1
    BY DEF TurnsAtMost
  <2> HIDE DEF W
  <2> QED BY <1>1, <1>2, <1>3, <1>4, <2>1
<1> HIDE DEF k, W
<1>8. CASE Settled
  BY <1>6, <1>7, <1>8
<1>9. CASE ~Settled /\ ~c.pppoeOk
  BY <1>1, <1>6, <1>7, <1>9 DEF Placed
<1>10. CASE ~Settled /\ c.pppoeOk
  <2>1. Overdue \in Int /\ TurnsLeft = k * W + Overdue + 1
    BY <1>1, <1>6, <1>10 DEF Overdue
  <2>2. PICK x \in Nat, y \in Nat : x = k * W /\ y = (MaxFails + 1) * W
    BY <1>3
  <2> QED BY <1>2, <1>3, <1>5, <1>7, <2>1, <2>2
<1> QED BY <1>8, <1>9, <1>10

LEMMA TurnIsProgress ==
  ASSUME TimelyInv, Turn
  PROVE  Settled' \/ TurnsLeft' < TurnsLeft
<1> SUFFICES ASSUME ~Settled' PROVE TurnsLeft' < TurnsLeft
  OBVIOUS
<1>1. PICK sent, hour \in BOOLEAN :
         \E line \in {SysloopCb(Aged(Now), sent)} :
           \E both \in {IF loopAge + 1 < PyEvery THEN line ELSE PyLoop(line, hour)} :
              Become(both)
  BY DEF Turn
<1>2. PICK v : v = SysloopCb(Aged(Now), sent)
  OBVIOUS
<1>3. PICK u : u = PyLoop(v, hour)
  OBVIOUS
<1>4. PICK w : w = (IF loopAge + 1 < PyEvery THEN v ELSE u) /\ Become(w)
  BY <1>1, <1>2, <1>3
<1>5. /\ Good(v) /\ Placed(v.c)
      /\ v.py.fails = py.fails /\ v.py.lcpAge = Later(py.lcpAge, LcpWait)
      /\ v.py.start = py.start /\ (LcpOk(v) <=> LcpOk(Now))
      /\ Settled => AtRest(v)
      /\ ~Settled => \/ Down(v.c)
                     \/ /\ v.c.pppoeOk = c.pppoeOk /\ v.aborted = aborted
                        /\ ~c.pppoeOk => v.c.up = c.up + 1
  BY <1>2, LineOutcome, LimitsAssumption
<1>6. \/ Down(u.c) \/ (u.c = v.c /\ u.aborted)
      \/ /\ u.c = v.c /\ u.aborted = v.aborted
         /\ IF EchoDue(v)
            THEN v.py.fails <= MaxFails /\ u.py.fails = v.py.fails + 1 /\ u.py.lcpAge = 0
            ELSE u.py.fails = v.py.fails /\ u.py.lcpAge = v.py.lcpAge
  BY <1>3, <1>5, PyLoopOutcome, LimitsAssumption
<1>7. c' = w.c /\ py' = w.py /\ aborted' = w.aborted
  BY <1>4 DEF Become
<1>8. ~AtRest(w) /\ ~Down(w.c)
  BY <1>7 DEF AtRest, Down, Settled, Dialling
<1>9. ~AtRest(v) /\ ~Down(v.c)
  BY <1>4, <1>6, <1>8 DEF AtRest, Down
<1>10. ~Settled /\ v.c.pppoeOk = c.pppoeOk /\ v.aborted = aborted
       /\ (~c.pppoeOk => v.c.up = c.up + 1)
  BY <1>5, <1>9
<1>11. CASE ~c.pppoeOk
  <2>1. w.c = v.c
    BY <1>4, <1>6, <1>8
  <2>2. ~c'.pppoeOk /\ c'.up = c.up + 1
    BY <1>7, <1>10, <1>11, <2>1
  <2>3. c.up \in Nat /\ GiveUp \in Nat
    BY LimitsNat, LimitsAssumption DEF TimelyInv, PppoeInv, TypeOK
  <2> QED BY <1>10, <1>11, <2>2, <2>3 DEF TurnsLeft
<1>12. CASE c.pppoeOk
  <2>1. Heartbeat /\ ~aborted /\ py.start /\ LcpOk(Now)
    BY <1>10, <1>12 DEF Settled, TimelyInv, PppoeInv, HalvesAgree
  <2>2. /\ w.c = v.c /\ w.aborted = aborted
        /\ IF loopAge + 1 < PyEvery \/ ~EchoDue(v)
           THEN w.py.fails = py.fails /\ w.py.lcpAge = Later(py.lcpAge, LcpWait)
           ELSE py.fails <= MaxFails /\ w.py.fails = py.fails + 1 /\ w.py.lcpAge = 0
    BY <1>4, <1>5, <1>6, <1>8, <1>10, <1>12 DEF AtRest
  <2>3. EchoDue(v) <=> Later(py.lcpAge, LcpWait) >= LcpWait
    BY <1>5, <2>1 DEF EchoDue
  <2>4. /\ LcpWait \in Nat /\ MaxFails \in Nat /\ PyEvery \in Nat /\ PyEvery > 1
        /\ py.fails \in 0..(MaxFails + 1) /\ py.lcpAge \in 0..LcpWait
        /\ loopAge \in 0..(PyEvery - 1)
    BY LimitsNat, LimitsAssumption DEF TimelyInv, PppoeInv, TypeOK, LimitsAssumption
  <2>5. loopAge' = IF loopAge + 1 < PyEvery THEN loopAge + 1 ELSE 0
    BY DEF Turn
  <2> DEFINE W == LcpWait + PyEvery
             k == (MaxFails + 1) - py.fails
             j == (MaxFails + 1) - py'.fails
  <2>6. TurnsLeft = k * W + Overdue + 1
    BY <1>10, <1>12 DEF TurnsLeft
  <2>7. TurnsLeft' = j * W + Overdue' + 1
    <3>1. c'.pppoeOk
      BY <1>7, <1>10, <1>12, <2>2
    <3> QED BY <3>1 DEF TurnsLeft
  <2>8. W \in Nat /\ Overdue \in 0 .. W
    BY <2>4 DEF Overdue
  <2>9. CASE loopAge + 1 < PyEvery \/ ~EchoDue(v)
    <3>1. py'.fails = py.fails /\ py'.lcpAge = Later(py.lcpAge, LcpWait)
      BY <1>7, <2>2, <2>9
    <3>2. Overdue' < Overdue /\ Overdue' \in Int
      BY <2>3, <2>4, <2>5, <2>9, <3>1 DEF Overdue, Later
    <3>3. j = k /\ k \in Nat
      BY <2>4, <3>1
    <3> HIDE DEF j, k, W
    <3>4. k * W \in Nat
      BY <2>8, <3>3, Times
    <3> DEFINE p == k * W
    <3>5. TurnsLeft = p + Overdue + 1 /\ TurnsLeft' = p + Overdue' + 1
      BY <2>6, <2>7, <3>3
    <3> HIDE DEF p
    <3>6. Overdue \in Int /\ p \in Int
      BY <2>8, <3>4 DEF p
    <3>7. p + Overdue' + 1 < p + Overdue + 1
      BY <3>2, <3>6, Nearer
    <3> QED BY <3>5, <3>7
  <2>10. CASE ~(loopAge + 1 < PyEvery) /\ EchoDue(v)
    <3>1. py'.fails = py.fails + 1 /\ py'.lcpAge = 0 /\ py.fails <= MaxFails
      BY <1>7, <2>2, <2>10
    <3>2. loopAge' = 0
      BY <2>5, <2>10
    <3>3. Overdue' \in Int /\ Overdue' + 1 <= W
      BY <2>4, <3>1, <3>2 DEF Overdue
    <3>4. j \in Nat /\ k = j + 1
      BY <2>4, <3>1
    <3> HIDE DEF j, k, W
    <3>5. j * W \in Nat /\ k * W = j * W + W
      BY <2>8, <3>4, Times
    <3> DEFINE p == j * W
    <3>6. TurnsLeft = (p + W) + Overdue + 1 /\ TurnsLeft' = p + Overdue' + 1
      BY <2>6, <2>7, <3>5
    <3> HIDE DEF p
    <3>7. Overdue \in Nat /\ p \in Nat /\ W \in Nat
      BY <2>8, <3>5 DEF p
    <3>8. p + Overdue' + 1 < (p + W) + Overdue + 1
      BY <3>3, <3>7, NearerByOne
    <3> QED BY <3>6, <3>8
  <2> QED BY <2>9, <2>10
<1> QED BY <1>11, <1>12

\* A client left alone dials anew within TurnsAtMost turns of the loop, for
\* any limits: from every state each turn brings it nearer (pppoe.c:125,
\* lcp.py:399 and pppoe.py:204 cover for each other).  Together with the
\* fairness of the loop this is why Redials holds.
THEOREM PppoeRedialsInTime == Spec => RedialsInTime
<1>1. Init => TimelyInv
  <2>1. Init => Placed(c)
    BY LimitsNat, LimitsAssumption DEF Init, Placed
  <2> QED BY <2>1, PppoeInit DEF TimelyInv
<1>2. TimelyInv /\ [Next]_vars => TimelyInv'
  BY PlacedStep
<1>3. TimelyInv => TurnsLeft \in 0 .. TurnsAtMost /\ (TurnsLeft = 0 => Settled)
  BY PatienceFits
<1>4. TimelyInv /\ [Next]_vars => [loopAge' # loopAge => Settled' \/ TurnsLeft' < TurnsLeft]_vars
  <2>1. [Next]_vars /\ loopAge' # loopAge => Turn
    BY DEF Next, Packet, Pado, Pads, DiscoveryError, Padt, CfgReq, CfgAck, Refused, Echo,
           AuthSuccess, AuthFailure, ReDial, vars
  <2> QED BY <2>1, TurnIsProgress
<1> QED BY <1>1, <1>2, <1>3, <1>4, PTL DEF Spec, RedialsInTime

(***************************************************************************)
(* Every concentrator in turn.  Only four parts of the two halves matter:  *)
(* the list, the index, whether Python runs, and the name that is forced.  *)
(***************************************************************************)
Within(k) == k.count < Len(k.names)

\* How many sessions may fail before the i-th concentrator of the list is
\* forced: the resets until the index comes to it, and two for each
\* concentrator that may still join the list behind the index.
WaitsFor(k, i) ==
  2 * (Cardinality(Acs) - Len(k.names)) +
  (IF k.count < i - 1 THEN i - 1 - k.count ELSE (Len(k.names) - k.count) + (i - 1))

\* Unless the list is cleared, a step keeps the index in the list and the
\* concentrators at their places, and either forces a concentrator on the
\* line or does not put it off; and if it ends a session, it brings it nearer.
InTurnStep ==
  Within(py) /\ py'.names # << >> =>
    /\ Within(py')
    /\ \A i \in DOMAIN py.names :
         /\ i \in DOMAIN py'.names /\ py'.names[i] = py.names[i]
         /\ \/ c'.forced = py.names[i]
            \/ /\ WaitsFor(py', i) <= WaitsFor(py, i)
               /\ py.start /\ ~py'.start => WaitsFor(py', i) < WaitsFor(py, i)

\* A broken concentrator does not lock the others out (the safety half of
\* EveryAcTried): while it stays listed and the index is in the list, each
\* concentrator is forced on the line before 2 * Cardinality(Acs) sessions
\* have failed, whoever ends them and however the list grows (pppoe.py:179).
EachInTurn ==
  /\ [](Within(py) => \A i \in DOMAIN py.names : WaitsFor(py, i) \in 1..(2 * Cardinality(Acs)))
  /\ [][InTurnStep]_vars

NamesOnce(q) == \A i, j \in DOMAIN q : q[i] = q[j] => i = j

LEMMA ListBounded ==
  ASSUME NEW q \in Seq(Acs), NamesOnce(q)
  PROVE  Len(q) \in Nat /\ Len(q) <= Cardinality(Acs) /\ Cardinality(Acs) \in Nat
<1>1. Len(q) \in Nat /\ DOMAIN q = 1..Len(q) /\ q \in [1..Len(q) -> Acs]
  OBVIOUS
<1>2. q \in Injection(1..Len(q), Acs)
  BY <1>1 DEF Injection, IsInjective, NamesOnce
<1>3. IsFiniteSet(Acs) /\ Cardinality(Acs) \in Nat
  BY AcsAssumption, FS_CardinalityType
<1>4. Cardinality(1..Len(q)) <= Cardinality(Acs)
  BY <1>2, <1>3, FS_Injection
<1>5. Cardinality(1..Len(q)) = Len(q)
  <2>1. 1 \in Int /\ Len(q) \in Int /\ 0 <= Len(q)
    BY <1>1
  <2>2. Cardinality(1..Len(q)) = IF 1 > Len(q) THEN 0 ELSE Len(q) - 1 + 1
    BY ONLY <2>1, FS_Interval
  <2> QED BY ONLY <2>1, <2>2
<1> QED BY <1>1, <1>3, <1>4, <1>5

\* What a call may make of the four: nothing, an empty list, or a reset.
Same(w, v) ==
  /\ v.py.names = w.py.names /\ v.py.count = w.py.count
  /\ v.py.start = w.py.start /\ v.c.forced = w.c.forced

Rotated(w, v) ==
  /\ v.py.names = w.py.names /\ ~v.py.start
  /\ v.py.names # << >> => v.py.count = NextCount(w)
  /\ v.py.names # << >> /\ NextCount(w) < Len(w.py.names) =>
       v.c.forced = w.py.names[NextCount(w) + 1]

LEMMA PartsKept ==
  ASSUME NEW w \in Worlds
  PROVE  /\ Same(w, CReset(w)) /\ Same(w, LcpReset(w)) /\ Same(w, Aged(w)) /\ Same(w, Echoes(w))
         /\ \A sent \in BOOLEAN : Same(w, SysloopCb(w, sent))
<1>1. Same(w, CReset(w)) /\ Same(w, LcpReset(w)) /\ Same(w, Aged(w))
  BY DEF Same, CReset, LcpReset, Aged, Worlds, CHalf, PyHalf, World
<1>2. Same(w, Echoes(w))
  BY DEF Same, Echoes, Worlds, CHalf, PyHalf, World
<1>3. ASSUME NEW sent \in BOOLEAN PROVE Same(w, SysloopCb(w, sent))
  <2>1. SysloopCb(w, sent) \in {w, CReset(w), World([w.c EXCEPT !.up = 0], w.py, w.aborted)}
    BY DEF SysloopCb
  <2>2. Same(w, World([w.c EXCEPT !.up = 0], w.py, w.aborted)) /\ Same(w, w)
    BY DEF Same, Worlds, CHalf, PyHalf, World
  <2> QED BY <1>1, <2>1, <2>2
<1> QED BY <1>1, <1>2, <1>3

LEMMA SameTrans ==
  ASSUME NEW u, NEW w, NEW v, Same(u, w)
  PROVE  /\ Same(w, v) => Same(u, v)
         /\ Rotated(w, v) => Rotated(u, v)
         /\ Rotated(v, u) => Rotated(v, w)
BY DEF Same, Rotated, NextCount

LEMMA ResetRotates ==
  ASSUME LimitsAssumption, NEW w, Good(w)
  PROVE  Rotated(w, Reset(w))
<1> DEFINE dpy  == [w.py EXCEPT !.start = FALSE, !.authOk = FALSE]
           down == World(w.c, dpy, w.aborted)
           n    == NextCount(w)
           next == World([w.c EXCEPT !.forced = w.py.names[n + 1]],
                         [dpy EXCEPT !.count = n], w.aborted)
           cut  == World(w.c, [dpy EXCEPT !.count = n], TRUE)
<1>1. w \in Worlds
  BY DEF Good
<1>2. n \in 0..CountCap /\ n \in Nat
  BY <1>1, NextCountType, CapNat
<1>3. /\ down \in Worlds /\ down.py.names = w.py.names /\ ~down.py.start
      /\ w.c \in CHalf /\ dpy \in PyHalf
  <2>1. /\ dpy \in PyHalf /\ dpy.names = w.py.names /\ ~dpy.start
        /\ w.c \in CHalf
    BY <1>1, WorldType, DownHalf
  <2> HIDE DEF dpy
  <2> QED BY <1>1, <2>1, WorldType
<1>4. CASE w.py.names = << >>
  <2>1. Reset(w) = CReset(LcpReset(down))
    BY <1>4 DEF Reset
  <2>2. Same(down, Reset(w))
    BY <2>1, <1>3, LcpResetType, PartsKept, SameTrans
  <2> QED BY <1>3, <1>4, <2>2 DEF Same, Rotated
<1>5. CASE w.py.names # << >> /\ n < Len(w.py.names)
  <2>1. Reset(w) = CReset(LcpReset(next))
    BY <1>5 DEF Reset
  <2>2. w.py.names \in Seq(Acs)
    BY <1>1 DEF Worlds, CHalf, PyHalf, World
  <2>3. w.py.names[n + 1] \in Acs
    BY <2>2, <1>2, <1>5
  <2>4. next \in Worlds
    BY <1>1, <1>2, <2>3, NextType
  <2>5. /\ next.py.names = w.py.names /\ ~next.py.start /\ next.py.count = n
        /\ next.c.forced = w.py.names[n + 1]
    BY <1>1 DEF Worlds, CHalf, PyHalf, World
  <2>6. Same(next, Reset(w))
    BY <2>1, <2>4, LcpResetType, PartsKept, SameTrans
  <2> HIDE DEF next
  <2> QED BY <2>5, <2>6 DEF Same, Rotated
<1>6. CASE w.py.names # << >> /\ ~(n < Len(w.py.names))
  <2>1. Reset(w) = cut
    BY <1>6 DEF Reset
  <2>2. cut.py.names = w.py.names /\ ~cut.py.start /\ cut.py.count = n
    BY <1>1 DEF Worlds, CHalf, PyHalf, World
  <2> QED BY <1>6, <2>1, <2>2 DEF Rotated
<1> QED BY <1>4, <1>5, <1>6

LEMMA PyLoopRotates ==
  ASSUME LimitsAssumption, NEW w, Good(w), NEW hour \in BOOLEAN, NEW v, v = PyLoop(w, hour)
  PROVE  Same(w, v) \/ Rotated(w, v) \/ v.py.names = << >>
<1> DEFINE echoed  == Echoes(w)
           none    == World(echoed.c, [echoed.py EXCEPT !.names = << >>], echoed.aborted)
           cleared == IF hour THEN none ELSE echoed
<1>1. CASE ~w.py.start \/ (~LcpGivesUp(w) /\ ~LcpOk(w))
  BY <1>1 DEF PyLoop, Same
<1>2. CASE w.py.start /\ LcpGivesUp(w)
  BY <1>2, ResetRotates DEF PyLoop
<1>3. CASE w.py.start /\ ~LcpGivesUp(w) /\ LcpOk(w)
  <2>1. Good(echoed) /\ Same(w, echoed)
    BY <1>3, EchoesGood, PartsKept DEF Good
  <2>2. echoed \in Worlds /\ Agree(echoed)
    BY <2>1 DEF Good
  <2> HIDE DEF echoed
  <2>3. Good(none) /\ none.py.names = << >>
    <3>1. none \in Worlds
      <4>1. << >> \in Seq(Acs)
        OBVIOUS
      <4> QED BY <2>2, <4>1 DEF Worlds, CHalf, PyHalf, World
    <3>2. Agree(none)
      BY <2>2 DEF Agree, LcpOk, Worlds, CHalf, PyHalf, World
    <3> QED BY <2>2, <3>1, <3>2 DEF Good, Worlds, CHalf, PyHalf, World
  <2>4. v \in {cleared, Reset(cleared)}
    BY <1>3 DEF PyLoop, echoed
  <2> HIDE DEF none
  <2>5. CASE hour
    <3>1. Rotated(none, Reset(none))
      BY <2>3, ResetRotates
    <3> QED BY <2>3, <2>4, <2>5, <3>1 DEF Rotated
  <2>6. CASE ~hour
    <3>1. Rotated(echoed, Reset(echoed))
      BY <2>1, ResetRotates
    <3> QED BY <2>1, <2>4, <2>6, <3>1, SameTrans
  <2> QED BY <2>5, <2>6
<1> QED BY <1>1, <1>2, <1>3

\* What a step may make of the four.
Cleared == py'.names = << >>
Stays == /\ \/ py'.names = py.names
            \/ \E a \in Acs : /\ py'.names = Append(py.names, a)
                              /\ \A i \in DOMAIN py.names : py.names[i] # a
         /\ py'.count = py.count /\ (py.start => py'.start)
Turns == Rotated(Now, Now')

LEMMA StepCases ==
  ASSUME PppoeInv, [Next]_vars
  PROVE  Cleared \/ Stays \/ Turns
<1>1. Good(Now) /\ Now \in Worlds /\ Now.py = py /\ Now.c = c
  BY GoodNow DEF Good, Now, World
<1>2. ASSUME NEW v, Become(v) PROVE Now'.py = v.py /\ Now'.c = v.c
  BY <1>2 DEF Become, Now, World
<1>3. ASSUME NEW v, Become(v), Same(Now, v) PROVE Stays
  BY <1>1, <1>3 DEF Same, Become, Stays
<1>4. ASSUME NEW v, Become(v), Rotated(Now, v) PROVE Turns
  BY <1>2, <1>4 DEF Rotated, Turns
<1>5. CASE Turn
  <2>1. PICK sent, hour \in BOOLEAN :
           \E line \in {SysloopCb(Aged(Now), sent)} :
             \E both \in {IF loopAge + 1 < PyEvery THEN line ELSE PyLoop(line, hour)} :
                Become(both)
    BY <1>5 DEF Turn
  <2> DEFINE w == SysloopCb(Aged(Now), sent)
             v == PyLoop(w, hour)
  <2>2. Good(Aged(Now)) /\ Good(w)
    BY <1>1, LimitsAssumption, AgedGood, SysloopGood
  <2>3. Same(Now, w)
    BY <1>1, <2>2, PartsKept, SameTrans DEF Good
  <2>4. Become(w) \/ Become(v)
    BY <2>1
  <2> HIDE DEF w
  <2>5. Same(w, v) \/ Rotated(w, v) \/ v.py.names = << >>
    BY <2>2, LimitsAssumption, PyLoopRotates
  <2>6. Same(Now, v) \/ Rotated(Now, v) \/ v.py.names = << >>
    BY <2>3, <2>5, SameTrans
  <2> HIDE DEF v
  <2>7. Become(v) /\ v.py.names = << >> => Cleared
    BY DEF Become, Cleared
  <2> QED BY <1>3, <1>4, <2>3, <2>4, <2>6, <2>7
<1>6. CASE \E a \in Acs : Pado(a) \/ Pads(a)
  <2>1. PICK a \in Acs : Pado(a) \/ Pads(a)
    BY <1>6
  <2> DEFINE w == Recorded(Now, a)
  <2>2. /\ w.py.count = py.count /\ w.py.start = py.start /\ w \in Worlds
        /\ \/ w.py.names = py.names
           \/ /\ w.py.names = Append(py.names, a)
              /\ \A i \in DOMAIN py.names : py.names[i] # a
    <3>1. w \in Worlds
      BY <1>1, RecordedGood DEF Good
    <3>2. CASE \E i \in DOMAIN Now.py.names : Now.py.names[i] = a
      BY <1>1, <3>1, <3>2 DEF Recorded
    <3>3. CASE ~\E i \in DOMAIN Now.py.names : Now.py.names[i] = a
      <4>1. w = World(Now.c, [Now.py EXCEPT !.names = Append(@, a)], Now.aborted)
        BY <3>3 DEF Recorded
      <4>2. /\ w.py.names = Append(py.names, a) /\ w.py.count = py.count
            /\ w.py.start = py.start
        BY <1>1, <4>1 DEF Worlds, CHalf, PyHalf, World
      <4> HIDE DEF w
      <4> QED BY <1>1, <3>1, <3>3, <4>2
    <3> QED BY <3>2, <3>3
  <2>3. CASE Pado(a)
    <3>1. py' = w.py
      BY <2>3 DEF Pado, Become, World
    <3> HIDE DEF w
    <3> QED BY <2>2, <3>1 DEF Stays
  <2>4. CASE Pads(a)
    <3>1. py' = w.py \/ py' = [w.py EXCEPT !.start = TRUE, !.authAge = 0]
      BY <2>4 DEF Pads, Become, World
    <3> HIDE DEF w
    <3>2. /\ py'.names = w.py.names /\ py'.count = w.py.count
          /\ w.py.start => py'.start
      BY <2>2, <3>1 DEF Worlds, CHalf, PyHalf, World
    <3> QED BY <2>2, <3>2 DEF Stays
  <2> QED BY <2>1, <2>3, <2>4
<1>7. CASE DiscoveryError \/ Padt \/ Refused \/ AuthFailure \/ ReDial
  <2>1. Become(Reset(Now)) \/ Become(CReset(Reset(Now)))
    BY <1>7 DEF DiscoveryError, Padt, Refused, AuthFailure, ReDial
  <2>2. Rotated(Now, Reset(Now)) /\ Reset(Now) \in Worlds
    BY <1>1, LimitsAssumption, ResetRotates, ResetGood DEF Good
  <2>3. Rotated(Now, CReset(Reset(Now)))
    BY <2>2, PartsKept, SameTrans
  <2> QED BY <1>4, <2>1, <2>2, <2>3
<1>8. CASE \/ \E mru, auth \in BOOLEAN : CfgReq(mru, auth)
           \/ CfgAck \/ Echo \/ AuthSuccess \/ UNCHANGED vars
  <2>1. py \in PyHalf
    BY DEF PppoeInv, TypeOK, PyHalf
  <2>2. CASE \E mru, auth \in BOOLEAN : CfgReq(mru, auth)
    <3>1. py'.names = py.names /\ py'.count = py.count /\ py'.start = py.start
      BY <2>1, <2>2 DEF CfgReq, PyHalf
    <3> QED BY <3>1 DEF Stays
  <2>3. CASE CfgAck \/ Echo \/ AuthSuccess
    <3>1. py'.names = py.names /\ py'.count = py.count /\ py'.start = py.start
      BY <2>1, <2>3 DEF CfgAck, Echo, AuthSuccess, PyHalf
    <3> QED BY <3>1 DEF Stays
  <2>4. CASE UNCHANGED vars
    BY <2>4 DEF vars, Stays
  <2> QED BY <1>8, <2>2, <2>3, <2>4
<1> QED BY <1>5, <1>6, <1>7, <1>8 DEF Next, Packet

LEMMA NamesOnceStep ==
  ASSUME PppoeInv, NamesOnce(py.names), Cleared \/ Stays \/ Turns
  PROVE  NamesOnce(py'.names)
<1>1. py.names \in Seq(Acs)
  BY DEF PppoeInv, TypeOK
<1>2. CASE Cleared
  BY <1>2 DEF Cleared, NamesOnce
<1>3. CASE py'.names = py.names
  BY <1>3 DEF NamesOnce
<1>4. CASE Stays /\ py'.names # py.names
  <2>1. PICK a \in Acs : /\ py'.names = Append(py.names, a)
                         /\ \A i \in DOMAIN py.names : py.names[i] # a
    BY <1>4 DEF Stays
  <2>2. \A i \in DOMAIN py'.names :
           \/ i \in DOMAIN py.names /\ py'.names[i] = py.names[i]
           \/ i = Len(py.names) + 1 /\ py'.names[i] = a
    BY <1>1, <2>1
  <2> QED BY <2>1, <2>2 DEF NamesOnce
<1>5. CASE Turns
  BY <1>3, <1>5 DEF Turns, Rotated, Now, World
<1> QED BY <1>2, <1>3, <1>4, <1>5

\* The arithmetic of the rotation.
LEMMA RotationNearer ==
  ASSUME NEW n \in Nat, NEW k \in Nat, NEW i \in 1..n, k < n,
         NEW next, next = IF k + 1 = n THEN 0 ELSE k + 1, next # i - 1
  PROVE  (IF next < i - 1 THEN i - 1 - next ELSE (n - next) + (i - 1))
            < (IF k < i - 1 THEN i - 1 - k ELSE (n - k) + (i - 1))
  OBVIOUS

LEMMA InTurnNext ==
  ASSUME PppoeInv, NamesOnce(py.names), Cleared \/ Stays \/ Turns
  PROVE  InTurnStep
<1> SUFFICES ASSUME Within(py), py'.names # << >>
             PROVE  /\ Within(py')
                    /\ \A i \in DOMAIN py.names :
                         /\ i \in DOMAIN py'.names /\ py'.names[i] = py.names[i]
                         /\ \/ c'.forced = py.names[i]
                            \/ /\ WaitsFor(py', i) <= WaitsFor(py, i)
                               /\ py.start /\ ~py'.start => WaitsFor(py', i) < WaitsFor(py, i)
  BY DEF InTurnStep
<1> DEFINE n == Len(py.names)
           k == py.count
<1>1. /\ py.names \in Seq(Acs) /\ n \in Nat /\ k \in Nat /\ k < n /\ DOMAIN py.names = 1..n
      /\ Cardinality(Acs) \in Nat /\ n <= Cardinality(Acs)
  BY ListBounded, CapNat DEF PppoeInv, TypeOK, Within
<1>2. CASE Stays
  <2>1. CASE py'.names = py.names
    <3>1. py'.count = py.count /\ (py.start => py'.start)
      BY <1>2 DEF Stays
    <3>2. Within(py')
      BY <2>1, <3>1 DEF Within
    <3>3. ASSUME NEW i \in 1..n
          PROVE  WaitsFor(py', i) = WaitsFor(py, i) /\ WaitsFor(py, i) \in Int
      <4>1. WaitsFor(py', i) = WaitsFor(py, i)
        BY <2>1, <3>1 DEF WaitsFor
      <4>2. \A N \in Int : 2 * (N - n) + (IF k < i - 1 THEN i - 1 - k ELSE (n - k) + (i - 1)) \in Int
        <5> HIDE DEF n, k
        <5> QED BY <1>1
      <4>3. WaitsFor(py, i) \in Int
        BY <1>1, <4>2 DEF WaitsFor
      <4> QED BY <4>1, <4>3
    <3>4. \A i \in 1..n : WaitsFor(py', i) <= WaitsFor(py, i)
      BY <3>3
    <3> QED BY <1>1, <2>1, <3>1, <3>2, <3>4
  <2>2. CASE \E a \in Acs : py'.names = Append(py.names, a)
    <3>1. /\ Len(py'.names) = n + 1 /\ DOMAIN py'.names = 1..(n + 1) /\ py'.count = k
          /\ \A i \in 1..n : py'.names[i] = py.names[i]
      BY <1>1, <1>2, <2>2 DEF Stays
    <3>2. py.start => py'.start
      BY <1>2 DEF Stays
    <3>3. ASSUME NEW i \in 1..n PROVE WaitsFor(py', i) <= WaitsFor(py, i)
      <4> DEFINE N == Cardinality(Acs)
      <4>1. /\ WaitsFor(py', i) =
                 2 * (N - (n + 1)) + (IF k < i - 1 THEN i - 1 - k ELSE ((n + 1) - k) + (i - 1))
            /\ WaitsFor(py, i) =
                 2 * (N - n) + (IF k < i - 1 THEN i - 1 - k ELSE (n - k) + (i - 1))
        BY <3>1 DEF WaitsFor
      <4>2. N \in Nat /\ n \in Nat /\ k \in Nat /\ i \in Nat
        BY <1>1
      <4> HIDE DEF N, n, k
      <4> QED BY <4>1, <4>2
    <3> QED BY <1>1, <3>1, <3>2, <3>3 DEF Within
  <2> QED BY <1>2, <2>1, <2>2 DEF Stays
<1>3. CASE Turns
  <2>1. NextCount(Now) = IF k + 1 = n THEN 0 ELSE k + 1
    BY <1>1 DEF NextCount, Now, World, Later, CountCap
  <2>2. /\ py'.names = py.names /\ py'.count = NextCount(Now)
        /\ NextCount(Now) < n => c'.forced = py.names[NextCount(Now) + 1]
    BY <1>3 DEF Turns, Rotated, Now, World
  <2>3. NextCount(Now) \in 0..(n - 1)
    BY <1>1, <2>1
  <2>4. ASSUME NEW i \in 1..n, c'.forced # py.names[i] PROVE WaitsFor(py', i) < WaitsFor(py, i)
    <3>1. NextCount(Now) # i - 1
      BY <1>1, <2>2, <2>3, <2>4
    <3> DEFINE m == NextCount(Now)
               new == IF m < i - 1 THEN i - 1 - m ELSE (n - m) + (i - 1)
               old == IF k < i - 1 THEN i - 1 - k ELSE (n - k) + (i - 1)
    <3> HIDE DEF n, k, m
    <3>2. new < old /\ new \in Int /\ old \in Int
      <4>1. m \in Nat /\ m = (IF k + 1 = n THEN 0 ELSE k + 1) /\ m # i - 1
        BY <2>1, <2>3, <3>1 DEF m
      <4>2. new < old
        BY <1>1, <4>1, RotationNearer
      <4> QED BY <1>1, <4>1, <4>2
    <3>3. /\ WaitsFor(py', i) = 2 * (Cardinality(Acs) - n) + new
          /\ WaitsFor(py, i) = 2 * (Cardinality(Acs) - n) + old
      BY <2>2 DEF WaitsFor, n, k, m
    <3> HIDE DEF new, old
    <3> QED BY <1>1, <3>2, <3>3
  <2>5. ASSUME NEW i \in 1..n PROVE WaitsFor(py', i) \in Int /\ WaitsFor(py, i) \in Int
    <3> DEFINE N == Cardinality(Acs)
               m == NextCount(Now)
    <3>1. /\ WaitsFor(py', i) =
               2 * (N - n) + (IF m < i - 1 THEN i - 1 - m ELSE (n - m) + (i - 1))
          /\ WaitsFor(py, i) =
               2 * (N - n) + (IF k < i - 1 THEN i - 1 - k ELSE (n - k) + (i - 1))
      BY <2>2 DEF WaitsFor
    <3>2. N \in Nat /\ n \in Nat /\ k \in Nat /\ m \in Nat /\ i \in Nat
      BY <1>1, <2>3
    <3> HIDE DEF N, n, k, m
    <3> QED BY <3>1, <3>2
  <2> QED BY <1>1, <2>2, <2>3, <2>4, <2>5 DEF Within
<1>4. ~Cleared
  BY DEF Cleared
<1> QED BY <1>2, <1>3, <1>4

\* No concentrator that stays listed waits for more than
\* 2 * Cardinality(Acs) failed sessions (pppoe.py:179), for any number of
\* them and in whatever order they are heard of.
THEOREM PppoeEachInTurn == Spec => EachInTurn
<1>1. Init => NamesOnce(py.names)
  BY DEF Init, NamesOnce
<1>2. PppoeInv /\ NamesOnce(py.names) /\ [Next]_vars => NamesOnce(py.names)'
  BY StepCases, NamesOnceStep
<1>3. Spec => []NamesOnce(py.names)
  BY <1>1, <1>2, PppoeInvAlways, PTL DEF Spec
<1>4. PppoeInv /\ NamesOnce(py.names) =>
        (Within(py) => \A i \in DOMAIN py.names : WaitsFor(py, i) \in 1..(2 * Cardinality(Acs)))
  <2> SUFFICES ASSUME PppoeInv, NamesOnce(py.names), Within(py), NEW i \in DOMAIN py.names
               PROVE  WaitsFor(py, i) \in 1..(2 * Cardinality(Acs))
    OBVIOUS
  <2>1. /\ py.names \in Seq(Acs) /\ py.count \in Nat /\ Len(py.names) <= Cardinality(Acs)
        /\ Cardinality(Acs) \in Nat
    BY ListBounded, CapNat DEF PppoeInv, TypeOK
  <2> DEFINE N == Cardinality(Acs)
             n == Len(py.names)
             k == py.count
  <2>2. /\ N \in Nat /\ n \in Nat /\ n <= N /\ k \in Nat /\ k < n /\ i \in 1..n
        /\ WaitsFor(py, i) = 2 * (N - n) + (IF k < i - 1 THEN i - 1 - k ELSE (n - k) + (i - 1))
    BY <2>1 DEF WaitsFor, Within
  <2> HIDE DEF N, n, k
  <2>3. WaitsFor(py, i) \in 1..(2 * N)
    BY <2>2
  <2> QED BY <2>3 DEF N
<1>5. PppoeInv /\ NamesOnce(py.names) /\ [Next]_vars => InTurnStep
  BY StepCases, InTurnNext
<1>6. Spec => [][InTurnStep]_vars
  BY <1>3, <1>5, PppoeInvAlways, PTL DEF Spec
<1>7. Spec => [](Within(py) => \A i \in DOMAIN py.names : WaitsFor(py, i) \in 1..(2 * Cardinality(Acs)))
  BY <1>3, <1>4, PppoeInvAlways, PTL
<1> QED BY <1>6, <1>7 DEF EachInTurn
=============================================================================
