---------------------------- MODULE HeartbeatProofs ----------------------------
(***************************************************************************)
(* Theorems about HeartbeatServer, for every period, number of skips and   *)
(* handler time.                                                           *)
(***************************************************************************)
EXTENDS HeartbeatServer, SessionServerProofs

tvars == <<vars, clock>>

(***************************************************************************)
(* The clock is a refinement of SessionServer                              *)
(***************************************************************************)
\* Every step of the timed server is a step of the untimed one or a stutter.
LEMMA StepRefines == [TimedNext]_tvars => [Next]_vars
<1> SUFFICES ASSUME [TimedNext]_tvars PROVE [Next]_vars
  OBVIOUS
<1>1. CASE Tick
  BY <1>1 DEF Tick
<1>2. CASE TimedPollStart
  <2>1. Fire => TimerEvent
    BY DEF Fire, TimerEvent, Overdue
  <2> QED
    BY <1>2, <2>1 DEF TimedPollStart, PollStart, Next
<1>3. CASE VisitListener /\ UNCHANGED clock
  BY <1>3 DEF Next
<1>4. ASSUME NEW c \in Id, UntimedVisit(c) PROVE [Next]_vars
  BY <1>4 DEF UntimedVisit, Visit, Next
<1>5. ASSUME NEW c \in Id, Pong(c) PROVE [Next]_vars
  BY <1>5 DEF Pong
<1>6. ASSUME NEW c \in Id, NEW asked \in SUBSET HttpKinds, TimedUpgrade(c, asked)
      PROVE  [Next]_vars
  BY <1>6 DEF TimedUpgrade, HttpUpgrade, Requesting, Visit, Next
<1>7. CASE KeepConn /\ UNCHANGED clock
  BY <1>7 DEF Next
<1>8. CASE TimedClose
  BY <1>8 DEF TimedClose, Next
<1>9. CASE CloseOnRequest /\ UNCHANGED clock
  BY <1>9 DEF Next
<1>10. CASE UNCHANGED tvars
  BY <1>10 DEF tvars
<1> QED
  BY <1>1, <1>2, <1>3, <1>4, <1>5, <1>6, <1>7, <1>8, <1>9, <1>10 DEF TimedNext

\* The server with its clock implements the server without it, so what is
\* proved of SessionServer holds of it.
THEOREM ClockRefines == TimedSpec => ImplementsServer
<1>1. TimedInit => Init
  BY DEF TimedInit
<1> QED
  BY <1>1, StepRefines, PTL DEF TimedSpec, ImplementsServer, Spec, tvars

(***************************************************************************)
(* The pace of the pings                                                   *)
(***************************************************************************)
\* What the assumptions on the constants give the derived times.
LEMMA ClockConstants ==
  /\ Period \in Nat /\ Period > 0
  /\ MaxSkip \in Nat
  /\ MaxGap \in Nat
  /\ MaxPace \in Nat
  /\ MaxPace = MaxGap + Period
BY ClockAssumption DEF MaxSkip, MaxGap, MaxPace

\* One ping more is worth one more pace.
LEMMA OneMore ==
  ASSUME NEW m \in Nat, NEW n \in Nat
  PROVE  m * n \in Nat /\ m * (n + 1) = m * n + m
OBVIOUS

\* Sums of naturals, for the distance between a poll and the timer.
LEMMA NatSum == \A m, n \in Nat : m + n >= 0
OBVIOUS

\* The inductive invariant: a poll is never further behind the timer than the
\* time since the last one, and no session exists before the timer is set.
TimedInv ==
  /\ TimedTypeOK
  /\ SessionOwnership
  /\ due + gap >= 0
  /\ due <= Period \/ (live = {} /\ cur = 0)
  /\ PingPacing

\* Every step preserves the invariant of the clock.
LEMMA TimedStep == TimedInv /\ IInv /\ IInv' /\ [TimedNext]_tvars => TimedInv'
<1> SUFFICES ASSUME TimedInv, IInv, IInv', [TimedNext]_tvars PROVE TimedInv'
  OBVIOUS
<1>t. TypeOK' /\ SessionOwnership' /\ live \subseteq Id /\ live' \subseteq Id
  BY DEF IInv, TypeOK
<1> USE ClockConstants, <1>t DEF TimedInv, TimedTypeOK
<1>1. CASE Tick
  <2>1. \A s \in Id : age'[s] \in {age[s], age[s] + 1}
    BY <1>1 DEF Tick
  <2>2. age' \in [Id -> 0 .. MaxSkip + 1]
    BY <1>1 DEF Tick
  <2>3. UNCHANGED <<live, cur, closing, pings, skipped>>
    BY <1>1 DEF Tick, vars
  <2>4. PingPacing'
    <3> SUFFICES ASSUME NEW s \in live \ (skipped \cup closing)
                 PROVE  age'[s] + due' <= MaxPace * pings[s] + Period
      BY <2>3 DEF PingPacing
    <3>1. age[s] + due <= MaxPace * pings[s] + Period
      BY DEF PingPacing
    <3>2. MaxPace * pings[s] \in Nat /\ age[s] \in Nat
      BY OneMore
    <3> QED
      BY <1>1, <2>1, <3>1, <3>2 DEF Tick
  <2> QED
    BY <1>1, <2>2, <2>3, <2>4 DEF Tick
<1>2. CASE TimedPollStart
  <2>1. UNCHANGED <<live, age>> /\ gap' = 0
    BY <1>2 DEF TimedPollStart
  <2>2. CASE Expiry > 0 /\ due' = Expiry /\ TimerIdle /\ UNCHANGED <<pings, skipped>>
    <3>1. due' \in Int /\ due' <= Period /\ due' >= 0
      BY <2>2 DEF Expiry
    <3>2. PingPacing'
      <4> SUFFICES ASSUME NEW s \in live \ (skipped \cup closing)
                   PROVE  age[s] + due' <= MaxPace * pings[s] + Period
        BY <2>1, <2>2 DEF PingPacing, TimerIdle
      <4>1. due' = due
        BY <2>2 DEF Expiry
      <4> QED
        BY <4>1 DEF PingPacing
    <3> QED
      BY <2>1, <2>2, <3>1, <3>2
  <2>3. CASE Expiry <= 0 /\ Fire
    <3>1. Expiry = due /\ due <= 0
      BY <2>3 DEF Expiry
    <3>2. /\ due' \in Int /\ due' <= Period /\ due' >= 0
          /\ due' <= due + MaxPace
      BY <2>3, <3>1 DEF Fire, Rearm
    <3>3. pings' \in [Id -> Nat] /\ skipped' \subseteq Id
      BY <2>3 DEF Fire
    <3>4. PingPacing'
      <4> SUFFICES ASSUME NEW s \in live \ (skipped' \cup closing')
                   PROVE  age[s] + due' <= MaxPace * pings'[s] + Period
        BY <2>1 DEF PingPacing
      <4>1. s \in Iterated(conns) \ Overdue /\ s \notin skipped \cup closing
        BY <2>3 DEF Fire
      <4>2. pings'[s] = pings[s] + 1
        BY <2>3, <4>1 DEF Fire
      <4>3. age[s] + due <= MaxPace * pings[s] + Period
        BY <4>1 DEF PingPacing
      <4>4. /\ MaxPace * pings[s] \in Nat
            /\ MaxPace * (pings[s] + 1) = MaxPace * pings[s] + MaxPace
        BY OneMore
      <4>5. age[s] \in Nat
        OBVIOUS
      <4> QED
        BY <3>2, <4>2, <4>3, <4>4, <4>5
    <3>5. TimedTypeOK'
      BY <2>1, <3>2, <3>3
    <3> HIDE DEF TimedInv, TimedTypeOK
    <3>6. due' + gap' >= 0
      <4>1. due' \in Nat /\ gap' \in Nat
        BY <2>1, <3>2
      <4> QED
        BY <4>1, NatSum
    <3> QED
      BY <3>2, <3>4, <3>5, <3>6 DEF TimedInv
  <2>4. \/ Expiry > 0 /\ due' = Expiry /\ TimerIdle /\ UNCHANGED <<pings, skipped>>
        \/ Expiry <= 0 /\ Fire
    BY <1>2 DEF TimedPollStart
  <2> HIDE DEF TimedInv, TimedTypeOK
  <2> QED
    BY <2>2, <2>3, <2>4
<1>3. CASE VisitListener /\ UNCHANGED clock
  <2>1. UNCHANGED <<live, due, gap, age, pings, skipped>> /\ cur # 0
    BY <1>3 DEF VisitListener, clock, Listener
  <2>2. closing \subseteq closing'
    BY <1>3 DEF VisitListener, Accept
  <2>3. PingPacing'
    BY <2>1, <2>2 DEF PingPacing
  <2> QED
    BY <2>1, <2>3
<1>4. ASSUME NEW c \in Id, UntimedVisit(c) PROVE TimedInv'
  <2>1. UNCHANGED <<live, cur, due, gap, age, pings, skipped>> /\ closing \subseteq closing'
    BY <1>4 DEF UntimedVisit, IoFails, HttpServe, WsClose, Heartbeat, OnForwardMessage,
                OnLocalIdEvent, clock
  <2> QED
    BY <2>1 DEF PingPacing
<1>r. ASSUME NEW c \in Id, Refreshed(c), live' \subseteq live \cup {c},
             closing \ {c} \subseteq closing', due <= Period
      PROVE  TimedInv'
  <2>1. /\ age' \in [Id -> 0 .. MaxSkip + 1] /\ pings' \in [Id -> Nat]
        /\ skipped' = skipped \ {c}
        /\ UNCHANGED <<due, gap>>
        /\ age'[c] = 0 /\ pings'[c] = 0
        /\ \A s \in Id \ {c} : age'[s] = age[s] /\ pings'[s] = pings[s]
    BY <1>r DEF Refreshed
  <2>2. PingPacing'
    <3> SUFFICES ASSUME NEW s \in live' \ (skipped' \cup closing')
                 PROVE  age'[s] + due' <= MaxPace * pings'[s] + Period
      BY DEF PingPacing
    <3>1. CASE s = c
      BY <1>r, <2>1, <3>1
    <3>2. CASE s # c
      BY <1>r, <2>1, <3>2 DEF PingPacing
    <3> QED
      BY <3>1, <3>2
  <2> QED
    BY <1>r, <2>1, <2>2
<1>5. ASSUME NEW c \in Id, Pong(c) PROVE TimedInv'
  <2>1. /\ Refreshed(c) /\ cur = c
        /\ UNCHANGED <<live, closing>>
    BY <1>5 DEF Pong, Framed, Reading, vars
  <2> QED
    BY <1>r, <2>1 DEF Id
<1>6. ASSUME NEW c \in Id, NEW asked \in SUBSET HttpKinds, TimedUpgrade(c, asked)
      PROVE  TimedInv'
  <2>1. /\ Refreshed(c) /\ cur = c
        /\ live' = live \cup {c} /\ closing' = closing
    BY <1>6 DEF TimedUpgrade, HttpUpgrade, AddSession, Requesting, Reading
  <2> QED
    BY <1>r, <2>1 DEF Id
<1>7. CASE KeepConn /\ UNCHANGED clock
  <2>1. UNCHANGED <<live, closing, due, gap, age, pings, skipped>> /\ cur # 0
    BY <1>7 DEF KeepConn, clock
  <2> QED
    BY <2>1 DEF PingPacing
<1>8. CASE TimedClose
  <2>1. /\ Refreshed(cur) /\ cur # 0
        /\ live' \subseteq live /\ closing' = closing \ {cur}
    BY <1>8 DEF TimedClose, CloseConn, FreeConn, DeleteSession, CloseBare
  <2>2. cur \in Id
    BY <2>1, ConnsAreIds DEF TypeOK
  <2> QED
    BY <1>r, <2>1, <2>2
<1>9. CASE CloseOnRequest /\ UNCHANGED clock
  <2>1. UNCHANGED <<live, closing, cur, due, gap, age, pings, skipped>>
    BY <1>9 DEF CloseOnRequest, clock
  <2> QED
    BY <2>1 DEF PingPacing
<1>10. CASE UNCHANGED tvars
  BY <1>10 DEF tvars, vars, clock, PingPacing
<1> QED
  BY <1>1, <1>2, <1>3, <1>4, <1>5, <1>6, <1>7, <1>8, <1>9, <1>10 DEF TimedNext

\* The invariant of the clock holds in every reachable state.
LEMMA TimedInvariant == TimedSpec => []TimedInv
<1>1. TimedInit => TimedInv
  <2>1. Init => TypeOK /\ live = {} /\ attached = {} /\ cur = 0
    BY MaxIdAssumption DEF Init, TypeOK, Id, Listener
  <2> QED
    BY <2>1, ClockConstants
    DEF TimedInit, TimedInv, TimedTypeOK, SessionOwnership, PingPacing
<1>2. TimedSpec => []IInv
  BY ClockRefines, Invariant DEF ImplementsServer
<1> QED
  BY <1>1, <1>2, TimedStep, PTL DEF TimedSpec, tvars

\* The clock's variables are well typed in every reachable state.
THEOREM ClockTypeCorrect == TimedSpec => []TimedTypeOK
BY TimedInvariant, PTL DEF TimedInv

\* However late the polls, a session the walk has not missed gets a PING for
\* every MaxPace of its age (mongoose.c:7315-7321, session.cpp:25-33).
THEOREM PingsPaced == TimedSpec => []PingPacing
BY TimedInvariant, PTL DEF TimedInv

\* A session the walk has not missed is declared vanished only after
\* MaxSkip / MaxPace unanswered PINGs, less one (session.cpp:26).
THEOREM VerdictsEarned == TimedSpec => VanishVerdict
<1> DEFINE Earned == \A s \in live \ skipped :
                        s \in closing' \ closing /\ TimedPollStart =>
                        MaxSkip < MaxPace * (pings[s] + 1)
<1>1. TimedInv /\ [TimedNext]_tvars => [Earned]_tvars
  <2> SUFFICES ASSUME TimedInv, TimedPollStart, NEW s \in live \ skipped,
                      s \in closing' \ closing
               PROVE  MaxSkip < MaxPace * (pings[s] + 1)
    OBVIOUS
  <2>1. Fire /\ Expiry <= 0
    BY DEF TimedPollStart, TimerIdle
  <2>2. s \in Overdue /\ MaxSkip < age[s]
    BY <2>1 DEF Fire, Overdue
  <2>3. age[s] + due <= MaxPace * pings[s] + Period
    BY DEF TimedInv, PingPacing
  <2>4. due \in Int /\ gap \in Nat /\ gap <= MaxGap /\ due + gap >= 0
    BY ClockConstants DEF TimedInv, TimedTypeOK
  <2>5. s \in Id /\ age[s] \in Nat /\ pings[s] \in Nat
    BY ClockConstants DEF TimedInv, TimedTypeOK, TypeOK
  <2>6. /\ MaxPace * pings[s] \in Nat
        /\ MaxPace * (pings[s] + 1) = MaxPace * pings[s] + MaxPace
    BY <2>5, ClockConstants, OneMore
  <2> QED
    BY <2>2, <2>3, <2>4, <2>5, <2>6, ClockConstants
<1>2. TimedSpec => [][Earned]_tvars
  BY <1>1, TimedInvariant, PTL DEF TimedSpec, tvars
<1> QED
  BY <1>2 DEF VanishVerdict, tvars
=============================================================================
