---------------------------- MODULE HeartbeatServer ----------------------------
(***************************************************************************)
(* SessionServer with its clock: the repeating mongoose timer, the websock *)
(* PINGs it sends and the PONGs that come back.  A session is closed as    *)
(* vanished when its last PONG is older than Skips periods.                *)
(*                                                                         *)
(* Times are kept relative to now, in units of the clock.  mg_mgr_poll     *)
(* sleeps at most one Period in epoll_wait, and its handlers take at most  *)
(* Busy, so it comes back to the timers within Period + Busy.              *)
(***************************************************************************)
EXTENDS SessionServer

CONSTANTS
  Period,   \* m_poll_interval_ms: the timer's period and the longest sleep
  Skips,    \* 10 in the code: m_max_heartbeat_skips is Skips periods
  Busy      \* the longest time the handlers of one poll take

ASSUME ClockAssumption == Period \in Nat \ {0} /\ Skips \in Nat \ {0} /\ Busy \in Nat \ {0}

VARIABLES
  due,      \* t->expire - now
  gap,      \* the time since the last mg_timer_poll
  age,      \* now - m_lastPongTime of each session
  pings,    \* history: PINGs sent to each session since its last PONG
  skipped   \* history: sessions the timer failed to visit since their last PONG

clock == <<due, gap, age, pings, skipped>>

MaxSkip == Skips * Period
MaxGap  == Period + Busy

\* What it can take, at most, from one firing of the timer to the next: it is
\* late by MaxGap, and sets itself one Period ahead.
MaxPace == MaxGap + Period

(***************************************************************************)
(* The clock                                                               *)
(***************************************************************************)
\* A unit of time passes, in the sleep or in a handler.  Ages stop growing
\* where they make no more difference.
Tick ==
  /\ Running
  /\ gap < MaxGap
  /\ due <= Period
  /\ gap' = gap + 1
  /\ due' = due - 1
  /\ age' = [s \in Id |-> IF s \in live /\ age[s] <= MaxSkip THEN age[s] + 1 ELSE age[s]]
  /\ UNCHANGED <<pings, skipped>>
  /\ UNCHANGED vars

\* Seeded fault: the expiration is moved before it is compared with now.
ExpiryMovedFirst == IF due > Period \/ due <= 0 THEN Period ELSE due

\* mg_timer_expired: an unset or far expiration is set one period ahead; a
\* timer late by more than a period starts afresh, else it keeps its cadence.
Expiry == IF due > Period THEN Period ELSE due
Rearm(d) == IF -d > Period THEN Period ELSE d + Period

\* Seeded fault: the verdict falls on sessions the walk did not reach.
OverdueAnywhere == {s \in live : MaxSkip < age[s]}

\* Session::OnTimerEvent over the sessions Iterate visits.
Overdue == {s \in Iterated(conns) : MaxSkip < age[s]}

\* Seeded fault: a walk that finds a vanished session pings nobody.
FireOneVerdict ==
  /\ closing' = closing \cup Overdue
  /\ unsent'  = IF Overdue = {} THEN unsent \cup Iterated(conns) ELSE unsent
  /\ fault'   = IF Iterated(conns) \subseteq live THEN fault ELSE "freedSession"
  /\ pings'   = [s \in Id |-> IF s \in Iterated(conns) /\ Overdue = {} THEN pings[s] + 1 ELSE pings[s]]
  /\ skipped' = skipped \cup (live \ Iterated(conns))
  /\ due'     = Rearm(Expiry)

Fire ==
  /\ closing' = closing \cup Overdue
  /\ unsent'  = unsent \cup (Iterated(conns) \ Overdue)
  /\ fault'   = IF Iterated(conns) \subseteq live THEN fault ELSE "freedSession"
  /\ pings'   = [s \in Id |-> IF s \in Iterated(conns) \ Overdue THEN pings[s] + 1 ELSE pings[s]]
  /\ skipped' = skipped \cup (live \ Iterated(conns))
  /\ due'     = Rearm(Expiry)

TimedPollStart ==
  /\ Running
  /\ cur = 0
  /\ MoveOnFrom(MaxId + 1)
  /\ \/ /\ Expiry > 0
        /\ due' = Expiry
        /\ TimerIdle
        /\ UNCHANGED <<pings, skipped>>
     \/ /\ Expiry <= 0
        /\ Fire
  /\ gap' = 0
  /\ UNCHANGED age
  /\ UNCHANGED <<nextid, conns, http, websocket, attached, draining, live,
                 userName, roster, told>>

(***************************************************************************)
(* The steps of SessionServer that touch a session's clock                 *)
(***************************************************************************)
Refreshed(c) ==
  /\ age' = [age EXCEPT ![c] = 0]
  /\ pings' = [pings EXCEPT ![c] = 0]
  /\ skipped' = skipped \ {c}
  /\ UNCHANGED <<due, gap>>

\* Seeded fault: the PONG is counted and its time is not kept.
PongUntimed(c) ==
  /\ Framed(c)
  /\ pings' = [pings EXCEPT ![c] = 0]
  /\ skipped' = skipped \ {c}
  /\ UNCHANGED <<due, gap, age>>
  /\ UNCHANGED vars

\* OnControlMessage(WEBSOCKET_OP_PONG)
Pong(c) ==
  /\ Framed(c)
  /\ Refreshed(c)
  /\ UNCHANGED vars

\* The Session constructor sets m_lastPongTime.
TimedUpgrade(c, asked) == HttpUpgrade(c, asked) /\ Refreshed(c)

TimedClose == CloseConn /\ Refreshed(cur)

\* The frames and events that leave the clock alone.
UntimedVisit(c) ==
  /\ Reading(c)
  /\ \/ IoFails(c)
     \/ \E isHead \in BOOLEAN : HttpServe(c, isHead)
     \/ WsClose(c)
     \/ Heartbeat(c)
     \/ \E targetId \in SessionIds : OnForwardMessage(c, targetId)
     \/ \E sessionId \in SessionIds, name \in Names : OnLocalIdEvent(c, sessionId, name)
  /\ UNCHANGED clock

TimedInit ==
  /\ Init
  /\ due = Period + 1     \* t->expire = 0: not set yet
  /\ gap = 0
  /\ age = [s \in Id |-> 0]
  /\ pings = [s \in Id |-> 0]
  /\ skipped = {}

TimedNext ==
  \/ Tick
  \/ TimedPollStart
  \/ VisitListener /\ UNCHANGED clock
  \/ \E c \in Id : \/ UntimedVisit(c)
                   \/ Pong(c)
                   \/ \E asked \in SUBSET HttpKinds : TimedUpgrade(c, asked)
  \/ KeepConn /\ UNCHANGED clock
  \/ TimedClose
  \/ CloseOnRequest /\ UNCHANGED clock

TimedSpec == TimedInit /\ [][TimedNext]_<<vars, clock>>

\* infinite_loop goes on, handlers return, and time passes.
TimedFairness ==
  /\ WF_<<vars, clock>>(Tick)
  /\ WF_<<vars, clock>>(TimedPollStart)
  /\ WF_<<vars, clock>>(VisitListener /\ UNCHANGED clock)
  /\ WF_<<vars, clock>>(KeepConn /\ UNCHANGED clock)
  /\ WF_<<vars, clock>>(TimedClose)

TimedFairSpec == TimedSpec /\ TimedFairness

(***************************************************************************)
(* Properties                                                              *)
(***************************************************************************)
\* The type invariant of the clock.
TimedTypeOK ==
  /\ TypeOK
  /\ due \in Int /\ due <= Period + 1
  /\ gap \in 0 .. MaxGap
  /\ age \in [Id -> 0 .. MaxSkip + 1]
  /\ pings \in [Id -> Nat]
  /\ skipped \subseteq Id

\* The timer keeps its pace however late the polls are: unless the walk missed
\* it, an open session has been sent a PING for every MaxPace of its age.
PingPacing ==
  \A s \in live \ (skipped \cup closing) :
     age[s] + due <= MaxPace * pings[s] + Period

\* A session is declared vanished only after enough unanswered PINGs, unless
\* the walk missed it.
VanishVerdict ==
  [][\A s \in live \ skipped :
        s \in closing' \ closing /\ TimedPollStart =>
        MaxSkip < MaxPace * (pings[s] + 1)]_<<vars, clock>>

\* The clock is a refinement: every step is one the abstract server allows.
ImplementsServer == Spec

\* A session that is silent for too long and that the walk reaches is closed,
\* whatever the timer's drift.
SilentReaped ==
  \A s \in Id :
     (s \in Iterated(conns) /\ MaxSkip < age[s]) ~>
        \/ s \notin Iterated(conns)
        \/ age[s] <= MaxSkip
        \/ ~Running

\* session.cpp:27, "session ... vanished": a session found vanished has been
\* sent a PING and has not answered.
VanishedWasPinged ==
  [][\A s \in live : s \in closing' \ closing /\ TimedPollStart => pings[s] > 0]_<<vars, clock>>
=============================================================================
