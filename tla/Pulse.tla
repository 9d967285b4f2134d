--------------------------------- MODULE Pulse ---------------------------------
(***************************************************************************)
(* The heartbeat of the web page (pulse.js) over its socket (websock.js).  *)
(*                                                                         *)
(* Each interval of the timer a beat is sent, which the server echoes.  An *)
(* echo clears the count of missed beats; at MaxMissing the page gives the *)
(* server up, and so it does when an interval finds the socket closed.     *)
(***************************************************************************)
EXTENDS Integers

CONSTANTS
  MaxMissing,  \* heartbeatMaxMissing
  Latency,     \* beats under way to or from a server that is prompt
  MaxPending   \* stands for that many unanswered beats, or more

ASSUME PulseAssumption ==
  /\ MaxMissing \in Nat /\ Latency \in Nat /\ MaxPending \in Nat
  /\ Latency + 1 < MaxMissing
  /\ Latency < MaxPending

VARIABLES
  socket,   \* whether ws.readyState is OPEN or CLOSED
  timer,    \* heartbeatTimer
  missed,   \* heartbeatsMissed
  pending,  \* beats sent whose echo has not come
  verdict,  \* what the heartbeat has told the user of the server
  prompt    \* history: every beat so far was echoed within Latency intervals

pulseVars == <<socket, timer, missed, pending, verdict, prompt>>

PulseTypeOK ==
  /\ socket \in {"open", "closed"}
  /\ timer \in {"unset", "running", "cleared"}
  /\ missed \in 0 .. MaxMissing
  /\ pending \in 0 .. MaxPending
  /\ verdict \in {"none", "lost", "vanished"}
  /\ prompt \in BOOLEAN

PulseInit ==
  /\ socket = "open"
  /\ timer = "unset"
  /\ missed = 0
  /\ pending = 0
  /\ verdict = "none"
  /\ prompt = TRUE

\* OnMessage, the SessionID: the first frame the server sends.
BeginHeartbeat ==
  /\ socket = "open"
  /\ timer = "unset"
  /\ missed' = 0
  /\ timer' = "running"
  /\ UNCHANGED <<socket, pending, verdict, prompt>>

\* heartbeat, on a closed socket.
HeartbeatLost ==
  /\ timer = "running"
  /\ socket = "closed"
  /\ timer' = "cleared"
  /\ verdict' = "lost"
  /\ UNCHANGED <<socket, missed, pending, prompt>>

\* The beat that heartbeat sends, also when it has just given up.  By then a
\* prompt server has echoed all but the last Latency beats.
SendBeat ==
  /\ pending' = IF pending = MaxPending THEN pending ELSE pending + 1
  /\ prompt' = (prompt /\ pending <= Latency)

\* Seeded fault: one beat less is forgiven than Latency allows for.
HeartbeatHasty ==
  /\ timer = "running"
  /\ socket = "open"
  /\ missed' = missed + 1
  /\ IF missed' >= Latency + 1
       THEN timer' = "cleared" /\ verdict' = "vanished"
       ELSE UNCHANGED <<timer, verdict>>
  /\ SendBeat
  /\ UNCHANGED socket

\* Seeded fault: beats count as missed only once a first echo has come.
HeartbeatLenient ==
  /\ timer = "running"
  /\ socket = "open"
  /\ missed' = IF missed = 0 THEN 0 ELSE missed + 1
  /\ IF missed' >= MaxMissing
       THEN timer' = "cleared" /\ verdict' = "vanished"
       ELSE UNCHANGED <<timer, verdict>>
  /\ SendBeat
  /\ UNCHANGED socket

\* Seeded fault: the timer goes on after the verdict.
HeartbeatGoesOn ==
  /\ timer = "running"
  /\ socket = "open"
  /\ missed' = missed + 1
  /\ verdict' = IF missed' >= MaxMissing THEN "vanished" ELSE verdict
  /\ SendBeat
  /\ UNCHANGED <<socket, timer>>

\* heartbeat
Heartbeat ==
  /\ timer = "running"
  /\ socket = "open"
  /\ missed' = missed + 1
  /\ IF missed' >= MaxMissing
       THEN timer' = "cleared" /\ verdict' = "vanished"
       ELSE UNCHANGED <<timer, verdict>>
  /\ SendBeat
  /\ UNCHANGED socket

\* PulseDetected, at the echo of a beat.
PulseDetected ==
  /\ socket = "open"
  /\ pending > 0
  /\ pending' \in IF pending = MaxPending THEN {pending - 1, pending} ELSE {pending - 1}
  /\ missed' = 0
  /\ UNCHANGED <<socket, timer, verdict, prompt>>

\* Seeded fault: the timer is stopped with the socket.
CloseStopsTimer ==
  /\ socket = "open"
  /\ socket' = "closed"
  /\ timer' = IF timer = "running" THEN "cleared" ELSE timer
  /\ UNCHANGED <<missed, pending, verdict, prompt>>

\* The socket is closed by either end or by an error.  OnClose only
\* prints.
Close ==
  /\ socket = "open"
  /\ socket' = "closed"
  /\ UNCHANGED <<timer, missed, pending, verdict, prompt>>
=============================================================================
