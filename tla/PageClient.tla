------------------------------- MODULE PageClient -------------------------------
(***************************************************************************)
(* One web page as a whole: its call (Page), its heartbeat (Pulse) and its *)
(* ringing (Ringer), which share the call state and the buttons.           *)
(*                                                                         *)
(* The server and the other pages are an environment that may send any     *)
(* frame at any time, more than the pages of CallSignaling ever would.     *)
(***************************************************************************)
EXTENDS Page, Pulse, Ringer

CONSTANT Self    \* the session id of this page

ASSUME SelfAssumption == Self \in Peer

VARIABLE page

vars == <<page, sounds, pulseVars>>

(***************************************************************************)
(* The handlers of the call.  Each says what it does to the page and what  *)
(* UpdateCallStateUI plays and stops on the way.                           *)
(***************************************************************************)
\* SetCallState was called: MaxLoops bounds what may be played.
ShowState(g) ==
  /\ page' = g
  /\ sounds' = Rung(sounds, g.state)
  /\ \A i \in Sound : Loops(sounds'[i]) <= MaxLoops
  /\ UNCHANGED pulseVars

\* The call state is left alone.
Update(g) == page' = g /\ UNCHANGED <<sounds, pulseVars>>

SelectRow(id) == id \in page.rows /\ ShowState(RowClicked(page, id))

Call ==
  /\ "call" \in page.enabled
  /\ page.awaits = "nothing"
  /\ ShowState(CallClicked(page))

SendCall == page.awaits = "call" /\ Update(CallOffered(page))

Answer ==
  /\ "answer" \in page.enabled
  /\ page.awaits = "nothing"
  /\ ~page.tracks
  /\ Update(AnswerClicked(page))

SendAnswer == page.awaits \in {"answer", "lateAnswer"} /\ Update(AnswerMade(page))

Hangup == "hangup" \in page.enabled /\ ShowState(EndCall(page))

OnConnectionStateChange ==
  /\ page.media # None
  /\ ShowState(SetCallState(page, "Connected"))

\* Frames come through an open socket, after the SessionID.
Hears == socket = "open" /\ timer # "unset"

OnCallMessage(from) ==
  /\ Hears
  /\ \E awaits \in Overtaken(page.awaits) : ShowState(CallReceived(page, from, awaits))

OnAnswerMessage(from) == Hears /\ Update(AnswerReceived(page, from))

OnHangupMessage == Hears /\ ShowState(EndCall(page))

OnSessionsChangedMessage(sessions) ==
  LET g == SessionsReceived(page, Self, sessions)
  IN  /\ Hears
      /\ IF Vanished(page, sessions) THEN ShowState(g) ELSE Update(g)

(***************************************************************************)
(* The heartbeat and the sounds, with what they do to the page             *)
(***************************************************************************)
\* ClearRemotesTable and DisableButtons, and nothing else: the call goes on.
GivenUp == page' = [page EXCEPT !.rows = {}, !.enabled = {}]

Begin == BeginHeartbeat /\ UNCHANGED <<page, sounds>>

\* Seeded fault: the loss is told to the user and the page left as it was.
LoseServerQuietly == HeartbeatLost /\ UNCHANGED <<page, sounds>>

LoseServer == HeartbeatLost /\ GivenUp /\ UNCHANGED sounds

Beat ==
  /\ Heartbeat
  /\ IF verdict' = "vanished" THEN GivenUp ELSE UNCHANGED page
  /\ UNCHANGED sounds

\* OnHeartbeat
OnHeartbeat == Hears /\ PulseDetected /\ UNCHANGED <<page, sounds>>

OnClose == Close /\ UNCHANGED <<page, sounds>>

SoundOver(i) == SoundEnds(i) /\ UNCHANGED <<page, pulseVars>>

RepeatSound(i) == OnEnded(i, page.state) /\ UNCHANGED <<page, pulseVars>>

(***************************************************************************)
(* The specification                                                       *)
(***************************************************************************)
Others == Peer \ {Self}

Init ==
  /\ page = [Loaded(Self) EXCEPT !.rows = {}]
  /\ RingerInit
  /\ PulseInit

Next ==
  \/ \E id \in Others : SelectRow(id)
  \/ Call
  \/ SendCall
  \/ Answer
  \/ SendAnswer
  \/ Hangup
  \/ OnConnectionStateChange
  \/ \E from \in Others : OnCallMessage(from)
  \/ \E from \in Others : OnAnswerMessage(from)
  \/ OnHangupMessage
  \/ \E others \in SUBSET Others : OnSessionsChangedMessage(others \cup {Self})
  \/ Begin
  \/ LoseServer
  \/ Beat
  \/ OnHeartbeat
  \/ OnClose
  \/ \E i \in Sound : SoundOver(i)
  \/ \E i \in Sound : RepeatSound(i)

Spec == Init /\ [][Next]_vars

\* The browser keeps its timers, and sounds come to their end.
Fairness ==
  /\ WF_vars(LoseServer \/ Beat)
  /\ \A i \in Sound : WF_vars(SoundOver(i)) /\ WF_vars(RepeatSound(i))

FairSpec == Spec /\ Fairness

(***************************************************************************)
(* Properties                                                              *)
(***************************************************************************)
\* The type invariant.
TypeOK ==
  /\ page \in Pages
  /\ PulseTypeOK
  /\ RingerTypeOK

\* pulse.js:31: the server is given up for vanished only if an echo took
\* longer than Latency intervals, however beats and echoes interleave.
NoFalseVerdict == verdict = "vanished" => ~prompt

\* pulse.js:19: once the heartbeat has found the socket closed, nothing that
\* was under way brings back a row to select or a call to answer.
LostIsLost ==
  verdict = "lost" => page.rows = {} /\ "answer" \notin page.enabled

\* The ring of a call that waits never stops for good, through restarted
\* rings, presses of Call and calls that take over.
Audible ==
  /\ page.state = "Calling" => Loops(sounds[0]) > 0
  /\ page.state = "Ringing" => Loops(sounds[1]) > 0

\* When a call is over or answered, the source that sounds was told to stop,
\* whatever order ends, restarts and state changes came in.
SilentWhenOver ==
  Aborts(page.state) => \A i \in Sound : sounds[i].latest # "playing"

\* The loss of the socket is noticed, whatever beats, echoes and frames came
\* before it, unless it comes ahead of the SessionID.
LossNoticed == socket = "closed" /\ timer # "unset" ~> verdict # "none"

\* A server that goes silent on an open socket is given up, however often the
\* count was cleared before.
SilenceNoticed ==
  <>(timer = "running") /\ <>[][~OnHeartbeat]_vars => <>(verdict # "none")

\* However many loops overlapped, all ringing dies out once the page stays
\* idle or connected.
RingsDieOut ==
  <>[]Aborts(page.state) => <>[](\A i \in Sound : Loops(sounds[i]) = 0)
=============================================================================
