---------------------------- MODULE PageClientProofs ----------------------------
(***************************************************************************)
(* Theorems about PageClient, for every set of peers, every number of      *)
(* beats a page forgives and every latency it is meant to forgive.         *)
(*                                                                         *)
(* The three parts keep invariants of their own; what ties them together   *)
(* is that the call state changes only with what is played and stopped for *)
(* it, and that a page that lost its socket hears nothing any more.        *)
(***************************************************************************)
EXTENDS PageClient, TLAPS

(***************************************************************************)
(* The page                                                                *)
(***************************************************************************)
\* Every handler leaves a page of the right type.
LEMMA PageTypes ==
  ASSUME NEW g \in Pages
  PROVE  /\ \A id \in Peer : RowClicked(g, id) \in Pages
         /\ CallClicked(g) \in Pages
         /\ CallOffered(g) \in Pages
         /\ AnswerClicked(g) \in Pages
         /\ AnswerMade(g) \in Pages
         /\ EndCall(g) \in Pages
         /\ SetCallState(g, "Connected") \in Pages
         /\ \A from \in Peer, awaits \in Awaits : CallReceived(g, from, awaits) \in Pages
         /\ \A from \in Peer : AnswerReceived(g, from) \in Pages
<1> USE DEF Pages, CallState, Button, Awaits, SetCallState, UpdateRemoteId, UpdateCallStateUI
<1>1. \A id \in Peer : RowClicked(g, id) \in Pages
  BY DEF RowClicked
<1>2. CallClicked(g) \in Pages
  BY DEF CallClicked
<1>3. CallOffered(g) \in Pages /\ AnswerClicked(g) \in Pages
  BY DEF CallOffered, AnswerClicked
<1>4. AnswerMade(g) \in Pages
  BY DEF AnswerMade
<1>5. EndCall(g) \in Pages /\ SetCallState(g, "Connected") \in Pages
  BY DEF EndCall
<1>6. \A from \in Peer, awaits \in Awaits : CallReceived(g, from, awaits) \in Pages
  BY DEF CallReceived
<1>7. \A from \in Peer : AnswerReceived(g, from) \in Pages
  BY DEF AnswerReceived
<1> QED
  BY <1>1, <1>2, <1>3, <1>4, <1>5, <1>6, <1>7

\* Neither does a list, whether or not it ends the call.
LEMMA ListTypes ==
  ASSUME NEW g \in Pages, NEW p \in Peer, NEW sessions \in SUBSET Peer
  PROVE  /\ SessionsReceived(g, p, sessions) \in Pages
         /\ Vanished(g, sessions) => SessionsReceived(g, p, sessions).state = "Idle"
         /\ ~Vanished(g, sessions) => SessionsReceived(g, p, sessions).state = g.state
<1>1. [g EXCEPT !.remote = None] \in Pages
  BY DEF Pages
<1>2. EndCall([g EXCEPT !.remote = None]) \in Pages
  BY <1>1, PageTypes
<1>3. EndCall([g EXCEPT !.remote = None]).state = "Idle"
  BY <1>1 DEF EndCall, SetCallState, Pages
<1> QED
  BY <1>2, <1>3 DEF SessionsReceived, Pages

\* The call state each handler leaves behind.
LEMMA PageStates ==
  ASSUME NEW g \in Pages
  PROVE  /\ \A id \in Peer : RowClicked(g, id).state = "Identified"
         /\ CallClicked(g).state = "Calling"
         /\ EndCall(g).state = "Idle"
         /\ SetCallState(g, "Connected").state = "Connected"
         /\ \A from \in Peer, awaits \in Awaits : CallReceived(g, from, awaits).state = "Ringing"
         /\ CallOffered(g).state = g.state
         /\ AnswerClicked(g).state = g.state
         /\ AnswerMade(g).state = g.state
         /\ \A from \in Peer : AnswerReceived(g, from).state = g.state
BY DEF Pages, SetCallState, UpdateRemoteId, RowClicked, CallClicked, EndCall, CallReceived,
       CallOffered, AnswerClicked, AnswerMade, AnswerReceived

\* What a page without rows and without a call to answer can still be made to
\* do leaves it so.
Bare(g) == g.rows = {} /\ "answer" \notin g.enabled

\* None of these functions makes rows, or a call to answer.
LEMMA PageBare ==
  ASSUME NEW g \in Pages, Bare(g)
  PROVE  /\ Bare(CallClicked(g))
         /\ Bare(CallOffered(g))
         /\ Bare(AnswerClicked(g))
         /\ Bare(AnswerMade(g))
         /\ Bare(EndCall(g))
         /\ Bare(SetCallState(g, "Connected"))
<1> USE DEF Bare, Pages, SetCallState, UpdateRemoteId, UpdateCallStateUI
<1>1. Bare(CallClicked(g))
  BY DEF CallClicked
<1>2. Bare(CallOffered(g)) /\ Bare(AnswerClicked(g)) /\ Bare(AnswerMade(g))
  BY DEF CallOffered, AnswerClicked, AnswerMade
<1>3. Bare(EndCall(g)) /\ Bare(SetCallState(g, "Connected"))
  BY DEF EndCall
<1> QED
  BY <1>1, <1>2, <1>3

(***************************************************************************)
(* The sounds                                                              *)
(***************************************************************************)
\* Whatever was playing, there is one loop more when a sound is played, and as
\* many when it is stopped, none of them the latest source.
LEMMA SourceSteps ==
  ASSUME NEW s \in Sources
  PROVE  /\ Loops(s) \in Nat
         /\ Loops(Played(s)) = Loops(s) + 1
         /\ Loops(Stopped(s)) = Loops(s)
         /\ Loops(s) < MaxLoops => Played(s) \in Sources
         /\ Loops(s) <= MaxLoops => Stopped(s) \in Sources
         /\ Stopped(s).latest # "playing"
<1> DEFINE p == Played(s)
           t == Stopped(s)
<1>1. /\ s = [older |-> s.older, latest |-> s.latest, ended |-> s.ended]
      /\ s.older \in Nat /\ s.ended \in Nat
      /\ s.latest \in {"none", "playing", "over"}
      /\ s.older <= MaxLoops /\ s.ended <= MaxLoops
  BY RingerAssumption DEF Sources
<1>2. Sounding(s) \in {0, 1} /\ (Sounding(s) = 1 <=> s.latest = "playing")
  BY DEF Sounding
<1>3. Loops(s) \in Nat
  BY <1>1, <1>2 DEF Loops
<1>4. p.older = s.older + Sounding(s) /\ p.latest = "playing" /\ p.ended = s.ended
  BY <1>1 DEF Played
<1>5. Loops(p) = Loops(s) + 1
  <2>1. Sounding(p) = 1
    BY <1>4 DEF Sounding
  <2> QED
    BY <2>1, <1>4, <1>1, <1>2 DEF Loops
<1>6. Loops(s) < MaxLoops => p \in Sources
  <2> SUFFICES ASSUME Loops(s) < MaxLoops PROVE p \in Sources
    OBVIOUS
  <2>1. s.older + Sounding(s) \in 0 .. MaxLoops
    BY <1>1, <1>2, RingerAssumption DEF Loops
  <2> QED
    BY <2>1 DEF Played, Sources
<1>7. Loops(t) = Loops(s)
  <2>1. CASE s.latest = "playing"
    <3>1. t.older = s.older /\ t.latest = "over" /\ t.ended = s.ended + 1
      BY <1>1, <2>1 DEF Stopped
    <3>2. Sounding(t) = 0 /\ Sounding(s) = 1
      BY <3>1, <2>1 DEF Sounding
    <3> QED
      BY <3>1, <3>2, <1>1 DEF Loops
  <2>2. CASE s.latest # "playing"
    BY <2>2 DEF Stopped
  <2> QED
    BY <2>1, <2>2
<1>8. Loops(s) <= MaxLoops => t \in Sources
  <2> SUFFICES ASSUME Loops(s) <= MaxLoops, s.latest = "playing" PROVE t \in Sources
    BY DEF Stopped
  <2>1. s.ended + 1 \in 0 .. MaxLoops
    BY <1>1, <1>2, RingerAssumption DEF Loops
  <2> QED
    BY <2>1 DEF Stopped, Sources
<1>9. t.latest # "playing"
  BY <1>1 DEF Stopped
<1> QED
  BY <1>3, <1>5, <1>6, <1>7, <1>8, <1>9

\* The ringing fits the call state: this is Audible and SilentWhenOver, as one
\* predicate on the sounds and a state.
Fits(snds, state) ==
  /\ state = "Calling" => Loops(snds[0]) > 0
  /\ state = "Ringing" => Loops(snds[1]) > 0
  /\ Aborts(state) => \A i \in Sound : snds[i].latest # "playing"

\* UpdateCallStateUI makes the ringing fit whatever state it shows.
LEMMA RungFits ==
  ASSUME RingerTypeOK, NEW state \in CallState,
         sounds' = Rung(sounds, state),
         \A i \in Sound : Loops(sounds'[i]) <= MaxLoops
  PROVE  RingerTypeOK' /\ Fits(sounds', state)
<1>1. \A i \in Sound : sounds[i] \in Sources /\ Loops(sounds[i]) <= MaxLoops
  BY DEF RingerTypeOK
<1>2. CASE state \in {"Calling", "Ringing"}
  <2>1. PICK i \in Sound : /\ sounds' = [sounds EXCEPT ![i] = Played(@)]
                           /\ state = "Calling" => i = 0
                           /\ state = "Ringing" => i = 1
    <3>1. state = "Calling" => sounds' = [sounds EXCEPT ![0] = Played(@)]
      BY DEF Rung, Aborts
    <3>2. state = "Ringing" => sounds' = [sounds EXCEPT ![1] = Played(@)]
      BY DEF Rung, Aborts
    <3> QED
      BY <1>2, <3>1, <3>2 DEF Sound
  <2>2. sounds'[i] = Played(sounds[i])
    BY <2>1 DEF RingerTypeOK
  <2>3. Loops(sounds'[i]) = Loops(sounds[i]) + 1 /\ Loops(sounds[i]) \in Nat
    BY <1>1, <2>2, SourceSteps
  <2>4. Played(sounds[i]) \in Sources
    <3>1. Loops(sounds'[i]) <= MaxLoops
      OBVIOUS
    <3> QED
      BY <3>1, <2>3, <1>1, SourceSteps, RingerAssumption
  <2>5. RingerTypeOK'
    BY <2>1, <2>4 DEF RingerTypeOK
  <2> QED
    BY <2>1, <2>3, <2>5, <1>2 DEF Fits, Aborts
<1>3. CASE Aborts(state)
  <2>1. sounds' = [i \in Sound |-> Stopped(sounds[i])]
    BY <1>3 DEF Rung, Aborts
  <2> QED
    BY <1>1, <1>3, <2>1, SourceSteps DEF RingerTypeOK, Fits, Aborts
<1>4. CASE state = "Identified"
  BY <1>4 DEF Rung, Aborts, Fits, RingerTypeOK
<1> QED
  BY <1>2, <1>3, <1>4 DEF CallState, Aborts

\* A source that ends leaves its onended behind.
LEMMA SoundEndsFits ==
  ASSUME RingerTypeOK, NEW state \in CallState, Fits(sounds, state),
         NEW i \in Sound, SoundEnds(i)
  PROVE  RingerTypeOK' /\ Fits(sounds', state)
<1> DEFINE s == sounds[i]
<1>1. s \in Sources /\ Loops(s) <= MaxLoops
  BY DEF RingerTypeOK
<1>2. PICK t \in Sources : /\ sounds' = [sounds EXCEPT ![i] = t]
                           /\ Loops(t) = Loops(s)
                           /\ t.latest = "playing" => s.latest = "playing"
  <2>1. CASE s.older > 0 /\ sounds' = [sounds EXCEPT ![i].older = @ - 1, ![i].ended = @ + 1]
    <3> DEFINE t == [s EXCEPT !.older = @ - 1, !.ended = @ + 1]
    <3>1. t \in Sources /\ Loops(t) = Loops(s) /\ t.latest = s.latest
      <4>1. /\ s.older \in Nat /\ s.ended \in Nat
            /\ s.older <= MaxLoops /\ s.ended <= MaxLoops
            /\ s.latest \in {"none", "playing", "over"}
        BY <1>1, RingerAssumption DEF Sources
      <4>2. t.older = s.older - 1 /\ t.latest = s.latest /\ t.ended = s.ended + 1
        BY <1>1 DEF Sources
      <4>3. Sounding(t) = Sounding(s) /\ Sounding(s) \in {0, 1}
        BY <4>2 DEF Sounding
      <4>4. Loops(t) = Loops(s)
        BY <4>1, <4>2, <4>3 DEF Loops
      <4>5. t.older \in 0 .. MaxLoops /\ t.ended \in 0 .. MaxLoops
        BY <4>1, <4>2, <4>3, <2>1, <1>1, RingerAssumption DEF Loops
      <4> QED
        BY <1>1, <4>2, <4>4, <4>5 DEF Sources
    <3>2. sounds' = [sounds EXCEPT ![i] = t]
      BY <2>1 DEF RingerTypeOK, Sources
    <3> QED
      BY <3>1, <3>2
  <2>2. CASE s.latest = "playing" /\ sounds' = [sounds EXCEPT ![i] = Stopped(s)]
    BY <1>1, <2>2, SourceSteps
  <2> QED
    BY <2>1, <2>2 DEF SoundEnds
<1>3. \A j \in Sound : /\ Loops(sounds'[j]) = Loops(sounds[j])
                       /\ sounds'[j].latest = "playing" => sounds[j].latest = "playing"
  BY <1>2 DEF RingerTypeOK
<1>4. RingerTypeOK'
  <2>1. sounds' \in [Sound -> Sources]
    BY <1>2 DEF RingerTypeOK
  <2> QED
    BY <2>1, <1>3 DEF RingerTypeOK
<1> QED
  BY <1>3, <1>4 DEF Fits, Sound

\* An onended that is run plays on, or finds that it should not.
LEMMA OnEndedFits ==
  ASSUME RingerTypeOK, NEW state \in CallState, Fits(sounds, state),
         NEW i \in Sound, OnEnded(i, state)
  PROVE  RingerTypeOK' /\ Fits(sounds', state)
<1> DEFINE s == [sounds[i] EXCEPT !.ended = @ - 1]
           t == IF Aborts(state) THEN Stopped(s) ELSE Played(s)
<1>1. sounds[i] \in Sources /\ Loops(sounds[i]) <= MaxLoops
  BY DEF RingerTypeOK
<1>2. s \in Sources /\ Loops(s) + 1 = Loops(sounds[i]) /\ Loops(s) < MaxLoops
  BY <1>1, RingerAssumption DEF OnEnded, Sources, Loops, Sounding
<1>3. sounds' = [sounds EXCEPT ![i] = t]
  BY DEF OnEnded
<1>4. t \in Sources /\ Loops(t) <= Loops(sounds[i])
  BY <1>2, SourceSteps, RingerAssumption
<1>5. ~Aborts(state) => Loops(t) = Loops(sounds[i])
  BY <1>2, SourceSteps
<1>6. Aborts(state) => t.latest # "playing"
  BY <1>2, SourceSteps
<1>7. sounds' \in [Sound -> Sources] /\ sounds'[i] = t
  BY <1>3, <1>4 DEF RingerTypeOK
<1>8. \A j \in Sound : j # i => sounds'[j] = sounds[j]
  BY <1>3 DEF RingerTypeOK
<1>9. \A j \in Sound : Loops(sounds'[j]) <= MaxLoops
  <2> SUFFICES ASSUME NEW j \in Sound PROVE Loops(sounds'[j]) <= MaxLoops
    OBVIOUS
  <2>1. CASE j = i
    <3>1. Loops(t) \in Nat /\ Loops(sounds[i]) \in Nat
      BY <1>1, <1>4, SourceSteps
    <3> QED
      BY <2>1, <3>1, <1>7, <1>4, <1>1, RingerAssumption
  <2>2. CASE j # i
    BY <2>2, <1>8 DEF RingerTypeOK
  <2> QED
    BY <2>1, <2>2
<1> QED
  BY <1>5, <1>6, <1>7, <1>8, <1>9 DEF RingerTypeOK, Fits, Sound, Aborts

(***************************************************************************)
(* The heartbeat                                                           *)
(***************************************************************************)
\* While every beat was echoed in time, no more beats are missed than are
\* under way.
PulseInv ==
  /\ PulseTypeOK
  /\ prompt => missed <= pending
  /\ timer # "cleared" => missed < MaxMissing /\ verdict = "none"
  /\ verdict = "vanished" => ~prompt
  /\ verdict = "lost" => socket = "closed" /\ timer = "cleared"

PulseStep == BeginHeartbeat \/ HeartbeatLost \/ Heartbeat \/ PulseDetected \/ Close

\* No step of the heartbeat breaks it.
LEMMA PulseStepInv == ASSUME PulseInv, PulseStep PROVE PulseInv'
<1> USE PulseAssumption DEF PulseInv, PulseTypeOK
<1>1. CASE BeginHeartbeat
  BY <1>1 DEF BeginHeartbeat
<1>2. CASE HeartbeatLost
  BY <1>2 DEF HeartbeatLost
<1>3. CASE Heartbeat
  <2>1. /\ timer = "running" /\ socket = "open" /\ missed' = missed + 1
        /\ socket' = socket /\ missed < MaxMissing
    BY <1>3 DEF Heartbeat
  <2>2. pending' = IF pending = MaxPending THEN pending ELSE pending + 1
    BY <1>3 DEF Heartbeat, SendBeat
  <2>3. prompt' = (prompt /\ pending <= Latency)
    BY <1>3 DEF Heartbeat, SendBeat
  <2>4. prompt' => missed' <= pending'
    <3>1. prompt' => prompt /\ pending <= Latency
      BY <2>3, Zenon
    <3> QED
      BY <2>1, <2>2, <3>1
  <2>5. CASE missed' >= MaxMissing
    <3>1. timer' = "cleared" /\ verdict' = "vanished"
      BY <1>3, <2>5 DEF Heartbeat
    <3>2. ~prompt'
      <4>1. ~(prompt /\ pending <= Latency)
        BY <2>1, <2>5
      <4> QED
        BY <2>3, <4>1, Zenon
    <3>3. prompt' \in BOOLEAN
      BY <2>3
    <3> QED
      BY <2>1, <2>2, <2>4, <3>1, <3>2, <3>3
  <2>6. CASE ~(missed' >= MaxMissing)
    <3>1. timer' = timer /\ verdict' = verdict
      BY <1>3, <2>6 DEF Heartbeat
    <3>2. prompt' \in BOOLEAN /\ verdict = "none"
      BY <2>1, <2>3
    <3> QED
      BY <2>1, <2>2, <2>4, <2>6, <3>1, <3>2
  <2> QED
    BY <2>5, <2>6
<1>4. CASE PulseDetected
  BY <1>4 DEF PulseDetected
<1>5. CASE Close
  BY <1>5 DEF Close
<1> QED
  BY <1>1, <1>2, <1>3, <1>4, <1>5 DEF PulseStep

(***************************************************************************)
(* The page as a whole                                                     *)
(***************************************************************************)
Inv ==
  /\ page \in Pages
  /\ RingerTypeOK
  /\ Fits(sounds, page.state)
  /\ PulseInv
  /\ verdict = "lost" => Bare(page)

\* A page that shows a new state keeps the invariant.
LEMMA ShowStateInv ==
  ASSUME Inv, NEW g \in Pages, ShowState(g), verdict = "lost" => Bare(g)
  PROVE  Inv'
<1>1. g.state \in CallState
  BY DEF Pages
<1>2. RingerTypeOK' /\ Fits(sounds', g.state)
  BY <1>1, RungFits DEF Inv, ShowState
<1>3. PulseInv' /\ verdict' = verdict
  BY DEF Inv, ShowState, pulseVars, PulseInv, PulseTypeOK
<1> QED
  BY <1>2, <1>3 DEF Inv, ShowState

\* So does one that keeps the state it has.
LEMMA UpdateInv ==
  ASSUME Inv, NEW g \in Pages, Update(g), g.state = page.state, verdict = "lost" => Bare(g)
  PROVE  Inv'
<1>1. PulseInv' /\ verdict' = verdict
  BY DEF Inv, Update, pulseVars, PulseInv, PulseTypeOK
<1>2. RingerTypeOK' /\ sounds' = sounds
  BY DEF Inv, Update, RingerTypeOK
<1> QED
  BY <1>1, <1>2 DEF Inv, Update

\* Steps of the heartbeat that leave the page alone, or bare it.
LEMMA PulseInvStep ==
  ASSUME Inv, PulseStep, UNCHANGED sounds, UNCHANGED page \/ GivenUp,
         verdict' = "lost" => verdict = "lost" \/ GivenUp
  PROVE  Inv'
<1>1. PulseInv'
  BY PulseStepInv DEF Inv
<1>2. RingerTypeOK'
  BY DEF Inv, RingerTypeOK
<1>3. page' \in Pages /\ page'.state = page.state
  BY DEF Inv, GivenUp, Pages
<1>4. GivenUp => Bare(page')
  BY DEF Inv, GivenUp, Pages, Bare
<1> QED
  BY <1>1, <1>2, <1>3, <1>4 DEF Inv

\* Every step keeps the invariant.
LEMMA InvStep == Inv /\ [Next]_vars => Inv'
<1> SUFFICES ASSUME Inv, [Next]_vars PROVE Inv'
  OBVIOUS
<1> USE DEF Inv
<1>1. page \in Pages /\ Others \subseteq Peer
  BY DEF Others
<1>2. Hears => verdict # "lost"
  BY DEF Hears, PulseInv
<1>3. CASE \E id \in Others : SelectRow(id)
  <2>1. PICK id \in Others : SelectRow(id)
    BY <1>3
  <2>2. verdict # "lost"
    BY <2>1 DEF SelectRow, Bare
  <2> QED
    BY <1>1, <2>1, <2>2, PageTypes, ShowStateInv DEF SelectRow
<1>4. CASE Call
  BY <1>1, <1>4, PageTypes, PageBare, ShowStateInv DEF Call
<1>5. CASE SendCall
  BY <1>1, <1>5, PageTypes, PageStates, PageBare, UpdateInv DEF SendCall
<1>6. CASE Answer
  BY <1>1, <1>6, PageTypes, PageStates, PageBare, UpdateInv DEF Answer
<1>7. CASE SendAnswer
  BY <1>1, <1>7, PageTypes, PageStates, PageBare, UpdateInv DEF SendAnswer
<1>8. CASE Hangup
  BY <1>1, <1>8, PageTypes, PageBare, ShowStateInv DEF Hangup
<1>9. CASE OnConnectionStateChange
  BY <1>1, <1>9, PageTypes, PageBare, ShowStateInv DEF OnConnectionStateChange
<1>10. CASE \E from \in Others : OnCallMessage(from)
  <2>1. PICK from \in Others, awaits \in Overtaken(page.awaits) :
           Hears /\ ShowState(CallReceived(page, from, awaits))
    BY <1>10 DEF OnCallMessage
  <2>2. awaits \in Awaits
    BY <2>1 DEF Overtaken, Awaits
  <2> QED
    BY <1>1, <1>2, <2>1, <2>2, PageTypes, ShowStateInv
<1>11. CASE \E from \in Others : OnAnswerMessage(from)
  BY <1>1, <1>2, <1>11, PageTypes, PageStates, UpdateInv DEF OnAnswerMessage
<1>12. CASE OnHangupMessage
  BY <1>1, <1>12, PageTypes, PageBare, ShowStateInv DEF OnHangupMessage
<1>13. CASE \E others \in SUBSET Others : OnSessionsChangedMessage(others \cup {Self})
  <2>1. PICK others \in SUBSET Others : OnSessionsChangedMessage(others \cup {Self})
    BY <1>13
  <2>2. others \cup {Self} \in SUBSET Peer
    BY <1>1, SelfAssumption
  <2> QED
    BY <1>1, <1>2, <2>1, <2>2, SelfAssumption, ListTypes, ShowStateInv, UpdateInv
    DEF OnSessionsChangedMessage
<1>14. CASE Begin
  BY <1>14, PulseInvStep DEF Begin, BeginHeartbeat, PulseStep
<1>15. CASE LoseServer
  BY <1>15, PulseInvStep DEF LoseServer, PulseStep
<1>16. CASE Beat
  <2>1. verdict' = "lost" => verdict = "lost"
    BY <1>16 DEF Beat, Heartbeat
  <2> QED
    BY <1>16, <2>1, PulseInvStep DEF Beat, PulseStep
<1>17. CASE OnHeartbeat
  BY <1>17, PulseInvStep DEF OnHeartbeat, PulseDetected, PulseStep
<1>18. CASE OnClose
  BY <1>18, PulseInvStep DEF OnClose, Close, PulseStep
<1>19. CASE \E i \in Sound : SoundOver(i)
  <2>1. page.state \in CallState
    BY <1>1 DEF Pages
  <2>2. RingerTypeOK' /\ Fits(sounds', page.state)
    BY <1>19, <2>1, SoundEndsFits DEF SoundOver
  <2> QED
    BY <1>19, <2>2 DEF SoundOver, pulseVars, PulseInv, PulseTypeOK
<1>20. CASE \E i \in Sound : RepeatSound(i)
  <2>1. page.state \in CallState
    BY <1>1 DEF Pages
  <2>2. RingerTypeOK' /\ Fits(sounds', page.state)
    BY <1>20, <2>1, OnEndedFits DEF RepeatSound
  <2> QED
    BY <1>20, <2>2 DEF RepeatSound, pulseVars, PulseInv, PulseTypeOK
<1>21. CASE UNCHANGED vars
  BY <1>21 DEF vars, pulseVars, PulseInv, PulseTypeOK, RingerTypeOK
<1> QED
  BY <1>3, <1>4, <1>5, <1>6, <1>7, <1>8, <1>9, <1>10, <1>11, <1>12, <1>13, <1>14, <1>15,
     <1>16, <1>17, <1>18, <1>19, <1>20, <1>21 DEF Next

\* The page starts with the invariant.
LEMMA InvInit == Init => Inv
<1> SUFFICES ASSUME Init PROVE Inv
  OBVIOUS
<1>1. page \in Pages /\ page.state = "Idle"
  BY SelfAssumption DEF Init, Loaded, Pages, CallState, Button, Awaits
<1>2. \A i \in Sound : /\ sounds[i] \in Sources
                       /\ Loops(sounds[i]) = 0
                       /\ sounds[i].latest = "none"
  BY RingerAssumption DEF Init, RingerInit, Sources, Loops, Sounding
<1>3. RingerTypeOK
  BY <1>2, RingerAssumption DEF Init, RingerInit, RingerTypeOK
<1>4. PulseInv /\ verdict = "none"
  BY PulseAssumption DEF Init, PulseInit, PulseInv, PulseTypeOK
<1> QED
  BY <1>1, <1>2, <1>3, <1>4 DEF Inv, Fits

\* The invariant holds throughout.
LEMMA Invariance == Spec => []Inv
BY InvInit, InvStep, PTL DEF Spec

\* The state of the page is well typed, its loops bounded: PageClient.TypeOK.
THEOREM PageTypeCorrect == Spec => []TypeOK
<1>1. Inv => TypeOK
  BY DEF Inv, PulseInv, TypeOK
<1> QED
  BY <1>1, Invariance, PTL

\* A server whose echoes all come in time is never given up for vanished,
\* for every number of beats forgiven and every latency below it.
THEOREM VerdictsTrue == Spec => []NoFalseVerdict
<1>1. Inv => NoFalseVerdict
  BY DEF Inv, PulseInv, NoFalseVerdict
<1> QED
  BY <1>1, Invariance, PTL

\* Nothing brings a lost page a row to select or a call to answer.
THEOREM LostStaysLost == Spec => []LostIsLost
<1>1. Inv => LostIsLost
  BY DEF Inv, Bare, LostIsLost
<1> QED
  BY <1>1, Invariance, PTL

\* A call that waits can be heard, however many loops of the ring there are.
THEOREM CallsAudible == Spec => []Audible
<1>1. Inv => Audible
  BY DEF Inv, Fits, Audible
<1> QED
  BY <1>1, Invariance, PTL

\* The latest ring is silent once a call is over or answered.
THEOREM OverIsSilent == Spec => []SilentWhenOver
<1>1. Inv => SilentWhenOver
  BY DEF Inv, Fits, SilentWhenOver
<1> QED
  BY <1>1, Invariance, PTL
=============================================================================
