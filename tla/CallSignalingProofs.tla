-------------------------- MODULE CallSignalingProofs --------------------------
(***************************************************************************)
(* Theorems about CallSignaling, for every set of pages and callers and    *)
(* every behaviour of the server and of the users.  The invariant is local *)
(* to a page: it is carried by one lemma for each function of a page, and  *)
(* the induction only says that every step applies one of them.            *)
(***************************************************************************)
EXTENDS CallSignaling, TLAPS

Ongoing == {"Calling", "Ringing", "Connected"}

\* What a page keeps across every handler: buttons that fit, a call that knows
\* its other end, an idle page that is clean.
PageInv(g) ==
  /\ "answer" \in g.enabled => g.state = "Ringing"
  /\ "hangup" \in g.enabled <=> g.state \in Ongoing
  /\ "call" \in g.enabled => g.remote # None
  /\ \/ g.partner # None
     \/ /\ g.state \notin Ongoing
        /\ g.awaits = "nothing" /\ g.media = None /\ g.signal = "stable"
  /\ g.state = "Idle" => /\ g.awaits = "nothing"
                         /\ g.media = None
                         /\ g.signal = "stable"
  /\ g.state = "Calling" => g.remote = g.partner

Good(g) == g \in Pages /\ PageInv(g)

\* A page that has just loaded is good.
LEMMA LoadedGood == \A p \in Peer : Good(Loaded(p)) /\ p \notin Loaded(p).rows
BY DEF Loaded, Good, Pages, PageInv, CallState, Button, Awaits, Ongoing

\* So is one that is closed.
LEMMA ClosedGood == \A p \in Peer : Good(Closed(p)) /\ p \notin Closed(p).rows
BY DEF Closed, Loaded, Good, Pages, PageInv, CallState, Button, Awaits, Ongoing

\* Ending a call leaves a good page, whatever the page was.
LEMMA EndCallGood ==
  ASSUME NEW g \in Pages
  PROVE  Good(EndCall(g)) /\ EndCall(g).rows = g.rows
BY DEF EndCall, SetCallState, UpdateCallStateUI,
       Good, Pages, PageInv, CallState, Button, Awaits, Ongoing

\* Selecting a row leaves a good page.
LEMMA RowClickedGood ==
  ASSUME NEW g, Good(g), NEW id \in Peer
  PROVE  Good(RowClicked(g, id)) /\ RowClicked(g, id).rows = g.rows
BY NoneAssumption
DEF RowClicked, UpdateRemoteId, SetCallState, UpdateCallStateUI,
    Good, Pages, PageInv, CallState, Button, Awaits, Ongoing

\* Pressing Call leaves a good page.
LEMMA CallClickedGood ==
  ASSUME NEW g, Good(g), "call" \in g.enabled
  PROVE  Good(CallClicked(g)) /\ CallClicked(g).rows = g.rows
BY DEF CallClicked, UpdateRemoteId, SetCallState, UpdateCallStateUI,
       Good, Pages, PageInv, CallState, Button, Awaits, Ongoing

\* Sending the offer leaves a good page.
LEMMA CallOfferedGood ==
  ASSUME NEW g, Good(g), g.awaits = "call"
  PROVE  Good(CallOffered(g)) /\ CallOffered(g).rows = g.rows
BY DEF CallOffered, Good, Pages, PageInv, CallState, Button, Awaits, Ongoing

\* Pressing Answer leaves a good page.
LEMMA AnswerClickedGood ==
  ASSUME NEW g, Good(g), "answer" \in g.enabled
  PROVE  Good(AnswerClicked(g)) /\ AnswerClicked(g).rows = g.rows
BY DEF AnswerClicked, Good, Pages, PageInv, CallState, Button, Awaits, Ongoing

\* Sending the answer leaves a good page, whatever happened in between.
LEMMA AnswerMadeGood ==
  ASSUME NEW g, Good(g), g.awaits \in {"answer", "lateAnswer"}
  PROVE  Good(AnswerMade(g)) /\ AnswerMade(g).rows = g.rows
BY DEF AnswerMade, UpdateRemoteId,
       Good, Pages, PageInv, CallState, Button, Awaits, Ongoing

\* An incoming call leaves a good page.
LEMMA CallReceivedGood ==
  ASSUME NEW g, Good(g), NEW from \in Peer, NEW awaits \in Awaits
  PROVE  Good(CallReceived(g, from, awaits)) /\ CallReceived(g, from, awaits).rows = g.rows
BY NoneAssumption
DEF CallReceived, SetCallState, UpdateCallStateUI,
    Good, Pages, PageInv, CallState, Button, Awaits, Ongoing

\* An incoming answer leaves a good page.
LEMMA AnswerReceivedGood ==
  ASSUME NEW g, Good(g), NEW from \in Peer
  PROVE  Good(AnswerReceived(g, from)) /\ AnswerReceived(g, from).rows = g.rows
BY DEF AnswerReceived, Good, Pages, PageInv, CallState, Button, Awaits, Ongoing

\* The media's "connected" event leaves a good page.
LEMMA ConnectedGood ==
  ASSUME NEW g, Good(g), g.media # None
  PROVE  /\ Good(SetCallState(g, "Connected"))
         /\ SetCallState(g, "Connected").rows = g.rows
BY DEF SetCallState, UpdateCallStateUI,
       Good, Pages, PageInv, CallState, Button, Awaits, Ongoing

\* A new list leaves a good page, which does not list itself.
LEMMA SessionsReceivedGood ==
  ASSUME NEW g, Good(g), NEW p \in Peer, NEW sessions \in SUBSET Peer
  PROVE  Good(SessionsReceived(g, p, sessions)) /\ p \notin SessionsReceived(g, p, sessions).rows
<1> DEFINE h == IF Vanished(g, sessions) THEN EndCall([g EXCEPT !.remote = None]) ELSE g
<1>1. Good(h)
  <2>1. [g EXCEPT !.remote = None] \in Pages
    BY DEF Good, Pages
  <2> QED
    BY <2>1, EndCallGood
<1>2. h \in Pages => [h EXCEPT !.rows = sessions \ {p}] \in Pages
  BY DEF Pages
<1>3. h \in Pages /\ PageInv(h) => PageInv([h EXCEPT !.rows = sessions \ {p}])
  BY DEF Pages, PageInv
<1>4. h \in Pages => p \notin [h EXCEPT !.rows = sessions \ {p}].rows
  BY DEF Pages
<1> QED
  BY <1>1, <1>2, <1>3, <1>4 DEF SessionsReceived, Good

(***************************************************************************)
(* The server's part: inboxes hold frames                                  *)
(***************************************************************************)
InboxOK == inbox \in [Peer -> Seq(Frames)]

\* Forwarding a frame keeps inboxes well typed.
LEMMA ForwardType ==
  ASSUME InboxOK, present \subseteq Peer, NEW q, NEW m \in Frames, Forward(q, m)
  PROVE  InboxOK'
<1>1. CASE UNCHANGED inbox
  BY <1>1 DEF InboxOK
<1>2. CASE q \in present /\ inbox' = [inbox EXCEPT ![q] = Append(@, m)]
  <2>1. q \in Peer /\ inbox[q] \in Seq(Frames)
    BY <1>2 DEF InboxOK
  <2>2. Append(inbox[q], m) \in Seq(Frames)
    BY <2>1
  <2> QED
    BY <1>2, <2>1, <2>2 DEF InboxOK
<1> QED
  BY <1>1, <1>2 DEF Forward

\* So does a broadcast.
LEMMA BroadcastType ==
  ASSUME InboxOK, NEW here \in SUBSET Peer, Broadcast(here)
  PROVE  InboxOK'
<1>1. PICK reached \in SUBSET here :
        inbox' = [q \in Peer |->
          IF q \in reached THEN Append(inbox[q], [type |-> "SessionsChanged", sessions |-> reached])
          ELSE IF q \in here THEN inbox[q] ELSE <<>>]
  BY DEF Broadcast
<1>2. [type |-> "SessionsChanged", sessions |-> reached] \in Frames
  BY <1>1 DEF Frames
<1> QED
  BY <1>1, <1>2 DEF InboxOK

\* What comes out of an inbox is a frame of the type its handler expects.
LEMMA ReceiveType ==
  ASSUME InboxOK, NEW p \in Peer, NEW type, Receive(p, type)
  PROVE  /\ InboxOK'
         /\ Head(inbox[p]) \in Frames
         /\ Head(inbox[p]).type = type
<1>1. inbox[p] \in Seq(Frames) /\ inbox[p] # <<>>
  BY DEF InboxOK, Receive
<1>2. Head(inbox[p]) \in Frames /\ Tail(inbox[p]) \in Seq(Frames)
  BY <1>1
<1> QED
  BY <1>2 DEF InboxOK, Receive

\* A frame that says it is a call, an answer or a hangup has a sender, and a
\* list has sessions.
LEMMA FrameFields ==
  ASSUME NEW m \in Frames
  PROVE  /\ m.type \in {"Call", "Answer", "Hangup"} => m.from \in Peer
         /\ m.type = "SessionsChanged" => m.sessions \in SUBSET Peer
BY DEF Frames

(***************************************************************************)
(* The induction                                                           *)
(***************************************************************************)
CallInv ==
  /\ present \subseteq Peer
  /\ InboxOK
  /\ calls \in 0 .. MaxCalls
  /\ page \in [Peer -> Pages]
  /\ \A p \in Peer : Good(page[p]) /\ p \notin page[p].rows

\* Replacing one page by a good one keeps the pages good.
LEMMA UpdateGood ==
  ASSUME CallInv, NEW p \in Peer, NEW g, Good(g), p \notin g.rows, Update(p, g)
  PROVE  /\ page' \in [Peer -> Pages]
         /\ \A q \in Peer : Good(page'[q]) /\ q \notin page'[q].rows
<1>1. g \in Pages
  BY DEF Good
<1>2. page' = [page EXCEPT ![p] = g] /\ page \in [Peer -> Pages]
  BY DEF Update, CallInv
<1>3. page' \in [Peer -> Pages]
  BY <1>1, <1>2
<1>4. ASSUME NEW q \in Peer PROVE Good(page'[q]) /\ q \notin page'[q].rows
  <2>1. CASE q = p
    BY <2>1, <1>2
  <2>2. CASE q # p
    BY <2>2, <1>2 DEF CallInv
  <2> QED
    BY <2>1, <2>2
<1> QED
  BY <1>3, <1>4

\* Every step of a page preserves the invariant.
LEMMA PageStepInv ==
  ASSUME CallInv, NEW p \in Peer, PageStep(p)
  PROVE  CallInv'
<1>p. p \in Peer /\ Good(page[p]) /\ p \notin page[p].rows /\ InboxOK /\ page[p] \in Pages
  BY DEF CallInv
<1>u. ASSUME NEW g, Good(g), p \notin g.rows, Update(p, g),
             InboxOK', present' \subseteq present, calls' \in 0 .. MaxCalls
      PROVE  CallInv'
  BY <1>u, <1>p, UpdateGood DEF CallInv
<1>c. calls \in 0 .. MaxCalls
  BY DEF CallInv
<1>i. UNCHANGED inbox => InboxOK'
  BY <1>p DEF InboxOK
<1>m. \A type \in {"Call", "Answer", "Hangup"} : [type |-> type, from |-> p] \in Frames
  BY <1>p DEF Frames
<1>1. ASSUME NEW id \in Peer, SelectRow(p, id) PROVE CallInv'
  BY <1>1, <1>p, <1>u, <1>c, <1>i, RowClickedGood DEF SelectRow
<1>2. CASE Call(p)
  <2>1. calls' \in 0 .. MaxCalls
    BY <1>2, <1>c, BoundAssumption DEF Call
  <2> QED
    BY <1>2, <2>1, <1>p, <1>u, <1>i, CallClickedGood DEF Call
<1>3. CASE SendCall(p)
  <2>1. InboxOK'
    BY <1>3, <1>p, <1>m, ForwardType DEF CallInv, SendCall
  <2> QED
    BY <1>3, <2>1, <1>p, <1>u, <1>c, CallOfferedGood DEF SendCall
<1>4. CASE Answer(p)
  BY <1>4, <1>p, <1>u, <1>c, <1>i, AnswerClickedGood DEF Answer
<1>5. CASE SendAnswer(p)
  <2>1. InboxOK'
    BY <1>5, <1>p, <1>m, ForwardType DEF CallInv, SendAnswer
  <2> QED
    BY <1>5, <2>1, <1>p, <1>u, <1>c, AnswerMadeGood DEF SendAnswer
<1>6. CASE Hangup(p)
  <2>1. InboxOK'
    BY <1>6, <1>p, <1>m, ForwardType DEF CallInv, Hangup
  <2> QED
    BY <1>6, <2>1, <1>p, <1>u, <1>c, EndCallGood DEF Hangup
<1>7. CASE Connected(p)
  BY <1>7, <1>p, <1>u, <1>c, <1>i, ConnectedGood DEF Connected
<1>8. CASE OnCallMessage(p)
  <2>1. Receive(p, "Call")
    BY <1>8 DEF OnCallMessage
  <2>2. PICK awaits \in Overtaken(page[p].awaits) :
          Update(p, CallReceived(page[p], Head(inbox[p]).from, awaits))
    BY <1>8 DEF OnCallMessage
  <2>3. awaits \in Awaits
    BY DEF Overtaken, Awaits
  <2>4. InboxOK' /\ Head(inbox[p]).from \in Peer
    BY <2>1, <1>p, ReceiveType, FrameFields
  <2>5. UNCHANGED <<present, calls>>
    BY <2>1 DEF Receive
  <2> QED
    BY <2>2, <2>3, <2>4, <2>5, <1>p, <1>u, <1>c, CallReceivedGood
<1>9. CASE OnAnswerMessage(p)
  <2>1. Receive(p, "Answer") /\ Update(p, AnswerReceived(page[p], Head(inbox[p]).from))
    BY <1>9 DEF OnAnswerMessage
  <2>2. InboxOK' /\ Head(inbox[p]).from \in Peer
    BY <2>1, <1>p, ReceiveType, FrameFields
  <2>3. UNCHANGED <<present, calls>>
    BY <2>1 DEF Receive
  <2> QED
    BY <2>1, <2>2, <2>3, <1>p, <1>u, <1>c, AnswerReceivedGood
<1>10. CASE OnHangupMessage(p)
  <2>1. Receive(p, "Hangup") /\ Update(p, EndCall(page[p]))
    BY <1>10 DEF OnHangupMessage
  <2>2. InboxOK'
    BY <2>1, <1>p, ReceiveType
  <2>3. UNCHANGED <<present, calls>>
    BY <2>1 DEF Receive
  <2> QED
    BY <2>1, <2>2, <2>3, <1>p, <1>u, <1>c, EndCallGood
<1>11. CASE OnSessionsChangedMessage(p)
  <2>1. /\ Receive(p, "SessionsChanged")
        /\ Update(p, SessionsReceived(page[p], p, Head(inbox[p]).sessions))
    BY <1>11 DEF OnSessionsChangedMessage
  <2>2. InboxOK' /\ Head(inbox[p]).sessions \in SUBSET Peer
    BY <2>1, <1>p, ReceiveType, FrameFields
  <2>3. UNCHANGED <<present, calls>>
    BY <2>1 DEF Receive
  <2> QED
    BY <2>1, <2>2, <2>3, <1>p, <1>u, <1>c, SessionsReceivedGood
<1>12. CASE Leave(p)
  <2>1. InboxOK'
    BY <1>12, <1>p, BroadcastType DEF Leave, CallInv
  <2> QED
    BY <1>12, <2>1, <1>p, <1>u, <1>c, ClosedGood DEF Leave
<1> QED
  BY <1>1, <1>2, <1>3, <1>4, <1>5, <1>6, <1>7, <1>8, <1>9, <1>10, <1>11, <1>12
  DEF PageStep

\* The invariant holds in every reachable state.
LEMMA CallInvariant == Spec => []CallInv
<1>1. Init => CallInv
  <2> SUFFICES ASSUME Init PROVE CallInv
    OBVIOUS
  <2>1. page \in [Peer -> Pages] /\ \A p \in Peer : Good(page[p]) /\ p \notin page[p].rows
    BY LoadedGood DEF Init, Good
  <2>2. InboxOK
    BY DEF Init, InboxOK
  <2> QED
    BY <2>1, <2>2, BoundAssumption DEF Init, CallInv
<1>2. CallInv /\ [Next]_vars => CallInv'
  <2> SUFFICES ASSUME CallInv, [Next]_vars PROVE CallInv'
    OBVIOUS
  <2>1. CASE SessionsChange
    <3>1. InboxOK'
      BY <2>1, BroadcastType DEF SessionsChange, CallInv
    <3> QED
      BY <2>1, <3>1 DEF SessionsChange, CallInv
  <2>2. ASSUME NEW p \in Peer, PageStep(p) PROVE CallInv'
    BY <2>2, PageStepInv
  <2>3. CASE UNCHANGED vars
    BY <2>3 DEF vars, CallInv, InboxOK
  <2> QED
    BY <2>1, <2>2, <2>3 DEF Next
<1> QED
  BY <1>1, <1>2, PTL DEF Spec

\* The pages and the inboxes are well typed, and no page lists itself.
THEOREM CallTypeCorrect == Spec => []TypeOK
<1>1. CallInv => TypeOK
  BY DEF CallInv, TypeOK, InboxOK
<1> QED
  BY <1>1, CallInvariant, PTL

\* Nothing of an ended call is left to send or receive, although Call and
\* Answer have their awaits in between (peer.js:65-77, 112-181).
THEOREM IdleStaysClean == Spec => []IdleIsClean
<1>1. CallInv => IdleIsClean
  BY DEF CallInv, Good, PageInv, IdleIsClean
<1> QED
  BY <1>1, CallInvariant, PTL

\* The buttons that can be pressed have something to act on (ui.js:146-204).
THEOREM ButtonsAlwaysFit == Spec => []ButtonsFit
<1>1. CallInv => ButtonsFit
  BY DEF CallInv, Good, PageInv, ButtonsFit, InCall, Ongoing
<1> QED
  BY <1>1, CallInvariant, PTL

\* As long as a page is Calling, the session whose loss ends the call is the
\* one it calls (peer.js:112-117, ui.js:79-97).
THEOREM CallerWatches == Spec => []CallerWatchesCallee
<1>1. CallInv => CallerWatchesCallee
  BY DEF CallInv, Good, PageInv, CallerWatchesCallee
<1> QED
  BY <1>1, CallInvariant, PTL
=============================================================================
