------------------------------ MODULE CallerProofs ------------------------------
(***************************************************************************)
(* CallerNotAlone, for any number of pages of which one calls, any number  *)
(* of calls and inboxes of any length, between two lists of the server: a  *)
(* caller that is Calling has an offer to send, or a hangup to hear of, or *)
(* the frames on their way to its callee leave that one in a call.         *)
(***************************************************************************)
EXTENDS CallSignalingProofs

(***************************************************************************)
(* The invariant, for the one caller p                                     *)
(***************************************************************************)
\* What comes to q: no lists, and calls of p only, which does not call itself.
FramesFor(p, q) ==
  {m \in Frames : /\ m.type # "SessionsChanged"
                  /\ m.type = "Call" => m.from = p /\ q # p}

\* The caller neither rings nor answers.
CallerPage(p, g) ==
  /\ g.partner # p /\ g.remote # p
  /\ g.signal # "remoteOffer"
  /\ g.state # "Ringing"
  /\ g.awaits \in {"nothing", "call"}

\* Whoever else is in a call is in one with p.
CalleePage(p, g) ==
  /\ g.partner \in {p, None}
  /\ g.state # "Calling"
  /\ g.awaits # "call"

Has(s, type) == \E i \in DOMAIN s : s[i].type = type

\* The last Call comes after every Hangup.
CallPrevails(s) ==
  \E i \in DOMAIN s : /\ s[i].type = "Call"
                      /\ \A j \in DOMAIN s : j > i => s[j].type # "Hangup"

\* The frames s on their way to the page g leave it in a call, unless its user
\* ends it.
Reached(s, g) ==
  \/ CallPrevails(s)
  \/ g.state \in Ongoing /\ ~Has(s, "Hangup")

Accompanied(p) ==
  page[p].state = "Calling" =>
     \/ page[p].awaits = "call"
     \/ Has(inbox[p], "Hangup")
     \/ LET q == page[p].partner IN Reached(inbox[q], page[q])

OneCaller(p) ==
  /\ present = Peer
  /\ \A q \in Peer : inbox[q] \in Seq(FramesFor(p, q))
  /\ CallerPage(p, page[p])
  /\ \A q \in Peer \ {p} : CalleePage(p, page[q])
  /\ Accompanied(p)

(***************************************************************************)
(* Frames that are put in and taken out                                    *)
(***************************************************************************)
\* What an inbox has is still there when a frame is added.
LEMMA AppendHas ==
  ASSUME NEW s \in Seq(Frames), NEW m \in Frames, NEW type
  PROVE  /\ Has(s, type) => Has(Append(s, m), type)
         /\ m.type = type => Has(Append(s, m), type)
<1>1. /\ DOMAIN s = 1 .. Len(s) /\ DOMAIN Append(s, m) = 1 .. Len(s) + 1 /\ Len(s) \in Nat
      /\ \A i \in 1 .. Len(s) : Append(s, m)[i] = s[i]
      /\ Append(s, m)[Len(s) + 1] = m
  OBVIOUS
<1>2. Len(s) + 1 \in DOMAIN Append(s, m)
  BY <1>1
<1>3. \A i \in DOMAIN s : i \in DOMAIN Append(s, m)
  BY <1>1
<1> QED
  BY <1>1, <1>2, <1>3 DEF Has

\* A Call that is added prevails.
LEMMA AppendCall ==
  ASSUME NEW s \in Seq(Frames), NEW m \in Frames, m.type = "Call"
  PROVE  CallPrevails(Append(s, m))
<1>1. /\ DOMAIN Append(s, m) = 1 .. Len(s) + 1 /\ Len(s) \in Nat
      /\ Append(s, m)[Len(s) + 1] = m
  OBVIOUS
<1>2. Len(s) + 1 \in DOMAIN Append(s, m) /\ \A j \in DOMAIN Append(s, m) : ~(j > Len(s) + 1)
  BY <1>1
<1> QED
  BY <1>1, <1>2 DEF CallPrevails

\* What an inbox has is at its head or stays when the head is taken out.
LEMMA TailHas ==
  ASSUME NEW s \in Seq(Frames), s # <<>>, NEW type
  PROVE  /\ Has(s, type) /\ Head(s).type # type => Has(Tail(s), type)
         /\ Has(Tail(s), type) => Has(s, type)
<1>1. /\ DOMAIN s = 1 .. Len(s) /\ DOMAIN Tail(s) = 1 .. Len(s) - 1 /\ Len(s) \in Nat
      /\ \A i \in 1 .. Len(s) - 1 : Tail(s)[i] = s[i + 1]
      /\ Head(s) = s[1]
  OBVIOUS
<1>2. ASSUME Has(s, type), Head(s).type # type PROVE Has(Tail(s), type)
  <2>1. PICK i \in DOMAIN s : s[i].type = type
    BY <1>2 DEF Has
  <2>2. i - 1 \in DOMAIN Tail(s) /\ Tail(s)[i - 1] = s[i]
    BY <2>1, <1>1, <1>2
  <2> QED
    BY <2>1, <2>2 DEF Has
<1>3. ASSUME Has(Tail(s), type) PROVE Has(s, type)
  <2>1. PICK i \in DOMAIN Tail(s) : Tail(s)[i].type = type
    BY <1>3 DEF Has
  <2>2. i + 1 \in DOMAIN s /\ s[i + 1] = Tail(s)[i]
    BY <2>1, <1>1
  <2> QED
    BY <2>1, <2>2 DEF Has
<1> QED
  BY <1>2, <1>3

\* A Call that prevails goes on to do so, or is taken out and no Hangup is left.
LEMMA TailPrevails ==
  ASSUME NEW s \in Seq(Frames), s # <<>>, CallPrevails(s)
  PROVE  \/ CallPrevails(Tail(s))
         \/ Head(s).type = "Call" /\ ~Has(Tail(s), "Hangup")
<1>1. /\ DOMAIN s = 1 .. Len(s) /\ DOMAIN Tail(s) = 1 .. Len(s) - 1 /\ Len(s) \in Nat
      /\ \A i \in 1 .. Len(s) - 1 : Tail(s)[i] = s[i + 1]
      /\ Head(s) = s[1]
  OBVIOUS
<1>2. PICK i \in DOMAIN s : /\ s[i].type = "Call"
                            /\ \A j \in DOMAIN s : j > i => s[j].type # "Hangup"
  BY DEF CallPrevails
<1>3. \A k \in DOMAIN Tail(s) : /\ k + 1 \in DOMAIN s
                               /\ k + 1 > i => Tail(s)[k].type # "Hangup"
  BY <1>1, <1>2
<1>4. CASE i = 1
  <2>1. \A k \in DOMAIN Tail(s) : k + 1 > 1
    BY <1>1
  <2> QED
    BY <1>1, <1>2, <1>3, <1>4, <2>1 DEF Has
<1>5. CASE i # 1
  <2>1. i - 1 \in DOMAIN Tail(s) /\ Tail(s)[i - 1] = s[i]
    BY <1>1, <1>2, <1>5
  <2>2. \A k \in DOMAIN Tail(s) : k > i - 1 => Tail(s)[k].type # "Hangup"
    BY <1>1, <1>2, <1>3
  <2> QED
    BY <1>2, <2>1, <2>2 DEF CallPrevails
<1> QED
  BY <1>4, <1>5

\* Where a frame is put, the inboxes are as FramesFor says, and lose nothing.
LEMMA ForwardOne ==
  ASSUME NEW p \in Peer, ~Hiding, present = Peer, InboxOK,
         \A q \in Peer : inbox[q] \in Seq(FramesFor(p, q)),
         NEW t \in Peer, NEW m \in FramesFor(p, t), Forward(t, m)
  PROVE  /\ \A q \in Peer : inbox'[q] \in Seq(FramesFor(p, q))
         /\ inbox'[t] = Append(inbox[t], m)
         /\ \A q \in Peer : q # t => inbox'[q] = inbox[q]
<1>1. inbox' = [inbox EXCEPT ![t] = Append(@, m)]
  BY DEF Forward
<1>2. inbox'[t] = Append(inbox[t], m) /\ \A q \in Peer : q # t => inbox'[q] = inbox[q]
  BY <1>1 DEF InboxOK
<1>3. Append(inbox[t], m) \in Seq(FramesFor(p, t))
  OBVIOUS
<1> QED
  BY <1>2, <1>3

\* Where a frame is taken out too.
LEMMA ReceiveOne ==
  ASSUME NEW p \in Peer, InboxOK, \A q \in Peer : inbox[q] \in Seq(FramesFor(p, q)),
         NEW t \in Peer, NEW type, Receive(t, type)
  PROVE  /\ \A q \in Peer : inbox'[q] \in Seq(FramesFor(p, q))
         /\ inbox[t] \in Seq(Frames) /\ inbox[t] # <<>>
         /\ inbox'[t] = Tail(inbox[t])
         /\ \A q \in Peer : q # t => inbox'[q] = inbox[q]
         /\ Head(inbox[t]) \in FramesFor(p, t) /\ Head(inbox[t]).type = type
<1>1. inbox' = [inbox EXCEPT ![t] = Tail(@)] /\ inbox[t] # <<>> /\ Head(inbox[t]).type = type
  BY DEF Receive
<1>2. inbox'[t] = Tail(inbox[t]) /\ \A q \in Peer : q # t => inbox'[q] = inbox[q]
  BY <1>1 DEF InboxOK
<1>3. inbox[t] \in Seq(FramesFor(p, t)) /\ inbox[t] \in Seq(Frames)
  BY DEF InboxOK
<1>4. Tail(inbox[t]) \in Seq(FramesFor(p, t)) /\ Head(inbox[t]) \in FramesFor(p, t)
  BY <1>1, <1>3
<1> QED
  BY <1>1, <1>2, <1>3, <1>4

(***************************************************************************)
(* The steps                                                               *)
(***************************************************************************)
\* A step of a page that is not the caller keeps the invariant if it keeps the
\* hangups that are on their way to the caller, and the callee in its call or
\* else adds one.
LEMMA CalleeStep ==
  ASSUME CallInv, NEW p \in Peer, OneCaller(p), UNCHANGED present,
         \A q \in Peer : inbox'[q] \in Seq(FramesFor(p, q)),
         NEW r \in Peer, r # p, NEW g, CalleePage(p, g), Update(r, g),
         Has(inbox[p], "Hangup") => Has(inbox'[p], "Hangup"),
         \A q \in Peer : q \notin {p, r} => inbox'[q] = inbox[q],
         Reached(inbox[r], page[r]) => Reached(inbox'[r], g) \/ Has(inbox'[p], "Hangup")
  PROVE  OneCaller(p)'
<1>1. page \in [Peer -> Pages] /\ page' = [page EXCEPT ![r] = g]
  BY DEF CallInv, Update
<1>2. page'[r] = g /\ \A q \in Peer : q # r => page'[q] = page[q]
  BY <1>1
<1>3. CallerPage(p, page'[p]) /\ \A q \in Peer \ {p} : CalleePage(p, page'[q])
  BY <1>2 DEF OneCaller
<1>4. ASSUME NEW q, q = page[p].partner, page[p].state = "Calling", page[p].awaits # "call",
             ~Has(inbox'[p], "Hangup")
      PROVE  Reached(inbox'[q], page'[q])
  <2>1. Reached(inbox[q], page[q])
    BY <1>4 DEF OneCaller, Accompanied
  <2>2. q \in Peer /\ q # p
    BY <1>4, <1>1 DEF CallInv, Good, PageInv, Pages, Ongoing, OneCaller, CallerPage
  <2>3. CASE q = r
    BY <2>1, <2>3, <1>2, <1>4
  <2>4. CASE q # r
    BY <2>1, <2>2, <2>4, <1>2
  <2> QED
    BY <2>3, <2>4
<1>5. Accompanied(p)'
  BY <1>2, <1>4 DEF Accompanied
<1> QED
  BY <1>3, <1>5 DEF OneCaller

\* A step of the caller keeps the invariant if the caller comes out accompanied.
LEMMA CallerStep ==
  ASSUME CallInv, NEW p \in Peer, OneCaller(p), UNCHANGED present,
         \A q \in Peer : inbox'[q] \in Seq(FramesFor(p, q)),
         NEW g, CallerPage(p, g), Update(p, g),
         g.state = "Calling" =>
           \/ g.awaits = "call"
           \/ Has(inbox'[p], "Hangup")
           \/ \E q \in Peer \ {p} : q = g.partner /\ Reached(inbox'[q], page[q])
  PROVE  OneCaller(p)'
<1>1. page'[p] = g /\ \A q \in Peer : q # p => page'[q] = page[q]
  BY DEF CallInv, Update
<1> QED
  BY <1>1 DEF OneCaller, Accompanied

\* What the invariant says of the caller while it is Calling and goes on so.
LEMMA CallerGoesOn ==
  ASSUME CallInv, NEW p \in Peer, OneCaller(p), page[p].state = "Calling",
         page[p].awaits # "call", ~Has(inbox'[p], "Hangup"),
         Has(inbox[p], "Hangup") => Has(inbox'[p], "Hangup"),
         \A q \in Peer : q # p => inbox'[q] = inbox[q]
  PROVE  \E q \in Peer \ {p} : q = page[p].partner /\ Reached(inbox'[q], page[q])
<1>1. page[p].partner \in Peer /\ page[p].partner # p
  BY DEF CallInv, Good, PageInv, Pages, Ongoing, OneCaller, CallerPage
<1>2. Reached(inbox[page[p].partner], page[page[p].partner])
  BY DEF OneCaller, Accompanied
<1> QED
  BY <1>1, <1>2

\* A page other than the caller: whatever it does, the caller is told of it.
LEMMA CalleeSteps ==
  ASSUME CallInv, NEW p \in Peer, Callers = {p}, ~Reselects, ~Churns, ~Hiding,
         OneCaller(p), NEW r \in Peer, r # p, PageStep(r)
  PROVE  OneCaller(p)'
<1> DEFINE g == page[r]
<1>1. /\ present = Peer /\ InboxOK /\ \A q \in Peer : inbox[q] \in Seq(FramesFor(p, q))
      /\ g \in Pages /\ PageInv(g) /\ CalleePage(p, g) /\ r \notin g.rows
      /\ p # None
  BY NoneAssumption DEF CallInv, OneCaller, Good
<1> HIDE DEF g
<1>i. ASSUME NEW h, CalleePage(p, h), Update(r, h), UNCHANGED <<present, inbox>>,
             g.state \in Ongoing => h.state \in Ongoing
      PROVE  OneCaller(p)'
  <2>1. Reached(inbox[r], page[r]) => Reached(inbox'[r], h)
    BY <1>i DEF Reached, g
  <2> QED
    BY <2>1, <1>1, <1>i, CalleeStep
<1>f. ASSUME NEW m \in FramesFor(p, p), g.partner # None, Forward(g.partner, m), UNCHANGED present,
             NEW h, CalleePage(p, h), Update(r, h),
             m.type = "Hangup" \/ (g.state \in Ongoing => h.state \in Ongoing)
      PROVE  OneCaller(p)'
  <2>1. g.partner = p
    BY <1>1, <1>f DEF CalleePage
  <2>2. /\ \A q \in Peer : inbox'[q] \in Seq(FramesFor(p, q))
        /\ inbox'[p] = Append(inbox[p], m)
        /\ \A q \in Peer : q # p => inbox'[q] = inbox[q]
    BY <2>1, <1>1, <1>f, ForwardOne
  <2>3. inbox[p] \in Seq(Frames) /\ m \in Frames
    BY <1>1, <1>f DEF InboxOK, FramesFor
  <2>4. /\ Has(inbox[p], "Hangup") => Has(inbox'[p], "Hangup")
        /\ m.type = "Hangup" => Has(inbox'[p], "Hangup")
    BY <2>2, <2>3, AppendHas
  <2>5. Reached(inbox[r], page[r]) => Reached(inbox'[r], h) \/ Has(inbox'[p], "Hangup")
    BY <2>2, <2>4, <1>f DEF Reached, g
  <2> QED
    BY <2>2, <2>4, <2>5, <1>f, <1>1, CalleeStep
<1>m. \A type \in {"Answer", "Hangup"} :
         [type |-> type, from |-> r] \in FramesFor(p, p) /\ [type |-> type, from |-> r].type = type
  BY DEF FramesFor, Frames
<1>c. g.awaits # "nothing" \/ "hangup" \in g.enabled => g.partner # None
  BY <1>1 DEF PageInv, Ongoing
<1>1a. ASSUME NEW id \in Peer, SelectRow(r, id) PROVE OneCaller(p)'
  <2>1. CalleePage(p, RowClicked(g, id))
    BY <1>1 DEF CalleePage, RowClicked, SetCallState, UpdateRemoteId, Pages
  <2>2. g.state \notin Ongoing
    BY <1>1a DEF SelectRow, Ongoing, g
  <2> QED
    BY <2>1, <2>2, <1>1a, <1>i DEF SelectRow, g
<1>2. CASE Call(r)
  BY <1>2 DEF Call
<1>3. CASE SendCall(r)
  BY <1>3, <1>1 DEF SendCall, CalleePage, g
<1>4. CASE Answer(r)
  <2>1. CalleePage(p, AnswerClicked(g)) /\ AnswerClicked(g).state = g.state
    BY <1>1 DEF CalleePage, AnswerClicked, Pages
  <2> QED
    BY <2>1, <1>4, <1>i DEF Answer, g
<1>5. CASE SendAnswer(r)
  <2>1. CalleePage(p, AnswerMade(g)) /\ AnswerMade(g).state = g.state
    BY <1>1 DEF CalleePage, AnswerMade, UpdateRemoteId, Pages
  <2>2. Forward(g.partner, [type |-> "Answer", from |-> r]) /\ g.awaits # "nothing"
    BY <1>5 DEF SendAnswer, g
  <2> QED
    BY <2>1, <2>2, <1>5, <1>c, <1>m, <1>f DEF SendAnswer, g
<1>6. CASE Hangup(r)
  <2>1. CalleePage(p, EndCall(g))
    BY <1>1 DEF CalleePage, EndCall, SetCallState, Pages
  <2>2. Forward(g.partner, [type |-> "Hangup", from |-> r]) /\ "hangup" \in g.enabled
    BY <1>6 DEF Hangup, g
  <2> QED
    BY <2>1, <2>2, <1>6, <1>c, <1>m, <1>f DEF Hangup, g
<1>7. CASE Connected(r)
  <2>1. CalleePage(p, SetCallState(g, "Connected")) /\ SetCallState(g, "Connected").state = "Connected"
    BY <1>1 DEF CalleePage, SetCallState, Pages
  <2> QED
    BY <2>1, <1>7, <1>i DEF Connected, Ongoing, g
<1>t. ASSUME NEW type, Receive(r, type), NEW h, CalleePage(p, h), Update(r, h),
             type = "Call" => h.state \in Ongoing,
             type # "Hangup" /\ g.state \in Ongoing => h.state \in Ongoing
      PROVE  OneCaller(p)'
  <2>1. /\ \A q \in Peer : inbox'[q] \in Seq(FramesFor(p, q))
        /\ inbox[r] \in Seq(Frames) /\ inbox[r] # <<>>
        /\ inbox'[r] = Tail(inbox[r])
        /\ \A q \in Peer : q # r => inbox'[q] = inbox[q]
        /\ Head(inbox[r]).type = type
    BY <1>t, <1>1, ReceiveOne
  <2>4. CallPrevails(inbox[r]) => Reached(inbox'[r], h)
    BY <2>1, <1>t, TailPrevails DEF Reached
  <2>5. ASSUME g.state \in Ongoing, ~Has(inbox[r], "Hangup") PROVE Reached(inbox'[r], h)
    <3>1. type # "Hangup"
      <4>1. 1 \in DOMAIN inbox[r] /\ Head(inbox[r]) = inbox[r][1]
        BY <2>1
      <4> QED
        BY <4>1, <2>1, <2>5 DEF Has
    <3>2. ~Has(inbox'[r], "Hangup")
      BY <2>1, <2>5, TailHas
    <3> QED
      BY <3>1, <3>2, <2>5, <1>t DEF Reached
  <2>6. Reached(inbox[r], page[r]) => Reached(inbox'[r], h)
    BY <2>4, <2>5 DEF Reached, g
  <2>7. UNCHANGED present
    BY <1>t DEF Receive
  <2> QED
    BY <2>1, <2>6, <2>7, <1>t, <1>1, CalleeStep
<1>8. CASE OnCallMessage(r)
  <2>1. PICK awaits \in Overtaken(g.awaits) : Update(r, CallReceived(g, Head(inbox[r]).from, awaits))
    BY <1>8 DEF OnCallMessage, g
  <2>2. Receive(r, "Call")
    BY <1>8 DEF OnCallMessage
  <2>3. Head(inbox[r]).from = p
    <3>1. Head(inbox[r]) \in FramesFor(p, r) /\ Head(inbox[r]).type = "Call"
      BY <2>2, <1>1, ReceiveOne
    <3> QED
      BY <3>1 DEF FramesFor
  <2>4. awaits # "call"
    BY <1>1 DEF Overtaken, CalleePage
  <2>5. CalleePage(p, CallReceived(g, p, awaits)) /\ CallReceived(g, p, awaits).state = "Ringing"
    BY <2>4, <1>1 DEF CalleePage, CallReceived, SetCallState, Pages
  <2> QED
    BY <2>1, <2>2, <2>3, <2>5, <1>t DEF Ongoing
<1>9. CASE OnAnswerMessage(r)
  <2>1. Receive(r, "Answer") /\ Update(r, AnswerReceived(g, Head(inbox[r]).from))
    BY <1>9 DEF OnAnswerMessage, g
  <2>2. \A from : /\ CalleePage(p, AnswerReceived(g, from))
                  /\ AnswerReceived(g, from).state = g.state
    BY <1>1 DEF CalleePage, AnswerReceived, Pages
  <2> QED
    BY <2>1, <2>2, <1>t
<1>10. CASE OnHangupMessage(r)
  <2>1. CalleePage(p, EndCall(g))
    BY <1>1 DEF CalleePage, EndCall, SetCallState, Pages
  <2> QED
    BY <2>1, <1>10, <1>t DEF OnHangupMessage, g
<1>11. CASE OnSessionsChangedMessage(r)
  BY <1>11, <1>1, ReceiveOne DEF OnSessionsChangedMessage, FramesFor
<1>12. CASE Leave(r)
  BY <1>12 DEF Leave
<1> QED
  BY <1>1a, <1>2, <1>3, <1>4, <1>5, <1>6, <1>7, <1>8, <1>9, <1>10, <1>11, <1>12 DEF PageStep

\* The caller: it comes out with an offer to send, or with the offer sent, or it
\* does not come out Calling.
LEMMA CallerSteps ==
  ASSUME CallInv, NEW p \in Peer, Callers = {p}, ~Reselects, ~Churns, ~Hiding,
         OneCaller(p), PageStep(p)
  PROVE  OneCaller(p)'
<1> DEFINE g == page[p]
<1>1. /\ present = Peer /\ InboxOK /\ \A q \in Peer : inbox[q] \in Seq(FramesFor(p, q))
      /\ g \in Pages /\ PageInv(g) /\ CallerPage(p, g) /\ p \notin g.rows
      /\ p # None
  BY NoneAssumption DEF CallInv, OneCaller, Good
<1>c. "hangup" \in g.enabled \/ g.awaits = "call" => g.partner \in Peer \ {p}
  BY <1>1 DEF PageInv, Ongoing, CallerPage, Pages
<1>e. CallerPage(p, EndCall(g)) /\ EndCall(g).state = "Idle"
  BY <1>1 DEF CallerPage, EndCall, SetCallState, Pages
<1> HIDE DEF g
<1>i. ASSUME NEW h, CallerPage(p, h), Update(p, h), UNCHANGED <<present, inbox>>,
             h.state = "Calling" => h.awaits = "call"
      PROVE  OneCaller(p)'
  BY <1>i, <1>1, CallerStep
<1>1a. ASSUME NEW id \in Peer, SelectRow(p, id) PROVE OneCaller(p)'
  <2>1. id # p
    BY <1>1a, <1>1 DEF SelectRow, g
  <2>2. CallerPage(p, RowClicked(g, id)) /\ RowClicked(g, id).state = "Identified"
    BY <1>1, <2>1 DEF CallerPage, RowClicked, SetCallState, UpdateRemoteId, Pages
  <2> QED
    BY <2>2, <1>1a, <1>i DEF SelectRow, g
<1>2. CASE Call(p)
  <2>1. CallerPage(p, CallClicked(g)) /\ CallClicked(g).awaits = "call"
    BY <1>1 DEF CallerPage, CallClicked, SetCallState, UpdateRemoteId, Pages
  <2> QED
    BY <2>1, <1>2, <1>i DEF Call, g
<1>3. CASE SendCall(p)
  <2> DEFINE q == g.partner
             m == [type |-> "Call", from |-> p]
  <2>1. /\ g.awaits = "call" /\ Update(p, CallOffered(g)) /\ Forward(q, m)
        /\ UNCHANGED present
    BY <1>3 DEF SendCall, g
  <2>2. q \in Peer \ {p}
    BY <2>1, <1>c
  <2>3. CallerPage(p, CallOffered(g)) /\ CallOffered(g).partner = q
    BY <1>1 DEF CallerPage, CallOffered, Pages
  <2>4. m \in FramesFor(p, q) /\ m \in Frames /\ m.type = "Call"
    BY <2>2 DEF FramesFor, Frames
  <2> HIDE DEF q, m
  <2>5. (\A t \in Peer : inbox'[t] \in Seq(FramesFor(p, t))) /\ inbox'[q] = Append(inbox[q], m)
    BY <2>1, <2>2, <2>4, <1>1, ForwardOne
  <2>6. inbox[q] \in Seq(Frames)
    BY <2>2, <1>1 DEF InboxOK
  <2>7. Reached(inbox'[q], page[q])
    BY <2>4, <2>5, <2>6, AppendCall DEF Reached
  <2> QED
    BY <2>1, <2>2, <2>3, <2>5, <2>7, CallerStep
<1>4. CASE Answer(p)
  BY <1>4, <1>1 DEF Answer, CallerPage, PageInv, g
<1>5. CASE SendAnswer(p)
  BY <1>5, <1>1 DEF SendAnswer, CallerPage, g
<1>6. CASE Hangup(p)
  <2>1. /\ "hangup" \in g.enabled /\ Update(p, EndCall(g)) /\ UNCHANGED present
        /\ Forward(g.partner, [type |-> "Hangup", from |-> p])
    BY <1>6 DEF Hangup, g
  <2>2. [type |-> "Hangup", from |-> p] \in FramesFor(p, g.partner)
    BY DEF FramesFor, Frames
  <2>3. \A q \in Peer : inbox'[q] \in Seq(FramesFor(p, q))
    BY <2>1, <2>2, <1>1, <1>c, ForwardOne
  <2> QED
    BY <2>1, <2>3, <1>e, CallerStep
<1>7. CASE Connected(p)
  <2>1. CallerPage(p, SetCallState(g, "Connected")) /\ SetCallState(g, "Connected").state = "Connected"
    BY <1>1 DEF CallerPage, SetCallState, Pages
  <2> QED
    BY <2>1, <1>7, <1>i DEF Connected, g
<1>8. CASE OnCallMessage(p)
  <2>1. Receive(p, "Call")
    BY <1>8 DEF OnCallMessage
  <2>2. Head(inbox[p]) \in FramesFor(p, p) /\ Head(inbox[p]).type = "Call"
    BY <2>1, <1>1, ReceiveOne
  <2> QED
    BY <2>2 DEF FramesFor
<1>9. CASE OnAnswerMessage(p)
  <2> DEFINE h == AnswerReceived(g, Head(inbox[p]).from)
  <2>1. Receive(p, "Answer") /\ Update(p, h) /\ UNCHANGED present
    BY <1>9 DEF OnAnswerMessage, Receive, g
  <2>2. /\ CallerPage(p, h)
        /\ h.state = g.state /\ h.awaits = g.awaits /\ h.partner = g.partner
    BY <1>1 DEF CallerPage, AnswerReceived, Pages
  <2> HIDE DEF h
  <2>3. /\ \A q \in Peer : inbox'[q] \in Seq(FramesFor(p, q))
        /\ inbox[p] \in Seq(Frames) /\ inbox[p] # <<>>
        /\ inbox'[p] = Tail(inbox[p])
        /\ \A q \in Peer : q # p => inbox'[q] = inbox[q]
        /\ Head(inbox[p]).type = "Answer"
    BY <2>1, <1>1, ReceiveOne
  <2>4. Has(inbox[p], "Hangup") => Has(inbox'[p], "Hangup")
    BY <2>3, TailHas
  <2>5. h.state = "Calling" =>
          \/ h.awaits = "call"
          \/ Has(inbox'[p], "Hangup")
          \/ \E q \in Peer \ {p} : q = h.partner /\ Reached(inbox'[q], page[q])
    BY <2>2, <2>3, <2>4, CallerGoesOn DEF g
  <2> QED
    BY <2>1, <2>2, <2>3, <2>5, CallerStep
<1>10. CASE OnHangupMessage(p)
  <2>1. Receive(p, "Hangup") /\ Update(p, EndCall(g)) /\ UNCHANGED present
    BY <1>10 DEF OnHangupMessage, Receive, g
  <2>2. \A q \in Peer : inbox'[q] \in Seq(FramesFor(p, q))
    BY <2>1, <1>1, ReceiveOne
  <2> QED
    BY <2>1, <2>2, <1>e, CallerStep
<1>11. CASE OnSessionsChangedMessage(p)
  BY <1>11, <1>1, ReceiveOne DEF OnSessionsChangedMessage, FramesFor
<1>12. CASE Leave(p)
  BY <1>12 DEF Leave
<1> QED
  BY <1>1a, <1>2, <1>3, <1>4, <1>5, <1>6, <1>7, <1>8, <1>9, <1>10, <1>11, <1>12 DEF PageStep

\* The invariant holds in every reachable state.
LEMMA OneCallerInvariant ==
  ASSUME NEW p \in Peer, Callers = {p}, ~Reselects, ~Churns, ~Hiding
  PROVE  Spec => []OneCaller(p)
<1>1. Init => OneCaller(p)
  <2> SUFFICES ASSUME Init PROVE OneCaller(p)
    OBVIOUS
  <2>1. \A q \in Peer : inbox[q] = <<>> /\ page[q] = Loaded(q)
    BY DEF Init
  <2>2. \A S : <<>> \in Seq(S)
    OBVIOUS
  <2> QED
    BY <2>1, <2>2, NoneAssumption
    DEF Init, OneCaller, CallerPage, CalleePage, Accompanied, Loaded
<1>2. CallInv /\ OneCaller(p) /\ [Next]_vars => OneCaller(p)'
  <2> SUFFICES ASSUME CallInv, OneCaller(p), [Next]_vars PROVE OneCaller(p)'
    OBVIOUS
  <2>1. CASE SessionsChange
    BY <2>1 DEF SessionsChange
  <2>2. ASSUME NEW r \in Peer, PageStep(r) PROVE OneCaller(p)'
    BY <2>2, CalleeSteps, CallerSteps
  <2>3. CASE UNCHANGED vars
    BY <2>3 DEF vars, OneCaller, Accompanied
  <2> QED
    BY <2>1, <2>2, <2>3 DEF Next
<1> QED
  BY <1>1, <1>2, CallInvariant, PTL DEF Spec

\* As long as the server drops no message (~Hiding), sends no list and nobody leaves
\* (~Churns), a sole caller is not left alone by the messages of its calls, however
\* often it presses Call and whatever hangups and offers cross, when users keep
\* their row while a call is on (peer.js:139, 278, 295).  With lists it is false: a callee that has no row
\* selected drops the call at the next one (ui.js:84) and tells nobody.
THEOREM CallersAccompanied ==
  ASSUME NEW p \in Peer, Callers = {p}, ~Reselects, ~Churns, ~Hiding
  PROVE  Spec => []CallerNotAlone
<1>1. CallInv /\ OneCaller(p) => CallerNotAlone
  <2> SUFFICES ASSUME CallInv, OneCaller(p), Quiet, NEW r \in Peer, page[r].state = "Calling"
               PROVE  InCall(page[r].partner)
    BY DEF CallerNotAlone
  <2>1. r = p
    BY DEF OneCaller, CalleePage
  <2> DEFINE q == page[p].partner
  <2>2. q \in Peer
    BY <2>1 DEF CallInv, Good, PageInv, Pages, Ongoing
  <2>3. inbox[p] = <<>> /\ page[p].awaits = "nothing" /\ inbox[q] = <<>>
    BY <2>2 DEF Quiet
  <2>4. \A type : ~Has(<<>>, type)
    BY DEF Has
  <2>5. ~CallPrevails(<<>>)
    BY DEF CallPrevails
  <2>6. Reached(inbox[q], page[q])
    BY <2>1, <2>3, <2>4 DEF OneCaller, Accompanied
  <2> QED
    BY <2>1, <2>3, <2>5, <2>6 DEF Reached, InCall, Ongoing
<1> QED
  BY <1>1, CallInvariant, OneCallerInvariant, PTL
=============================================================================
