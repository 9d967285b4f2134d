----------------------------- MODULE CallSignaling -----------------------------
(***************************************************************************)
(* The call protocol of the web page (peer.js and the call part of ui.js)  *)
(* between pages that share one signaling server.  Page says what each     *)
(* handler does to its page; this module says when it runs.                *)
(*                                                                         *)
(* The server is seen as SessionServer shows it: a message reaches the     *)
(* session it names or nobody, in the order of sending.  A frame is put    *)
(* straight into the receiver's inbox: a delay on the way up only          *)
(* postpones what the sender does next.                                    *)
(***************************************************************************)
EXTENDS Page

CONSTANTS
  Callers,     \* pages whose user ever presses Call
  Reselects,   \* whether users select another row while a call is on
  Churns,      \* whether the list is broadcast again while pages stay
  Hiding,      \* whether the server's walk may miss sessions
  InboxBound,  \* bound on the frames under way to one page
  MaxCalls     \* bound on how often Call is pressed

ASSUME CallersAssumption == Callers \subseteq Peer
ASSUME BoundAssumption   == InboxBound \in Nat /\ MaxCalls \in Nat
ASSUME EnvAssumption     == {Reselects, Churns, Hiding} \subseteq BOOLEAN

VARIABLES
  present,  \* the pages whose session the server has
  page,     \* the state of each page
  inbox,    \* the frames the server has sent to each page
  calls     \* how often Call has been pressed

vars == <<present, page, inbox, calls>>

Frames == [type : {"Call", "Answer", "Hangup"}, from : Peer]
            \cup [type : {"SessionsChanged"}, sessions : SUBSET Peer]

(***************************************************************************)
(* The server                                                              *)
(***************************************************************************)
Room(q) == q \notin present \/ Len(inbox[q]) < InboxBound

\* OnForwardMessage: dropped when the target has left or is hidden.
Forward(q, m) ==
  \/ /\ q \in present
     /\ Room(q)
     /\ inbox' = [inbox EXCEPT ![q] = Append(@, m)]
  \/ /\ q \notin present \/ Hiding
     /\ UNCHANGED inbox

\* UpdateSessionsList over the sessions the walk reaches, out of here.
Broadcast(here) ==
  \E reached \in IF Hiding THEN SUBSET here ELSE {here} :
     /\ \A q \in reached : Room(q)
     /\ inbox' = [q \in Peer |->
          IF q \in reached THEN Append(inbox[q], [type |-> "SessionsChanged", sessions |-> reached])
          ELSE IF q \in here THEN inbox[q] ELSE <<>>]

\* Another session joins, leaves or changes its name.
SessionsChange ==
  /\ Churns
  /\ Broadcast(present)
  /\ UNCHANGED <<present, page, calls>>

(***************************************************************************)
(* The user and the network, at page p                                     *)
(***************************************************************************)
Update(p, g) == page' = [page EXCEPT ![p] = g]

SelectRow(p, id) ==
  /\ id \in page[p].rows
  /\ Reselects \/ page[p].state \in {"Idle", "Identified"}
  /\ Update(p, RowClicked(page[p], id))
  /\ UNCHANGED <<present, inbox, calls>>

\* Users press Call and Answer again only when the last press has run its
\* course, which takes milliseconds.
Call(p) ==
  /\ p \in Callers
  /\ calls < MaxCalls
  /\ calls' = calls + 1
  /\ "call" \in page[p].enabled
  /\ page[p].awaits = "nothing"
  /\ Update(p, CallClicked(page[p]))
  /\ UNCHANGED <<present, inbox>>

SendCall(p) ==
  /\ page[p].awaits = "call"
  /\ Update(p, CallOffered(page[p]))
  /\ Forward(page[p].partner, [type |-> "Call", from |-> p])
  /\ UNCHANGED <<present, calls>>

\* addTrack throws, and Answer goes no further, when the tracks were added
\* before.
Answer(p) ==
  /\ "answer" \in page[p].enabled
  /\ page[p].awaits = "nothing"
  /\ ~page[p].tracks
  /\ Update(p, AnswerClicked(page[p]))
  /\ UNCHANGED <<present, inbox, calls>>

SendAnswer(p) ==
  /\ page[p].awaits \in {"answer", "lateAnswer"}
  /\ Update(p, AnswerMade(page[p]))
  /\ Forward(page[p].partner, [type |-> "Answer", from |-> p])
  /\ UNCHANGED <<present, calls>>

Hangup(p) ==
  /\ "hangup" \in page[p].enabled
  /\ Update(p, EndCall(page[p]))
  /\ Forward(page[p].partner, [type |-> "Hangup", from |-> p])
  /\ UNCHANGED <<present, calls>>

\* OnConnectionStateChange
Connected(p) ==
  /\ page[p].media # None
  /\ Update(p, SetCallState(page[p], "Connected"))
  /\ UNCHANGED <<present, inbox, calls>>

\* PeerMessageHandler: a frame of that type comes out of the inbox of p.
Receive(p, type) ==
  /\ inbox[p] # <<>>
  /\ Head(inbox[p]).type = type
  /\ inbox' = [inbox EXCEPT ![p] = Tail(@)]
  /\ UNCHANGED <<present, calls>>

OnCallMessage(p) ==
  /\ Receive(p, "Call")
  /\ \E awaits \in Overtaken(page[p].awaits) :
        Update(p, CallReceived(page[p], Head(inbox[p]).from, awaits))

OnAnswerMessage(p) ==
  /\ Receive(p, "Answer")
  /\ Update(p, AnswerReceived(page[p], Head(inbox[p]).from))

\* Seeded fault: a caller takes the hangup for one of an earlier call.
OnHangupMessageNotCalling(p) ==
  /\ Receive(p, "Hangup")
  /\ Update(p, IF page[p].state = "Calling" THEN page[p] ELSE EndCall(page[p]))

\* Whoever sent it: the message does not say.
OnHangupMessage(p) ==
  /\ Receive(p, "Hangup")
  /\ Update(p, EndCall(page[p]))

OnSessionsChangedMessage(p) ==
  /\ Receive(p, "SessionsChanged")
  /\ Update(p, SessionsReceived(page[p], p, Head(inbox[p]).sessions))

(***************************************************************************)
(* The specification                                                       *)
(***************************************************************************)
Init ==
  /\ present = Peer
  /\ page = [p \in Peer |-> Loaded(p)]
  /\ inbox = [p \in Peer |-> <<>>]
  /\ calls = 0

\* A page that is no longer there: nothing to click.
Closed(p) == [Loaded(p) EXCEPT !.rows = {}]

\* The page is closed, and the server broadcasts the list that is left.
Leave(p) ==
  /\ Churns
  /\ p \in present
  /\ present' = present \ {p}
  /\ Update(p, Closed(p))
  /\ Broadcast(present \ {p})
  /\ UNCHANGED calls

PageStep(p) ==
  \/ \E id \in Peer : SelectRow(p, id)
  \/ Call(p)
  \/ SendCall(p)
  \/ Answer(p)
  \/ SendAnswer(p)
  \/ Hangup(p)
  \/ Connected(p)
  \/ OnCallMessage(p)
  \/ OnAnswerMessage(p)
  \/ OnHangupMessage(p)
  \/ OnSessionsChangedMessage(p)
  \/ Leave(p)

Next ==
  \/ SessionsChange
  \/ \E p \in Peer : PageStep(p)

Spec == Init /\ [][Next]_vars

(***************************************************************************)
(* Properties                                                              *)
(***************************************************************************)
\* The type invariant; ui.js:111, "Don't show ourselves in remotes table".
TypeOK ==
  /\ present \subseteq Peer
  /\ page \in [Peer -> Pages]
  /\ \A p \in Peer : p \notin page[p].rows
  /\ inbox \in [Peer -> Seq(Frames)]
  /\ calls \in 0 .. MaxCalls

InCall(p) == page[p].state \in {"Calling", "Ringing", "Connected"}

\* When a call has ended, whatever was under way, nothing of it is left that
\* could still send an offer, take an answer or report a connection.
IdleIsClean ==
  \A p \in Peer : page[p].state = "Idle" =>
     /\ page[p].awaits = "nothing"
     /\ page[p].signal = "stable"
     /\ page[p].media = None

\* The buttons keep up with the state across the awaits: there is a call to
\* answer, a call to hang up and someone to tell, or someone to call.
ButtonsFit ==
  \A p \in Peer :
     /\ "answer" \in page[p].enabled => page[p].state = "Ringing"
     /\ "hangup" \in page[p].enabled <=> InCall(p)
     /\ InCall(p) => page[p].partner # None
     /\ "call" \in page[p].enabled => page[p].remote # None

\* A caller looks for its callee, and nobody else, in the lists it is sent:
\* remote_id and peer_remote_id are the same as long as it is Calling.
CallerWatchesCallee ==
  \A p \in Peer : page[p].state = "Calling" => page[p].remote = page[p].partner

\* Nothing is under way to or at either page.
Quiet == \A p \in Peer : inbox[p] = <<>> /\ page[p].awaits = "nothing"

\* A caller is not left alone: once everything has been delivered, whatever
\* hangups and offers crossed, the page it is Calling is in a call too.  It is
\* about the messages of a call, where no list is sent and nobody leaves (~Churns):
\* a list makes a callee that has no row selected drop the call (VanishedHasLeft)
\* without telling its caller.
CallerNotAlone ==
  Quiet => \A p \in Peer : page[p].state = "Calling" => InCall(page[p].partner)

\* ui.js:91, "connection to ... vanished.": a call is ended by a list only
\* when the other end has left.
VanishedHasLeft ==
  [][\A p \in present : InCall(p) /\ OnSessionsChangedMessage(p) /\ page'[p].state = "Idle" =>
        page[p].partner \notin present]_vars
=============================================================================
