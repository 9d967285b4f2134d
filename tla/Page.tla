---------------------------------- MODULE Page ----------------------------------
(***************************************************************************)
(* The web page: the call state of peer.js and the call part of ui.js.     *)
(*                                                                         *)
(* A page is a record of the module variables of peer.js and ui.js and of  *)
(* what they make of the RTCPeerConnection.  Each event handler is a       *)
(* function from page to page; the two async functions, Call and Answer,   *)
(* are cut at their awaits, and read peer_remote_id after them.            *)
(*                                                                         *)
(* The camera has been granted, so localStream is set.  ICE candidates     *)
(* only matter to the media, whose "connected" event may come whenever     *)
(* both descriptions are set.                                              *)
(***************************************************************************)
EXTENDS Sequences, Integers

CONSTANTS
  Peer,        \* the pages, named by their session ids
  None         \* undefined, null: no session id

ASSUME NoneAssumption == None \notin Peer

CallState == {"Idle", "Identified", "Calling", "Ringing", "Connected"}
Button    == {"call", "answer", "hangup"}

\* lateAnswer: an answer that a new offer has overtaken, still to be sent.
Awaits    == {"nothing", "call", "answer", "lateAnswer"}

Pages ==
  [state   : CallState,
   remote  : Peer \cup {None},   \* remote_id: the row selected in the table
   partner : Peer \cup {None},   \* peer_remote_id: the other end of the call
   signal  : {"stable", "localOffer", "remoteOffer"},  \* pc.signalingState
   media   : Peer \cup {None},   \* whose answer, or answered offer, pc holds
   tracks  : BOOLEAN,            \* whether the tracks were added to pc
   awaits  : Awaits,             \* the async function under way
   enabled : SUBSET Button,      \* buttons that are not disabled
   rows    : SUBSET Peer]        \* the remotes table

\* A page that has loaded and has been sent the list.
Loaded(p) ==
  [state |-> "Idle", remote |-> None, partner |-> None, signal |-> "stable",
   media |-> None, tracks |-> FALSE, awaits |-> "nothing", enabled |-> {},
   rows |-> Peer \ {p}]

(***************************************************************************)
(* What the functions of peer.js and ui.js do to a page                    *)
(***************************************************************************)
\* Seeded fault: Idle always offers to call.
UpdateCallStateUIAnyRow(state, remote) ==
  IF state \in {"Idle", "Identified"} THEN {"call"}
  ELSE IF state = "Ringing" THEN {"answer", "hangup"} ELSE {"hangup"}

\* UpdateCallStateUI: the buttons; Idle becomes Identified when a row is
\* selected.
UpdateCallStateUI(state, remote) ==
  CASE state = "Idle"       -> IF remote = None THEN {} ELSE {"call"}
    [] state = "Identified" -> {"call"}
    [] state = "Calling"    -> {"hangup"}
    [] state = "Ringing"    -> {"answer", "hangup"}
    [] state = "Connected"  -> {"hangup"}

SetCallState(g, state) ==
  [g EXCEPT !.state = state, !.enabled = UpdateCallStateUI(state, g.remote)]

UpdateRemoteId(g, id) ==
  [g EXCEPT !.remote = id, !.enabled = @ \cup {"call"}]

\* Seeded fault: the connection is replaced and not closed, so the promises
\* it owes are kept.
EndCallUnclosed(g) ==
  SetCallState([g EXCEPT !.signal = "stable", !.media = None, !.tracks = FALSE], "Idle")

\* EndCall: pc is closed, which leaves its promises for ever unsettled, and
\* replaced.
EndCall(g) ==
  SetCallState([g EXCEPT !.signal = "stable", !.media = None, !.tracks = FALSE,
                         !.awaits = "nothing"], "Idle")

\* OnTableRowClickEvent
RowClicked(g, id) == SetCallState(UpdateRemoteId(g, id), "Identified")

\* Call, up to its first await.  createOffer is rejected, and the error
\* caught, while a remote offer waits for its answer.
CallClicked(g) ==
  UpdateRemoteId(
    SetCallState([g EXCEPT !.partner = g.remote, !.tracks = TRUE,
                           !.awaits  = IF g.signal = "remoteOffer" THEN "nothing" ELSE "call"],
                 "Calling"),
    g.remote)

\* Call, after setLocalDescription.  When an offer came in meanwhile, pc goes
\* on to it by rolling its own back.
CallOffered(g) ==
  [g EXCEPT !.awaits = "nothing",
            !.signal = IF @ = "remoteOffer" THEN @ ELSE "localOffer"]

\* Answer, up to its first await.
AnswerClicked(g) == [g EXCEPT !.tracks = TRUE, !.awaits = "answer"]

\* Answer, after setLocalDescription.
AnswerMade(g) ==
  LET late == g.awaits = "lateAnswer"
  IN  [UpdateRemoteId(g, g.partner)
         EXCEPT !.awaits = "nothing", !.enabled = @ \ {"answer"},
                !.signal = IF late THEN @ ELSE "stable",
                !.media  = IF late THEN @ ELSE g.partner]

\* What becomes of the async function under way when a new offer comes in: it
\* is rejected, unless its own description was already being set.
Overtaken(awaits) ==
  {"nothing"} \cup (IF awaits = "call" THEN {"call"}
                    ELSE IF awaits = "nothing" THEN {} ELSE {"lateAnswer"})

\* Seeded fault: a page that is Calling takes the caller's id and goes on
\* calling.
CallReceivedBusy(g, from, awaits) ==
  IF g.state = "Calling" THEN [g EXCEPT !.partner = from]
  ELSE [SetCallState([g EXCEPT !.partner = from], "Ringing")
          EXCEPT !.signal = "remoteOffer", !.awaits = awaits]

\* OnCallMessage
CallReceived(g, from, awaits) ==
  [SetCallState([g EXCEPT !.partner = from], "Ringing")
     EXCEPT !.signal = "remoteOffer", !.awaits = awaits]

\* OnAnswerMessage: setRemoteDescription is rejected without a local offer.
AnswerReceived(g, from) ==
  IF g.signal = "localOffer" THEN [g EXCEPT !.signal = "stable", !.media = from] ELSE g

\* DetectVanishedSession: remote_id is what is looked for in the list.
Vanished(g, sessions) == g.state # "Idle" /\ g.remote \notin sessions

\* Seeded fault: the page lists itself.
SessionsReceivedWithSelf(g, p, sessions) ==
  LET h == IF Vanished(g, sessions) THEN EndCall([g EXCEPT !.remote = None]) ELSE g
  IN  [h EXCEPT !.rows = sessions]

\* OnSessionsChangedMessage, on the page p.
SessionsReceived(g, p, sessions) ==
  LET h == IF Vanished(g, sessions) THEN EndCall([g EXCEPT !.remote = None]) ELSE g
  IN  [h EXCEPT !.rows = sessions \ {p}]
=============================================================================
