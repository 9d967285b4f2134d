----------------------------- MODULE SessionServer -----------------------------
(***************************************************************************)
(* The signaling server: mgws (the C++ wrapper), SessionManager, Session   *)
(* and Peer, driven by one thread that calls mg_mgr_poll for ever.         *)
(*                                                                         *)
(* A connection is its mg_connection.id.  Ids are handed out by ++nextid   *)
(* and a new connection is put at the head of mgr->conns, so the list is   *)
(* always sorted by decreasing id; it is kept here as the set conns, whose *)
(* head is its greatest element and where c->next is the greatest id below *)
(* c.  The listening socket is connection 1 and stays at the tail.         *)
(*                                                                         *)
(* Time is abstracted: when the poll timer fires, any of the sessions it   *)
(* visits may be found overdue (Session::OnTimerEvent).  HeartbeatServer   *)
(* puts the clock back.                                                    *)
(***************************************************************************)
EXTENDS Integers

CONSTANTS
  MaxId,    \* bound on connection ids: the run accepts MaxId - 1 connections
  Names,    \* user names a client may announce
  NoName,   \* the empty m_userName of a new Session
  IdMod     \* 2^32 in the code: a SessionID_t is the connection id modulo IdMod

ASSUME MaxIdAssumption  == MaxId \in Nat \ {0}
ASSUME IdModAssumption  == IdMod \in Nat \ {0}
ASSUME NoNameAssumption == NoName \notin Names

VARIABLES
  nextid,     \* mgr->nextid
  conns,      \* mgr->conns
  http,       \* connections whose pfn is http_cb, or static_cb which restores it
  websocket,  \* connections with is_websocket
  attached,   \* connections whose fn_data is the m_ctx of a Session
  draining,   \* connections with is_draining
  closing,    \* connections with is_closing
  unsent,     \* connections with send.len > 0
  live,       \* connections whose latest Session has not been deleted
  userName,   \* m_userName of each Session
  roster,     \* the last SessionsChanged list sent to each Session
  told,       \* history: the sessions the latest UpdateSessionsList visited,
              \* none of which has been replaced since
  cur,        \* the connection mg_mgr_poll is visiting; 0 between two polls
  fault       \* what the process died of, "none" while it runs

vars == <<nextid, conns, http, websocket, attached, draining, closing, unsent,
          live, userName, roster, told, cur, fault>>

Id       == 1 .. MaxId
Listener == 1

(***************************************************************************)
(* Sessions and their ids                                                  *)
(***************************************************************************)
\* Seeded fault: the cast keeps one bit only.
GetIdOneBit(c) == c % 2

GetId(c) == c % IdMod

SessionIds == {GetId(c) : c \in Id}

\* std::stoi of the id's decimal text throws unless it fits in an int.
Parses(sid) == sid < IdMod \div 2

\* SessionManager::Iterate over the list cs: it walks from the head and
\* returns at the first connection that is not a websocket or has no Session.
Iterated(cs) == {c \in cs : \A b \in cs : b >= c => b \in websocket \cap attached}

\* GetSessionById: the last match of the walk wins, the one with the least
\* connection id; 0 is the null pointer.
NullSession == 0
GetSessionById(sid) ==
  LET matches == {s \in Iterated(conns) : GetId(s) = sid}
  IN  IF matches = {} THEN NullSession
                      ELSE CHOOSE s \in matches : \A t \in matches : s <= t

\* UpdateSessionsList over the list cs, with the names nm and the Session
\* objects lv: every session the walk visits is sent the list of all of them.
\* A Session object that is visited after its deletion is a use after free.
UpdateSessionsList(cs, nm, lv) ==
  LET seen == Iterated(cs)
      list == {<<GetId(s), nm[s]>> : s \in seen}
  IN  /\ told'   = seen
      /\ roster' = [s \in Id |-> IF s \in seen THEN list
                                 ELSE IF s \in cs THEN roster[s] ELSE {}]
      /\ fault'  = IF seen \subseteq lv THEN fault ELSE "freedSession"

(***************************************************************************)
(* The poll loop                                                           *)
(***************************************************************************)
Running == fault = "none"

\* for (c = mgr->conns; c != NULL; c = tmp): the connection visited after c.
\* Only the visited connection is ever removed, and new ones go to the head,
\* so the successor saved before the visit is the one found after it.
MoveOnFrom(c) ==
  \E n \in conns \cup {0} :
     /\ n < c
     /\ \A d \in conns : d < c => d <= n
     /\ cur' = n

\* timer_event: sessions that are overdue are marked, the others are pinged.
TimerEvent ==
  \E overdue \in SUBSET Iterated(conns) :
     /\ closing' = closing \cup overdue
     /\ unsent'  = unsent \cup (Iterated(conns) \ overdue)
     /\ fault'   = IF Iterated(conns) \subseteq live THEN fault ELSE "freedSession"

TimerIdle == UNCHANGED <<closing, unsent, fault>>

\* mg_mgr_poll: the timers are polled once, then the walk begins.
PollStart ==
  /\ Running
  /\ cur = 0
  /\ MoveOnFrom(MaxId + 1)
  /\ \/ TimerIdle
     \/ TimerEvent
  /\ UNCHANGED <<nextid, conns, http, websocket, attached, draining, live,
                 userName, roster, told>>

\* accept_conn and MG_EV_ACCEPT: at most one connection per poll; when
\* mg_tls_init fails, mg_error marks it closing.
Accept(tlsInitFails) ==
  /\ nextid < MaxId
  /\ nextid' = nextid + 1
  /\ conns' = conns \cup {nextid'}
  /\ http' = http \cup {nextid'}
  /\ closing' = IF tlsInitFails THEN closing \cup {nextid'} ELSE closing

VisitListener ==
  /\ Running
  /\ cur = Listener
  /\ MoveOnFrom(Listener)
  /\ \/ \E tlsInitFails \in BOOLEAN : Accept(tlsInitFails)
     \/ UNCHANGED <<nextid, conns, http, closing>>
  /\ UNCHANGED <<websocket, attached, draining, unsent, live, userName,
                 roster, told, fault>>

\* What every event of the connection being visited requires: mg_mgr_poll
\* does nothing with a connection that is already closing.
Reading(c) == Running /\ cur = c /\ c # Listener /\ c \notin closing

\* read_conn or write_conn meets the end of the stream, a reset or an error; or
\* mg_error is called for what http_cb or mg_ws_cb cannot parse.
IoFails(c) ==
  /\ Reading(c)
  /\ closing' = closing \cup {c}
  /\ UNCHANGED <<nextid, conns, http, websocket, attached, draining, unsent, live,
                 userName, roster, told, cur, fault>>

\* The end of a visit: what write_conn left to send.
Written == {unsent} \cup (IF cur \in closing THEN {} ELSE {unsent \ {cur}})

\* Seeded fault: a closing connection is kept until its data is sent.
ClosesWhenSent(rest) == cur \in closing \cup draining /\ cur \notin rest

\* The visited connection closes at once when marked, or once drained.
ClosesNow(rest) == cur \in closing \/ (cur \in draining /\ cur \notin rest)

\* The visited connection stays open.
KeepConn ==
  /\ Running
  /\ cur \notin {0, Listener}
  /\ \E rest \in Written : ~ClosesNow(rest) /\ unsent' = rest
  /\ MoveOnFrom(cur)
  /\ UNCHANGED <<nextid, conns, http, websocket, attached, draining, closing, live,
                 userName, roster, told, fault>>

\* Seeded faults: the Session outlives its connection; the list is updated
\* while the connection is still in it; the others are not told.
DeleteSessionLeaks(rest) ==
  /\ UpdateSessionsList(conns \ {cur}, userName, live \ {cur})
  /\ unsent' = (rest \cup Iterated(conns \ {cur})) \ {cur}
  /\ live' = live
DeleteSessionStillListed(rest) ==
  /\ UpdateSessionsList(conns, userName, live \ {cur})
  /\ unsent' = (rest \cup Iterated(conns)) \ {cur}
  /\ live' = live \ {cur}
DeleteSessionSilently(rest) ==
  /\ unsent' = rest \ {cur}
  /\ live' = live \ {cur}
  /\ UNCHANGED <<roster, told, fault>>

\* DeleteSession on MG_EV_CLOSE: the object is freed, then the sessions still
\* reached are sent the new list.  The connection has left the list before.
DeleteSession(rest) ==
  /\ UpdateSessionsList(conns \ {cur}, userName, live \ {cur})
  /\ unsent' = (rest \cup Iterated(conns \ {cur})) \ {cur}
  /\ live' = live \ {cur}

\* MG_EV_CLOSE of a connection without a Session.
CloseBare(rest) ==
  /\ unsent' = rest \ {cur}
  /\ UNCHANGED <<live, roster, told, fault>>

\* Seeded fault: the id's draining mark survives the connection.
FreeConnDraining ==
  /\ conns' = conns \ {cur}
  /\ http' = http \ {cur}
  /\ websocket' = websocket \ {cur}
  /\ attached' = attached \ {cur}
  /\ closing' = closing \ {cur}
  /\ userName' = [userName EXCEPT ![cur] = NoName]
  /\ UNCHANGED draining

\* LIST_DELETE, and the connection's memory zeroed and freed.
FreeConn ==
  /\ conns' = conns \ {cur}
  /\ http' = http \ {cur}
  /\ websocket' = websocket \ {cur}
  /\ attached' = attached \ {cur}
  /\ draining' = draining \ {cur}
  /\ closing' = closing \ {cur}
  /\ userName' = [userName EXCEPT ![cur] = NoName]

\* close_conn and mg_close_conn.  SessionManager::fn has MG_EV_CLOSE first; then
\* http_cb serves what is left in the buffer.  The Session of a /websock it finds
\* there is leaked: the connection that points to it is freed.
CloseConn ==
  /\ Running
  /\ cur \notin {0, Listener}
  /\ FreeConn
  /\ MoveOnFrom(cur)
  /\ \E rest \in Written :
        /\ ClosesNow(rest)
        /\ IF cur \in attached THEN DeleteSession(rest) ELSE CloseBare(rest)
  /\ UNCHANGED nextid

\* A request, or what is none, that http_cb finds there when the connection had
\* a Session is an event with the m_ctx of the Session just deleted.  Going on
\* as CloseConn does is one outcome; this is the other.
CloseOnRequest ==
  /\ Running
  /\ cur \in http \cap attached
  /\ \E rest \in Written : ClosesNow(rest)
  /\ fault' = "freedContext"
  /\ UNCHANGED <<nextid, conns, http, websocket, attached, draining, closing, unsent,
                 live, userName, roster, told, cur>>

(***************************************************************************)
(* HTTP requests of the visited connection.  http_cb goes on over its      *)
(* buffer behind a /websock too, until a file is served or the buffer is   *)
(* done, whoever is the connection's protocol handler by then.             *)
(***************************************************************************)
Requesting(c) == Reading(c) /\ c \in http

\* Any URI but /websock: mg_http_serve_dir replies.  The connection stays open
\* and with http_cb, to which static_cb returns it (ConnStream has the streaming
\* of the file); a HEAD of a file makes it drain.
HttpServe(c, isHead) ==
  /\ Requesting(c)
  /\ unsent'   = unsent \cup {c}
  /\ draining' = IF isHead THEN draining \cup {c} ELSE draining
  /\ UNCHANGED <<nextid, conns, http, websocket, attached, closing, live, userName,
                 roster, told, cur, fault>>

\* The kinds of requests that make a difference to a buffer with a /websock: a
\* /websock has a Sec-WebSocket-Key, or is refused with 426 and drained, and
\* mg_ws_cb takes over all the same.
HttpKinds == {"upgrade", "upgrade without key", "head", "file"}
Upgrades  == {"upgrade", "upgrade without key"}

\* AddSession: the new Session, nameless, takes the connection's fn_data, and its
\* SessionID message follows the reply into the send buffer.  The Session that
\* had the fn_data before, if there was one, is leaked: no walk, lookup or close
\* meets it again.
AddSession(c) ==
  /\ attached' = attached \cup {c}
  /\ live'     = live \cup {c}
  /\ userName' = [userName EXCEPT ![c] = NoName]
  /\ told'     = IF c \in told THEN {} ELSE told
  /\ unsent'   = unsent \cup {c}

\* A buffer with at least one /websock, of the requests in asked: each upgrade
\* adds a Session, accepted or not, and a file, which is the last, puts http_cb
\* back in charge.
HttpUpgrade(c, asked) ==
  /\ Requesting(c)
  /\ asked \cap Upgrades # {}
  /\ websocket' = websocket \cup {d \in {c} : "upgrade" \in asked}
  /\ draining'  = draining \cup {d \in {c} : asked \cap {"upgrade without key", "head"} # {}}
  /\ http'      = http \ {d \in {c} : "file" \notin asked}
  /\ AddSession(c)
  /\ UNCHANGED <<nextid, conns, closing, roster, cur, fault>>

(***************************************************************************)
(* Websocket frames: mg_ws_cb parses whatever an upgraded connection       *)
(* sends, whether the upgrade was accepted or refused.                     *)
(***************************************************************************)
Framed(c) == Reading(c) /\ c \in attached \ http

\* A CLOSE frame is echoed and the connection drains.
WsClose(c) ==
  /\ Framed(c)
  /\ draining' = draining \cup {c}
  /\ unsent'   = unsent \cup {c}
  /\ UNCHANGED <<nextid, conns, http, websocket, attached, closing, live,
                 userName, roster, told, cur, fault>>

\* Heartbeat: echoed, whatever sessionId it carries.
Heartbeat(c) ==
  /\ Framed(c)
  /\ unsent' = unsent \cup {c}
  /\ UNCHANGED <<nextid, conns, http, websocket, attached, draining, closing, live,
                 userName, roster, told, cur, fault>>

\* ICECandidate, Call, Answer, Hangup: sent on to the session named by
\* targetId, dropped without a word when there is none.
OnForwardMessage(c, targetId) ==
  /\ Framed(c)
  /\ Parses(targetId)
  /\ GetSessionById(targetId) # NullSession
  /\ unsent' = unsent \cup {GetSessionById(targetId)}
  /\ UNCHANGED <<nextid, conns, http, websocket, attached, draining, closing, live,
                 userName, roster, told, cur, fault>>

\* Seeded fault: the message's id is trusted and names the session to update.
OnLocalIdEventTrusting(c, sessionId, name) ==
  /\ Framed(c)
  /\ Parses(sessionId)
  /\ LET session == GetSessionById(sessionId)
         named   == [userName EXCEPT ![session] = name]
     IN  /\ session # NullSession
         /\ userName' = named
         /\ UpdateSessionsList(conns, named, live)
         /\ unsent' = unsent \cup {c} \cup Iterated(conns)
  /\ UNCHANGED <<nextid, conns, http, websocket, attached, draining, closing, live,
                 cur>>

\* Seeded fault: the list is sent before the name is set.
OnLocalIdEventToldFirst(c, sessionId, name) ==
  /\ Framed(c)
  /\ sessionId = GetId(c)
  /\ Parses(sessionId)
  /\ LET session == GetSessionById(sessionId)
     IN  /\ session # NullSession
         /\ userName' = [userName EXCEPT ![session] = name]
         /\ UpdateSessionsList(conns, userName, live)
         /\ unsent' = unsent \cup {c} \cup Iterated(conns)
  /\ UNCHANGED <<nextid, conns, http, websocket, attached, draining, closing, live,
                 cur>>

\* LocalIdEvent: ignored unless it carries the session's own id; UpdateSession
\* looks that id up again and uses the result without a test.
OnLocalIdEvent(c, sessionId, name) ==
  /\ Framed(c)
  /\ sessionId = GetId(c)
  /\ Parses(GetId(c))
  /\ LET session == GetSessionById(GetId(c))
         named   == [userName EXCEPT ![session] = name]
     IN  IF session = NullSession
           THEN /\ fault' = "nullSession"
                /\ UNCHANGED <<userName, roster, told, unsent>>
           ELSE /\ userName' = named
                /\ UpdateSessionsList(conns, named, live)
                /\ unsent' = unsent \cup {c} \cup Iterated(conns)
  /\ UNCHANGED <<nextid, conns, http, websocket, attached, draining, closing, live,
                 cur>>

(***************************************************************************)
(* The specification                                                       *)
(***************************************************************************)
Init ==
  /\ nextid = Listener
  /\ conns = {Listener}
  /\ http = {} /\ websocket = {} /\ attached = {}
  /\ draining = {} /\ closing = {} /\ unsent = {}
  /\ live = {}
  /\ userName = [s \in Id |-> NoName]
  /\ roster = [s \in Id |-> {}]
  /\ told = {}
  /\ cur = 0
  /\ fault = "none"

Visit(c) ==
  /\ Reading(c)
  /\ \/ IoFails(c)
     \/ \E isHead \in BOOLEAN : HttpServe(c, isHead)
     \/ \E asked \in SUBSET HttpKinds : HttpUpgrade(c, asked)
     \/ WsClose(c)
     \/ Heartbeat(c)
     \/ \E targetId \in SessionIds : OnForwardMessage(c, targetId)
     \/ \E sessionId \in SessionIds, name \in Names : OnLocalIdEvent(c, sessionId, name)

Next ==
  \/ PollStart
  \/ VisitListener
  \/ \E c \in Id : Visit(c)
  \/ KeepConn
  \/ CloseConn
  \/ CloseOnRequest

Spec == Init /\ [][Next]_vars

(***************************************************************************)
(* Properties                                                              *)
(***************************************************************************)
\* The type invariant; flags are kept for listed connections only.
TypeOK ==
  /\ nextid \in Id
  /\ conns \subseteq 1 .. nextid
  /\ Listener \in conns
  /\ http \subseteq conns
  /\ websocket \subseteq attached
  /\ attached \subseteq conns
  /\ draining \subseteq conns
  /\ closing \subseteq conns
  /\ unsent \subseteq conns
  /\ live \subseteq Id
  /\ userName \in [Id -> Names \cup {NoName}]
  /\ roster \in [Id -> SUBSET (Nat \X (Names \cup {NoName}))]
  /\ told \subseteq Id
  /\ cur \in conns \cup {0}
  /\ fault \in {"none", "nullSession", "freedSession", "freedContext"}

\* The Session that an open connection's fn_data points to is alive as long as
\* the connection is in the list, whoever else joins, leaves or upgrades again,
\* and SessionManager frees it when the connection closes.  It does not say that
\* no Session is leaked: what a second /websock replaces, or MG_EV_CLOSE adds, has
\* no connection any more, and ConnStream counts it.
SessionOwnership == live = attached

\* No walk of the list (timer, lookup, broadcast) reaches a Session that has
\* been deleted, although DeleteSession broadcasts while its own connection is
\* being closed.
NoFreedSession == fault # "freedSession"

\* After any sequence of joins, renames and departures, the sessions the latest
\* SessionsChanged reached are alive and each holds the same list: exactly
\* themselves, under the names they have now.
RosterExact ==
  /\ told \subseteq live
  /\ \A w \in told : roster[w] = {<<GetId(s), userName[s]>> : s \in told}

\* A message addressed to an entry of such a list reaches the session of that
\* name or nobody: ids are not reused and the lookup never picks another.
RosterRoutes ==
  \A w \in told : \A e \in roster[w] :
     LET target == GetSessionById(e[1])
     IN  target = NullSession \/ userName[target] = e[2]

\* A newcomer never gets an id that a list some session still holds gives to
\* another, one that has left included: what is sent by an outdated list reaches
\* nobody, never a stranger.
FreshIds ==
  [][\A s \in live' \ live : \A w \in live : \A e \in roster[w] : e[1] # GetId(s)]_vars

\* Only the session's own connection changes its user name: by a LocalIdEvent, or
\* by a second /websock, which makes it nameless again.
NameOwnership ==
  [][\A s \in live \cap live' : userName'[s] # userName[s] => cur = s]_vars

\* What clients see of the server is a registry: each step is a join, a second
\* join under the same id, a new name, a departure or nothing, those who stay keep
\* their names and lists, and who is told of a departure is told of nobody who has
\* left.
Registry == INSTANCE SessionRegistry
              WITH Client <- Id, Key <- [c \in Id |-> GetId(c)],
                   members <- live, name <- userName, list <- roster

ImplementsRegistry == Registry!Spec

\* The connections and the loop over them are those that ConnList implements.
Connections == INSTANCE ConnSet

ImplementsConnSet == Connections!Spec

\* mgws::infinite_loop: the loop goes on, and each visit ends, since it makes
\* at most one read.
Fairness ==
  /\ WF_vars(PollStart)
  /\ WF_vars(VisitListener)
  /\ WF_vars(KeepConn)
  /\ WF_vars(CloseConn)

FairSpec == Spec /\ Fairness

\* A connection marked closing (a vanished client, an I/O error, a failed
\* handshake) is closed, whatever the others send and how many more connect.
ClosingCloses ==
  \A c \in Id : c \in closing ~> (c \notin conns \/ ~Running)

(***************************************************************************)
(* What the comments of the code promise and the code does not keep        *)
(***************************************************************************)
\* session.h:7, "The class provides basic session id, user name": announcing a
\* name on a websocket finds its session.
NameHasSession == ~(fault = "nullSession" /\ cur \in websocket)

\* ui.js:107, "Rebuild local table UI from scratch when table changes": no
\* session keeps a table with a session that has left.
NoDepartedListed ==
  \A w \in live : \A e \in roster[w] : \E s \in live : GetId(s) = e[1]
=============================================================================
