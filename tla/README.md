# A TLA+ model of mgws

mgws is a C++ wrapper around the Mongoose web server. On top of it the
repository builds a WebRTC signaling server (`apps/webrtc`) and the web page
that uses it (`www/mgws`). This directory models the parts that have state: the
server's connections, from the bytes they carry up to the sessions on them, its
heartbeat, the call protocol between pages, and one page with its heartbeat and
its ringing.

## The system

| part | state | operations | talks to |
|---|---|---|---|
| byte stream: `http_cb`, `static_cb`, `mg_ws_cb` | the receive and send buffers of a connection, the parser in force, the offset of a fragmented message | parse requests and frames, stream a file, upgrade | the socket below, the event handlers above |
| poll loop: `mgws::infinite_loop`, `mg_mgr_poll` | the list `mgr->conns`, each connection's flags and send buffer, the timer | poll the timers, accept, read, write, drain, close | calls `SessionManager::fn` for every event |
| `SessionManager` | none of its own: it walks `mgr->conns` and reads the `Session` pointer in each `fn_data` | `AddSession`, `DeleteSession`, `UpdateSession`, `GetSessionById`, `Iterate`, `UpdateSessionsList`, `timer_event` | the sessions |
| `Session` | connection, user name, time of the last PONG | `OnTimerEvent`, `OnControlMessage`, `Send`, `GetId` | its connection's send buffer and closing flag |
| `Peer` (a `Session`) | dispatch table | `OnLocalIdEvent`, `OnForwardMessage`, `OnHeartbeat`, `OnRegisterSession` | the manager, other sessions |
| page: `peer.js`, `ui.js` | call state, `remote_id`, `peer_remote_id`, `pc`, the buttons, the table | `Call`, `Answer`, `Hangup`, `EndCall`, one handler per message, row selection | the server over a websocket, the browser's WebRTC |
| page: `pulse.js`, `websock.js` | missed heartbeats, the interval | `BeginHeartbeat`, `PulseDetected`, `heartbeat` | the server, the buttons |
| page: `audio.js` | the last source of each sound | `play`, `stop` | the call state |
| `main.cpp`, `index.js`, `local.js`, enrolment, theme | start-up only | | |

The server is one thread. What makes it hard is not preemption but order: the
handlers run in the middle of a walk over the connection list, they walk the
list themselves, and one of them frees the object it was called on. The walk
that finds sessions stops at the first connection that is not a websocket, so
what a handler sees depends on connections that have nothing to do with it.
Below that, a connection is a stream that TCP cuts anywhere, read by a parser that
changes in the middle of it.
The page is single-threaded too, but `Call` and `Answer` suspend at their
`await`s, messages of other pages arrive in between, and every page sees the
others late. Nothing is stored: there is no recovery to model (`sqlite3` is
linked and never called).

What makes each part correct:

- *byte stream*: every request answered and every message heard, whole, once and
  in order, wherever the stream is cut;
- *connection list*: every connection visited, none of them after it was freed;
- *sessions*: freed once, with their connection, and not used after; an id read
  from a list never reaches somebody else; only its owner changes a name;
- *lists*: those who are sent a list hold the same one and are themselves in it;
- *closing*: a connection that is to be closed is closed;
- *heartbeat*: PINGs go out at a steady pace, silence is found out in the end,
  and nobody is declared vanished who has not been asked;
- *calls*: ended calls leave nothing behind, buttons fit the state, a caller
  looks for the right session in the lists and is not left calling nobody;
- *pulse*: a lost or silent server is found out, a prompt one is never given up,
  and what the verdict took away stays away;
- *ringing*: a call that waits is heard, and a call that is over falls silent.

## The modules

| module | what it is |
|---|---|
| `ConnStream` | one connection: buffers, HTTP and websocket parsers, static files |
| `MessageChannel` | abstract: a channel that hears every message once, in order |
| `ConnList` | the linked list of connections and the loops over it |
| `ConnSet` | abstract: a set of connections, and one walk over it |
| `SessionServer` | poll loop, `SessionManager`, `Session`, `Peer` |
| `SessionRegistry` | abstract: members who join, take names, leave and are told |
| `HeartbeatServer` | extends `SessionServer` with timer, PINGs, PONGs and time |
| `Page` | what each function of `peer.js` and `ui.js` does to a page |
| `CallSignaling` | extends `Page`: several pages and the messages between them |
| `Pulse`, `Ringer` | `pulse.js` and `websock.js`; `audio.js` |
| `PageClient` | extends `Page`, `Pulse` and `Ringer`: one page as a whole |
| `MC...` | the symmetry sets for TLC |
| `...Proofs` | the theorems |

How they fit together:

    MessageChannel <= ConnStream        bytes; gives SessionServer whole messages
    ConnSet        <= ConnList          memory; gives SessionServer a set to walk
    ConnSet        <= SessionServer     which uses that set as ConnSet allows
    SessionRegistry <= SessionServer <= HeartbeatServer
    Page -> CallSignaling               pages among each other
    Page + Pulse + Ringer -> PageClient a page against any environment

where `A <= B` is a refinement, stated as a property of `B` and checked or proved.

### ConnStream

A buffer is a sequence of cells: two for a request; for a frame one for its first
byte, one for its length and one for each part of the payload, so that every
place where a read may end is there. `c` is the `mg_connection`, `at` the place
in the visit of `mg_mgr_poll`, `loop` the parser at work, and each turn of a
parser's loop is a step.

| action | code |
|---|---|
| `Poll`, `Read`, `Write`, `End` | the parts of a visit: `mg_iotest` and `MG_EV_POLL`, `read_conn`, `write_conn`, the closing tests with `MG_EV_CLOSE` |
| `HttpMessage`, `HttpGarbled`, `HttpDone` | one turn of the loop of `http_cb`, its error, its end |
| `WsFrame`, `WsDone` | one turn of the loop of `mg_ws_cb`, and its end; `Unmasked`, `Controlled`, `Stripped` are its parts |
| `WsGarbled` | `mg_ws_cb` given a request: its opcode does not exist |
| `StaticCb`, `Served` | `static_cb` with `restore_http_cb`; what a request does |
| `Notified`, `AddSession` | what `SessionManager::fn` makes of an event: with the `m_ctx` of a deleted Session (`stale`), or a new Session |
| `Ask`, `Say`, `Control`, `HangUp` | the client |

The client speaks HTTP and websocket as browsers do, but may be *early*: send
something before it has the reply to its last request. The code does not serve
such a client well, and the properties say which of them are about all clients.
A request behind a file that ends on `MG_EV_WRITE` waits until more is read.
Frames in the read of the upgrade request wait likewise, and those that come
before it is processed are taken for HTTP. The loop of `http_cb` goes on behind a
`/websock`: a second one makes a second Session and leaks the first, and a file
gives the connection back to `http_cb`, which `MG_EV_CLOSE` then calls, after
`SessionManager` has deleted the Session, with what is left in the buffer. An
upgrade request still buffered at the close makes a session that is never
deleted. A request that comes after the upgrade was processed is taken for a
frame, and the connection is closed. `session` counts the sessions created and
deleted, and `stale` records an event with a deleted one. A refused upgrade is in
`SessionServer`. Left out: header fields, bodies, Range, If-None-Match,
directory lists and SSI, a HEAD behind an upgrade (`mg_ws_cb` would read it as a
CLOSE frame) and whatever else `mg_ws_cb` makes of a buffer of requests, unknown
opcodes otherwise, out-of-memory.

### ConnList

The pointers as they are: `head`, `next`, `c` and `tmp` of `mg_mgr_poll`, `h` of
`LIST_DELETE`, `it` of `SessionManager::Iterate`; `memory` holds what is
allocated. What a handler decides is left open: any visit may mark its
connection (`Mark`), any handler may walk the list and stop anywhere (`Iterate`,
`IterateNext`, `IterateReturn`), from a timer, in a visit, or in the
`MG_EV_CLOSE` of a connection already unlinked. `ConnSet` is what remains when
the pointers are forgotten: each walk visits the open connections once, youngest
first, whatever is accepted and closed on the way.

### SessionServer

A connection is its `mg_connection.id`. Ids are handed out by `++nextid` and
`LIST_ADD_HEAD` puts a new connection first, so the list is sorted by
decreasing id; the module keeps it as the set `conns`, where `c->next` is the
greatest id below `c`. Connection 1 is the listener and stays last. The flags
of a connection are sets (`websocket`, `draining`, `closing`, `unsent` for
`send.len > 0`, `http` where `http_cb` is the protocol handler), and `attached`
holds the connections whose `fn_data` points into a `Session`. A Session has its
connection's id, so `live` holds those whose latest Session is allocated; that it
equals `attached` is a property. `cur` is the connection being visited.

| action | code |
|---|---|
| `PollStart` | `mg_timer_poll`, then the head of the list; `TimerEvent` is `SessionManager::timer_event` |
| `VisitListener`, `Accept` | `accept_conn`, `MG_EV_ACCEPT` with its TLS set-up |
| `HttpServe`, `HttpUpgrade` | `MG_EV_HTTP_MSG`: a file or its header; a whole buffer of requests with one or more `mg_ws_upgrade`, each followed by `AddSession`, and whatever `http_cb` finds behind them |
| `Heartbeat`, `OnForwardMessage`, `OnLocalIdEvent`, `WsClose` | one text or CLOSE frame |
| `IoFails` | `iolog` with an error or the end of the stream |
| `KeepConn`, `CloseConn` | the end of a visit: `write_conn`, then the draining and closing tests, `close_conn`, `MG_EV_CLOSE`, `DeleteSession`, `free` |
| `CloseOnRequest` | `MG_EV_CLOSE` where `http_cb` has a request left to deliver, with the `m_ctx` of the Session just deleted |

`Iterated` is `SessionManager::Iterate` with its early returns.
`UpdateSessionsList` sends every visited session the list of all of them; it
fails (`fault`) when the walk reaches a deleted object. `OnLocalIdEvent` fails
when `UpdateSession` dereferences a lookup that found nothing. A second
`/websock` on a connection replaces its Session by a nameless one; the replaced
Session is leaked, and no handler meets it again. `SessionRegistry` is what a
client can rely on: whoever takes a name is told a list that contains it, a
departure is told to some of those who stay, all who are told hold the same list,
and it names only those told. That it is only *some* is the finding
`server_stale_roster`. After a fault the process is gone and no action is
enabled, which is why the configurations switch the deadlock check off.

Abstractions. A message is sent by its receiver's buffer becoming non-empty;
its text matters only for the list. Between two visits of a connection any
number of its frames may be handled in one visit, in any order. A client may
send frames after a refused upgrade, as `mg_ws_upgrade` replaces `pfn` before
it looks at the key. Messages that are only logged, cannot be parsed, or are
caught as exceptions change nothing and have no action. Using a deleted Session's
`m_ctx` (`mgws.cpp:72-75`) is undefined: the process dies (`CloseOnRequest`), or
goes on as if the event had not been there. An HTTP message delivered during the
close of a connection without a Session changes nothing that is left after it,
but for the Session a `/websock` leaks, which `ConnStream` counts. Left out:
unknown websocket opcodes other than as an error (`IoFails`), PINGs from the
client.

### HeartbeatServer

Times are relative to now. `due` is `t->expire - now`, `age` the time since
each session's last PONG, `gap` the time since the last poll. `Tick` lets one
unit pass anywhere, in the sleep of `epoll_wait` (at most `Period`) or in the
handlers of a poll (together at most `Busy`). `Expiry` and `Rearm` are the four
lines of `mg_timer_expired`. The actions of `SessionServer` are reused: those
that create, answer or close a session also set its clock, the others leave the
clock alone. `pings` and `skipped` are history: the PINGs sent since the last
PONG, and the sessions the timer's walk did not reach since then.

### Page and CallSignaling

A page is a record: call state, `remote_id` (`remote`), `peer_remote_id`
(`partner`), the signaling state of `pc`, whose answer it holds (`media`),
whether the tracks were added, the async function under way, the enabled
buttons and the rows of the table. Each function of `peer.js` and `ui.js` that
changes it is an operator from page to page, and the actions say when it runs.

`Call` and `Answer` are cut at their awaits: `Call` and `SendCall`, `Answer`
and `SendAnswer`; the second half reads `peer_remote_id` again, as the code
does. `EndCall` closes `pc`, whose pending promises then never settle: the
second half of what was under way does not run. WebRTC is modelled from its
specification: `createOffer` is rejected while a remote offer is pending, an
incoming offer rolls a local one back, an answer without a local offer is
rejected, `addTrack` throws for a track already added. An offer that arrives
during an `await` either makes it fail or comes after it (`Overtaken`).

The server is what `SessionServer` shows of it: a message reaches the session
it names or nobody (`RosterRoutes`), and a broadcast reaches the sessions the
walk reaches. A frame goes straight into the receiver's `inbox`: the server
handles a frame in one step and keeps the order of each connection, so a delay
on the way up only postpones what the sender does next.

`Reselects`, `Churns`, `Hiding` and `Callers` say what users and server do in a
run: select rows during a call, rebroadcast and leave, miss sessions, press
Call. Assumed: the camera was granted, and a user does not press Call or Answer
again within the milliseconds the first press takes. Left out: ICE candidates,
whose only effect on the call is the "connected" event, which may come whenever
both descriptions are set; a page that has lost its server, which is in
`PageClient`.

### Pulse, Ringer and PageClient

`Pulse` counts beats: `Heartbeat` is one turn of the interval's function,
`PulseDetected` an echo, `Close` the loss of the socket, which the next beat
finds. `pending` counts the beats whose echo is due and saturates at
`MaxPending`; `prompt` is history: no beat has waited longer than `Latency`
intervals for its echo.

`Ringer` has, for each of the two sounds, the source that `stop` knows
(`latest`), the sources played before that still sound (`older`), and the ended
ones whose `onended` has yet to run. `Rung` is what `UpdateCallStateUI` plays and
stops; `OnEnded` plays the sound again unless the state is Idle or Connected.

`PageClient` puts the handlers of `Page` together with both. The server and the
other pages are any environment: every frame may come at any time, before the
first list or after a hangup, more than `CallSignaling` ever sends, which makes
its safety properties stronger. The verdicts of `Pulse` act on the page
(`GivenUp`): they empty the table and disable the buttons, and leave the call as
it is.

## The runs

| run | checks | bounds |
|---|---|---|
| `server_safety` | `TypeOK`, `SessionOwnership`, `NoFreedSession`, `RosterExact`, `RosterRoutes`, `FreshIds`, `NameOwnership`, `ImplementsRegistry` | 3 connections, 2 names, symmetric |
| `heartbeat_safety` | `TimedTypeOK`, `PingPacing`, `VanishVerdict`, `ImplementsServer` | 2 connections, period 1, busy 1, verdict after 3 |
| `heartbeat_liveness` | `SilentReaped`, `ClosingCloses` | 2 connections, no names, verdict after 1 |
| `call_safety` | `TypeOK`, `IdleIsClean`, `ButtonsFit`, `CallerWatchesCallee` | 3 pages, all may call, 2 presses, 1 frame per inbox, everything but hiding |
| `call_pair` | `CallerNotAlone` | 2 pages, one calls, no lists, 6 presses, 4 frames per inbox |
| `page` | `TypeOK`, `NoFalseVerdict`, `LostIsLost`, `Audible`, `SilentWhenOver`, `LossNoticed`, `SilenceNoticed`, `RingsDieOut` | 2 pages, 2 sources of a sound, verdict at 3 beats, latency 1 |
| `conn_stream` | `TypeOK`, `NeverRefused`, `RepliesInOrder`, `ContextAlive`, `SessionTaken`, `ImplementsChannel`, `Answered`, `MessagesHeard` | 2 requests, 3 frames, a file of 3 cells through a buffer of 2 |
| `conn_list` | `TypeOK`, `NoDangling`, `DeleteFinds`, `ImplementsSet`, `PollEnds` | 5 connections |

Why the bounds are enough. Three connections are, at once, a session that
leaves, one that is told and one that joins meanwhile; or a session that leaves,
a plain connection, and the older session it hides; ids are never reused, so a
departed session is followed by others. `IdMod` 16 is above every id, as 2^32 is
in the code; its half is where `std::stoi` gives up and is above every id too.
Time: with period and busy time 1 a poll can be late by one period and by two,
the two cases of `Rearm`; names play no part in the liveness of the server and
are left out there. Two presses of Call make a glare, a second offer, or a call
after a call; three pages make the third party. `call_pair` goes deeper for the
crossing messages of one pair. In `page`, two sources are one that `stop` knows
and one it does not; `MaxPending` 2 stands for "two or more", as only `Latency`
or fewer is ever asked. In `conn_stream`, the file takes several pieces and a
last one that is cut short; three frames are a message in two fragments with a
control frame between them, or in three, and can follow an upgrade that follows
a file; the receive limit, `MaxRecv`, is above any message of the client, as 3
MB is in the code, and below what a run could leave in the buffer if processed
cells stayed. In `conn_list` five connections besides the listener can close at
either end of the list, in its middle, next to each other, and at an accept. For
everything but liveness, the theorems below remove the bounds.

What the runs show beyond the words of the properties: `RosterExact` and
`RosterRoutes` hold although broadcasts are cut short, because those who are
sent a list are exactly those in it; whoever was not reached goes on with an
outdated list, whose departed entries lead to nobody (`FreshIds`).
`SessionOwnership` holds for buffers with any requests, while `ContextAlive` and
`SessionTaken` need a client that waits for its replies: the others can leak a
Session, or have a request handled with a deleted one. `VanishVerdict` says what
the ten periods of `session.h:30` buy: at 500 ms per period, when the handlers
of a poll take no more than a period, `MaxPace` is three periods, and at least
three PINGs have gone unanswered. `CallerNotAlone` holds for one caller, who may
press Call again while a call is out and cross hangups with the callee, between
two lists of the server; with lists it does not hold, which is the finding
`call_vanished`. `NoFalseVerdict` says what the limit of `pulse.js` buys: echoes
may be late by any number of beats below it. `RingsDieOut` holds although `stop`
forgets all but the last source: the others end of themselves and `onended` does
not play them again.

Four runs more show where the code departs from what it says; each ends in a
violation and is a finding in `PROJECT.json`:

- `server_hidden_rename`: a page that announces its name while a younger plain
  HTTP connection is open makes the server dereference a null pointer
  (`sessionmgr.cpp:106`);
- `server_stale_roster`: the walk's early return leaves sessions with a table
  that lists the departed (`sessionmgr.cpp:128`);
- `heartbeat_vanished`: a session hidden in the same way is declared vanished
  without having been sent a PING (`session.cpp:26`);
- `call_vanished`: a page that rings with no row selected drops the call at the
  next list, whatever it says (`ui.js:84`).

What the code does not keep and nothing in the repository promises has no
property: with two callers, a page can be left calling without having sent an
offer; after crossing hangups a callee can ring for an idle caller; a late
answer is taken for the answer to the next call; an offer goes to whoever
called last; a client that does not wait for its replies can be left unheard, and
can leak a Session or have one used after its deletion.
They are listed as hazards with a note.

## Fairness

`Fairness` of `SessionServer` is weak fairness of the loop's own steps:
`PollStart`, `VisitListener`, and the end of a visit, `KeepConn` or `CloseConn`.
`mgws::infinite_loop` has no exit, and a visit makes at most one read, so it
ends. No fairness is assumed of clients: no frame has to arrive, no connection
to close by itself, and `KeepConn` does not have to send anything.
`TimedFairness` adds that time passes. `SilentReaped` is about sessions the
walk goes on reaching: one hidden behind an idle plain connection is never
reaped, since Mongoose has no idle timeout.

`ConnStream` assumes that the server's steps go on, as the same loop provides;
the client need neither send nor hang up, and each `Write` passes on at least one
cell of what it has, which TCP does unless an end closes. `ConnList` assumes
that a handler's walk ends (`WF_vars(WalkStep)`) and that the steps of the poll
are not put off for ever by walks and marks in between (`SF_vars(PollStep)`): a
visit is a finite piece of code, in which each handler makes finitely many walks.
`PageClient` assumes that the browser runs the interval while it is set, that
sounds come to their end and that their `onended` is called. No fairness is
assumed of the server, of other pages or of the user.

## The proofs

`SessionServerProofs`, for any number of connections, set of names and id
width. `TypeOK` is inductive. The invariant of the other three is

    IInv == TypeOK /\ SessionOwnership /\ NoFreedSession /\ RosterExact

`NoFreedSession` needs `SessionOwnership`: a walk reaches only connections with
a session attached, and those are the live ones; in `DeleteSession` this holds
because the connection has left the list before the walk. `RosterExact` needs
the fact that sessions once told stay listed, or are told again when one of them
closes (`UpdateSessionsListExact`). `RostersRoute` and `NamesOwned` assume
`MaxId < IdMod`, without which two sessions may share an id, and so does
`IdsFresh`, which rests on lists naming only connections accepted so far, and of
those still open only ones with a Session (`Known`). The first two use
`OwnLookup`: a lookup by a session's id finds that session or nothing. The
lookup returns the least connection of the matches, whose existence
(`LeastExists`) rests on the well-foundedness of the naturals.

`RegistryImplemented` shows that the server is a `SessionRegistry` to its
clients: each step is a join, a second join, a new name, a departure or nothing
to them. The walk's reach is the set of those told, and `IInv` gives that a list
is held by members only. `ConnectionsAreListed` shows that the server uses its
connections as `ConnSet` allows, and rests on `ListenerOpen`, that the listener
is never closing.

`ConnListProofs`, for any bound on the connections. The set and the list agree
because of

    IInv == TypeOK /\ Sorted /\ Visiting /\ Seeking

`Sorted`: the list is reached from `head` by `next` in decreasing order of ids,
with nothing allocated in between, which states without recursion that it holds
every connection; `Visiting`: `tmp` is the successor of `c`; `Seeking`: `h` has
not passed `c`. `NoDangling`, `DeleteFinds` and the refinement of `ConnSet`
follow.

`PageClientProofs`, for any set of pages, limit of missed beats, latency and
number of sources. `NoFalseVerdict` is inductive with the fact that, while the
server is prompt, no more beats are counted as missed than are pending, and
those are at most `Latency + 1`. `LostIsLost` needs that no frame is heard and
no interval runs after the loss; `Audible` and `SilentWhenOver` tie the latest
source of each sound to the call state.

`HeartbeatProofs`, for any period, skip count and handler time. `ClockRefines`
is the refinement: every step of `TimedSpec` is a step of `Spec` or a stutter,
so the theorems above carry over. `PingPacing`,

    age[s] + due <= MaxPace * pings[s] + Period,

is inductive together with `due + gap >= 0` (a poll is never further behind the
timer than the time since the last poll), from which one firing to the next
takes at most `MaxPace`; `VanishVerdict` follows from it.

`CallSignalingProofs`, for any set of pages, callers and habits, with or
without hiding. The invariant `PageInv` is about one page; there is one lemma
for each function of a page, and the induction says that every step applies one
of them to one page. Beyond the checked properties it needs: `peer_remote_id`
is set as soon as anything was called, awaited or negotiated.

`CallerProofs` proves `CallerNotAlone` for any number of pages, of presses of
Call and of frames under way, when one page calls, users keep their row during a
call, and the server neither drops a message nor sends a list (`~Hiding`,
`~Churns`), that is, for what happens between two lists and while nobody leaves.
The hypothesis is needed: a callee with no row selected drops the call at any
list (`ui.js:84`) and its caller stays Calling. Its invariant, `OneCaller`,
follows the caller's frames in both directions: a caller that is calling has an
offer yet to send, or a hangup waiting in its inbox, or the frames on their way
to the page it calls leave that page in a call, whatever state it is in now.

`ConnStreamProofs`, for files, buffers and clients of any size, early clients
included: `TypeOK`, that no offset leaves its buffer. The invariant is about the
stream, the receive buffer followed by what is on its way to it, which reading
does not change:

    IInv == Typed /\ Placed /\ Framed(Stream, c.ofs) /\ Deleting

`Placed`: which parser may be at work where; `Framed`: beyond the offset, the
first byte of a frame is followed by its length, or the parser would take
payload for a header; `Deleting`: only the close deletes a session, and at most
one. The lemmas `DelCells` and `StreamShift` say what `mg_iobuf_del` does to the
cells and so to the stream; `FrameTaken` says it of every kind of frame.

`ConnOrderProofs` proves the other safety properties of `ConnStream`, again for
files, buffers and clients of any size: `RepliesInOrder`, `NeverRefused`,
`SessionTaken`, `ContextAlive` and the refinement `ImplementsChannel`. They
share one invariant, inductive together with `IInv`, since each needs to know
what the others say of the bytes:

    JInv == (Adrift \/ Replying) /\ Requesting /\ Framing /\ Speaking /\ Closed /\ Polite

- `Adrift`: the client is early and the connection has closed. `http_cb` may then
  deliver a request of a garbled buffer a second time, so `RepliesInOrder` is about
  the time before: what is sent after it is freed with the connection.
- `Replying`: as long as no frame is processed, the last cell sent ends its
  reply or belongs to the file being streamed, whose parts left are `c.left`. A
  request is processed only when no response is being generated, so the next
  reply continues the last. A file whose last piece still waits in the send
  buffer counts as being streamed: `static_cb` notices the end one event later.
- `Requesting`: beyond what was parsed, the stream begins with the requests that
  have no reply yet, two cells each; those of an early client may come behind an
  upgrade. The number of the request served last (`c.re`) says which these are, so
  nothing is counted along the stream. A client that waits has asked for nothing
  behind its upgrade (`Upgrading`).
- `Framing`: after them come whole frames, as a sequence of which it is only said
  that it exists. Each frame carries what the client was to say when it sent it
  (the message and the part of it), the first frame goes on where the parser
  has got to, with the fragments kept at the head of the buffer, and the last
  one ends where the client is now. This ties the kept fragments, the frames
  in the buffer and those still under way to the message they are parts of.
- `Speaking`: the messages of the client and their number.
- `Closed`: a closing connection is parsed no more, but for the last look of
  `http_cb` at `MG_EV_CLOSE`, which may take the rest of the buffer for a body.
- `Polite`: a client that is not early has all its replies but one, and all of
  them once it has sent a frame; so between two events no parser is left with
  anything it could process, it has one session at most, and that is deleted with
  the connection and not used after.

There is one lemma for each action (`FrameKeeps` for a frame, `MessageKeeps` for
a request, `ReadKeeps`, and so on). `FramesGrow`, `FramesTail`, `FramesDrop` and
`RequestsShift` say what sending, processing and deleting cells does to the
stream. `FrameOutcome` goes through the kinds of frames: a control frame between
fragments leaves the message as it is, the last fragment completes it, and what
is then heard is the message the client said (`FrameHears`). In `ImplementsChannel`
each step of `Next` is a message said, a message heard, the close or a stutter.

Assumptions: the named `ASSUME`s of the modules (bounds are naturals, the
period is positive, the null values are no members), which TLC evaluates.

Model-checked only: liveness, which is out of the prover's reach (`SilentReaped`,
`ClosingCloses`, `LossNoticed`, `SilenceNoticed`, `RingsDieOut`, `Answered`,
`MessagesHeard`, `PollEnds`). Every safety property and every refinement that a
passing run checks is stated by a theorem.

## Not modelled

TLS, and of HTTP what `ConnStream` leaves out above; `RegisterSession`, which only
logs; JSON and its exceptions; out-of-memory; `epoll` registration; start-up,
enrolment, theme and certificates; ICE candidates and the media itself.
`Peer::m_lastHeartbeat` and `mgws::m_timers` are never read. Mongoose also has
DNS, MQTT, UDP, SNTP and a TCP/IP stack, which nothing here calls. `sqlite3` and
`json.hpp` are vendored and make up nearly all lines of the repository; the
first is linked and never called, the second parses messages whose text no
property is about. What remains of the lines is small, and so is the share of
all lines that the modules cover.

## What is left

1. The identity of calls as a history variable in `CallSignaling`, for the late
   answer, and the case of two callers under the habits in which it holds.
2. A count of the sessions that an early client leaks, as a property: one for each
   upgrade behind its first, and one for an upgrade that only `MG_EV_CLOSE` parses.
