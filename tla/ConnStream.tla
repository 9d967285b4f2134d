------------------------------- MODULE ConnStream -------------------------------
(***************************************************************************)
(* One connection of the server, from the bytes of its socket up to the    *)
(* events the SessionManager is given: the visit mg_mgr_poll pays it, the  *)
(* HTTP parser, the streaming of a static file, the upgrade and the        *)
(* websocket parser, over the receive and send buffers (mongoose.c).       *)
(*                                                                         *)
(* A buffer is a sequence of cells.  A request is two cells; a frame has a *)
(* cell for its first byte, one for its length and one for each part of    *)
(* its payload.  TCP keeps the order and cuts anywhere.  Every step of a   *)
(* loop over a buffer is a step of its own.                                *)
(*                                                                         *)
(* The client speaks HTTP and websocket as a browser does, except that it  *)
(* may send a request, or its first frames, before it has the reply to the *)
(* request before, a second /websock and a file behind a /websock          *)
(* included; such a client is called early.                                *)
(***************************************************************************)
EXTENDS Sequences, Integers

CONSTANTS
  FileSize,   \* cells of a static file
  SendSize,   \* MG_IO_SIZE: cells of the send buffer that a file may fill
  MaxRecv,    \* MG_MAX_RECV_SIZE
  MaxAsked,   \* bound on the requests of the client
  MaxFrames   \* bound on the frames of the client

ASSUME SizeAssumption ==
  /\ {FileSize, SendSize, MaxRecv, MaxAsked, MaxFrames} \subseteq Nat
  /\ SendSize > 0 /\ FileSize > 0
  /\ MaxFrames + 2 < MaxRecv    \* whatever the client sends as one message fits

VARIABLES
  c,          \* struct mg_connection; re is the request served last
  at,         \* what mg_mgr_poll does next with the connection
  loop,       \* the parser that is at work on the receive buffer
  parsed,     \* ofs in http_cb: cells parsed in this event
  io,         \* is_readable and is_writable
  session,    \* the sessions created for the connection, and deleted with it;
              \* stale: an event came with the m_ctx of one deleted before
  heard,      \* history: the messages delivered as MG_EV_WS_MSG
  wire,       \* cells on their way to the server
  client      \* what the client has done and seen

vars == <<c, at, loop, parsed, io, session, heard, wire, client>>

Request == {"missing", "file", "head", "upgrade"}

(***************************************************************************)
(* Cells                                                                   *)
(***************************************************************************)
RequestCells(kind, id) == [part \in 1 .. 2 |-> [what |-> "request", kind |-> kind, id |-> id, part |-> part]]

FrameCells(fin, op, data) ==
  <<[what |-> "flags", fin |-> fin, op |-> op], [what |-> "length", n |-> Len(data)]>> \o data

Payload(msg, k) == [what |-> "data", msg |-> msg, k |-> k, masked |-> TRUE]

Unmask(cell) == [cell EXCEPT !.masked = ~@]

\* The cells of the reply to request id are numbered from 0, its header.
Reply(id, part, end) == [re |-> id, part |-> part, end |-> end]

(***************************************************************************)
(* Buffers                                                                 *)
(***************************************************************************)
\* mg_iobuf_del
Del(buf, ofs, len) == SubSeq(buf, 1, ofs) \o SubSeq(buf, ofs + len + 1, Len(buf))

\* mg_http_parse: the request at ofs is complete, it may yet become so, or
\* what is there is no request.  The masked bytes of a frame may look like the
\* beginning of a request all the same.
Complete(buf, ofs) ==
  /\ ofs + 2 <= Len(buf)
  /\ buf[ofs + 1].what = "request" /\ buf[ofs + 1].part = 1

Garbled(buf, ofs) ==
  /\ ofs < Len(buf)
  /\ ~(buf[ofs + 1].what = "request" /\ buf[ofs + 1].part = 1)

\* ws_process: a frame is processed when its header and its payload are there.
FrameAt(buf, ofs) ==
  /\ ofs + 2 <= Len(buf)
  /\ buf[ofs + 1].what = "flags"
  /\ ofs + 2 + buf[ofs + 2].n <= Len(buf)

(***************************************************************************)
(* The event handlers                                                      *)
(***************************************************************************)
Send(d, cells) == [d EXCEPT !.send = @ \o cells]

\* mg_error
Fail(d) == [d EXCEPT !.is_closing = TRUE, !.failed = TRUE]

\* Seeded fault: the response is sent and still counts as being generated.
HttpReplyResponding(d, id) == [Send(d, <<Reply(id, 0, TRUE)>>) EXCEPT !.re = id]

\* mg_http_reply
HttpReply(d, id) == [Send(d, <<Reply(id, 0, TRUE)>>) EXCEPT !.is_resp = FALSE, !.re = id]

\* mg_http_serve_file: the file, or its header alone for a HEAD request.
ServeFile(d, id) == [Send(d, <<Reply(id, 0, FALSE)>>) EXCEPT !.pfn = "static", !.left = FileSize, !.re = id]

ServeHead(d, id) ==
  [Send(d, <<Reply(id, 0, TRUE)>>) EXCEPT !.is_draining = TRUE, !.is_resp = FALSE, !.re = id]

\* Seeded fault: http_cb keeps the connection.
UpgradeUnhandled(d, id) ==
  [Send(d, <<Reply(id, 0, TRUE)>>)
     EXCEPT !.ofs = 0, !.is_websocket = TRUE, !.is_resp = FALSE, !.re = id]

\* mg_ws_upgrade, of a request with a key
Upgrade(d, id) ==
  [Send(d, <<Reply(id, 0, TRUE)>>)
     EXCEPT !.pfn = "ws", !.ofs = 0, !.is_websocket = TRUE, !.is_resp = FALSE, !.re = id]

\* Seeded fault: the request is served as if no response was being generated.
ServedAnyhow(d, kind, id) ==
  CASE kind = "missing" -> HttpReply(d, id)
    [] kind = "file"    -> [ServeFile(d, id) EXCEPT !.is_resp = FALSE]
    [] kind = "head"    -> ServeHead(d, id)
    [] kind = "upgrade" -> Upgrade(d, id)

\* MG_EV_HTTP_MSG, in http_cb and SessionManager::fn
Served(d, kind, id) ==
  LET resp == [d EXCEPT !.is_resp = TRUE]
  IN  CASE kind = "missing" -> HttpReply(resp, id)
        [] kind = "file"    -> ServeFile(resp, id)
        [] kind = "head"    -> ServeHead(resp, id)
        [] kind = "upgrade" -> Upgrade(resp, id)

\* The next n cells of the file.
Pieces(d, n) == [i \in 1 .. n |-> Reply(d.re, FileSize - d.left + i, i = d.left)]

\* Seeded fault: the file is read to the end of the buffer, not of the response.
StaticCbUncapped(d) ==
  LET room == SendSize - Len(d.send)
  IN  IF room <= 0 THEN d
      ELSE IF d.left = 0 THEN [d EXCEPT !.pfn = "http", !.is_resp = FALSE]
      ELSE [Send(d, Pieces(d, room)) EXCEPT !.left = @ - room]

\* static_cb, on MG_EV_POLL and MG_EV_WRITE: one more piece of the file, or
\* restore_http_cb when there is none.
StaticCb(d) ==
  LET room  == SendSize - Len(d.send)
      space == IF room > d.left THEN d.left ELSE room
  IN  IF room <= 0 THEN d
      ELSE IF space = 0 THEN [d EXCEPT !.pfn = "http", !.is_resp = FALSE]
      ELSE [Send(d, Pieces(d, space)) EXCEPT !.left = @ - space]

\* The protocol handler's part of an event that only static_cb handles.
Handled(d) == IF d.pfn = "static" THEN StaticCb(d) ELSE d

(***************************************************************************)
(* The parsers' loops                                                      *)
(***************************************************************************)
\* Starting the protocol handler's part of MG_EV_READ.
ReadEvent(d) == loop' = IF d.pfn = "static" THEN "none" ELSE d.pfn

Closing == at = "gone"    \* the event is MG_EV_CLOSE

\* SessionManager::fn is given an event of the connection: on MG_EV_CLOSE it has
\* deleted the session already that fn_data points into.
Notified(s) == [s EXCEPT !.stale = @ \/ (Closing /\ s.deleted > 0)]

\* AddSession; a session that the connection had before is leaked.
AddSession(s) == [s EXCEPT !.created = @ + 1]

\* http_cb: a request is complete and is delivered.  On MG_EV_CLOSE the rest of
\* the buffer is taken for its body.
HttpMessage ==
  /\ loop = "http"
  /\ ~c.is_resp
  /\ Complete(c.recv, parsed)
  /\ LET r == c.recv[parsed + 1]
     IN  /\ c' = Served(c, r.kind, r.id)
         /\ session' = IF r.kind = "upgrade" THEN AddSession(Notified(session)) ELSE Notified(session)
  /\ parsed' = IF Closing THEN Len(c.recv) ELSE parsed + 2
  /\ UNCHANGED <<at, loop, io, heard, wire, client>>

\* http_cb: what comes next is no request, and mg_error says so to SessionManager.
HttpGarbled ==
  /\ loop = "http"
  /\ ~c.is_resp
  /\ Garbled(c.recv, parsed)
  /\ c' = Fail(c)
  /\ session' = Notified(session)
  /\ loop' = "none"
  /\ parsed' = 0
  /\ UNCHANGED <<at, io, heard, wire, client>>

\* Seeded fault: one cell too few is deleted.
HttpDoneShort ==
  /\ loop = "http"
  /\ c.is_resp \/ ~Complete(c.recv, parsed)
  /\ c' = [c EXCEPT !.recv = Del(@, 0, IF parsed > 0 THEN parsed - 1 ELSE 0)]
  /\ loop' = "none"
  /\ parsed' = 0
  /\ UNCHANGED <<at, io, session, heard, wire, client>>

\* http_cb: the loop ends, and what was parsed is deleted.
HttpDone ==
  /\ loop = "http"
  /\ c.is_resp \/ ~Complete(c.recv, parsed)
  /\ c' = [c EXCEPT !.recv = Del(@, 0, parsed)]
  /\ loop' = "none"
  /\ parsed' = 0
  /\ UNCHANGED <<at, io, session, heard, wire, client>>

\* The frame at the offset, its payload unmasked in place by ws_process.
Unmasked(d) ==
  LET n == d.recv[d.ofs + 2].n
  IN  [i \in 1 .. Len(d.recv) |->
         IF i \in d.ofs + 3 .. d.ofs + 2 + n THEN Unmask(d.recv[i]) ELSE d.recv[i]]

\* mg_ws_cb: what a control frame makes the server do.
Controlled(d, op, data) ==
  CASE op = "ping"  -> Send(d, <<[pong |-> data]>>)
    [] op = "close" -> [Send(d, <<[close |-> data]>>) EXCEPT !.is_draining = TRUE]
    [] OTHER        -> d

\* Seeded fault: a fragment is kept with its header.
StrippedKeepsLength(d, op, n) ==
  IF op = "cont"
    THEN [d EXCEPT !.recv = Del(@, d.ofs, 1), !.ofs = @ + n + 1]
    ELSE [d EXCEPT !.recv = Del(@, d.ofs + 1, 1), !.ofs = @ + n + 1]

\* mg_ws_cb: of a fragment only the payload is kept, and the first byte of the
\* first fragment.
Stripped(d, op, n) ==
  IF op = "cont"
    THEN [d EXCEPT !.recv = Del(@, d.ofs, 2), !.ofs = @ + n]
    ELSE [d EXCEPT !.recv = Del(@, d.ofs + 1, 1), !.ofs = @ + n + 1]

\* mg_ws_cb, one turn of its loop: a message of one frame is delivered, a
\* fragment kept, and with the last fragment the whole.
ProcessFrame ==
  LET fin  == c.recv[c.ofs + 1].fin
      op   == c.recv[c.ofs + 1].op
      n    == c.recv[c.ofs + 2].n
      data == SubSeq(Unmasked(c), c.ofs + 3, c.ofs + 2 + n)
      d    == Controlled([c EXCEPT !.recv = Unmasked(c)], op, data)
      s    == Stripped(d, op, n)
  IN  IF fin /\ op # "cont"
        THEN /\ c' = [d EXCEPT !.recv = Del(@, d.ofs, n + 2)]
             /\ heard' = IF op = "text" THEN Append(heard, data) ELSE heard
        ELSE IF ~fin
          THEN c' = s /\ UNCHANGED heard
          ELSE /\ c' = [s EXCEPT !.recv = Del(@, 0, s.ofs), !.ofs = 0]
               /\ heard' = Append(heard, SubSeq(s.recv, 2, s.ofs))

\* Seeded fault: one frame is processed per event; the rest of the buffer waits
\* for the next.
WsFrameOnce ==
  /\ loop = "ws"
  /\ FrameAt(c.recv, c.ofs)
  /\ ProcessFrame
  /\ loop' = "none"
  /\ UNCHANGED <<at, parsed, io, session, wire, client>>

WsFrame ==
  /\ loop = "ws"
  /\ FrameAt(c.recv, c.ofs)
  /\ ProcessFrame
  /\ UNCHANGED <<at, loop, parsed, io, session, wire, client>>

WsDone ==
  /\ loop = "ws"
  /\ ~FrameAt(c.recv, c.ofs)
  /\ loop' = "none"
  /\ UNCHANGED <<c, at, parsed, io, session, heard, wire, client>>

\* mg_ws_cb: a request of a client that did not wait for the upgrade has come
\* after http_cb was done.  Read as a frame it has an opcode that does not exist,
\* unless its length says to wait.  What else mg_ws_cb makes of a buffer that it
\* has given up is left out.
WsGarbled ==
  /\ loop = "ws"
  /\ c.ofs < Len(c.recv)
  /\ c.recv[c.ofs + 1].what = "request"
  /\ c' = Fail(c)
  /\ loop' = "none"
  /\ UNCHANGED <<at, parsed, io, session, heard, wire, client>>

(***************************************************************************)
(* The visit, in the order of mg_mgr_poll                                  *)
(***************************************************************************)
\* mg_iotest, then MG_EV_POLL, then MG_EV_READ if that ended a response.
Poll ==
  LET d == Handled(c)
  IN  /\ at = "poll"
      /\ loop = "none"
      /\ io' = [readable |-> wire # <<>> \/ client.hungup, writable |-> c.send # <<>>]
      /\ c' = d
      /\ IF c.is_resp /\ ~d.is_resp THEN ReadEvent(d) ELSE UNCHANGED loop
      /\ at' = "read"
      /\ UNCHANGED <<parsed, session, heard, wire, client>>

\* read_conn: any part of what has arrived, or the end of it.  A connection
\* that is closing already is neither read nor written.
Read ==
  /\ at = "read"
  /\ loop = "none"
  /\ at' = IF c.is_closing THEN "end" ELSE "write"
  /\ IF c.is_closing \/ ~io.readable
       THEN UNCHANGED <<c, loop, wire>>
       ELSE IF Len(c.recv) >= MaxRecv
         THEN c' = Fail(c) /\ UNCHANGED <<loop, wire>>
         ELSE IF wire = <<>>
           THEN c' = [c EXCEPT !.is_closing = TRUE] /\ UNCHANGED <<loop, wire>>
           ELSE \E n \in 1 .. Len(wire) :
                   /\ c' = [c EXCEPT !.recv = @ \o SubSeq(wire, 1, n)]
                   /\ wire' = SubSeq(wire, n + 1, Len(wire))
                   /\ ReadEvent(c)
  /\ UNCHANGED <<parsed, io, session, heard, client>>

\* write_conn: any part of the send buffer, and MG_EV_WRITE.  With a client
\* that has hung up it fails, or what is written is lost.
Write ==
  /\ at = "write"
  /\ loop = "none"
  /\ at' = "end"
  /\ IF ~io.writable THEN UNCHANGED <<c, client>>
     ELSE \/ \E n \in 1 .. Len(c.send) :
               /\ c' = Handled([c EXCEPT !.send = Del(@, 0, n)])
               /\ client' = [client EXCEPT !.got = @ \o SubSeq(c.send, 1, n)]
          \/ /\ client.hungup
             /\ c' = [c EXCEPT !.is_closing = TRUE]
             /\ UNCHANGED client
  /\ UNCHANGED <<loop, parsed, io, session, heard, wire>>

\* Seeded fault: a connection that has been drained is freed without its event.
EndDrainedSilently ==
  LET closes == c.is_closing \/ (c.is_draining /\ c.send = <<>>)
  IN  /\ at = "end"
      /\ loop = "none"
      /\ at' = IF closes THEN "gone" ELSE "poll"
      /\ IF c.is_closing
           THEN /\ session' = [session EXCEPT !.deleted = @ + (IF session.created > 0 THEN 1 ELSE 0)]
                /\ loop' = IF c.pfn = "http" THEN "http" ELSE "none"
           ELSE UNCHANGED <<session, loop>>
      /\ UNCHANGED <<c, parsed, io, heard, wire, client>>

\* The end of the visit.  On MG_EV_CLOSE SessionManager::fn comes first and
\* deletes the session, then http_cb looks at what is left in the buffer.
End ==
  LET closes == c.is_closing \/ (c.is_draining /\ c.send = <<>>)
  IN  /\ at = "end"
      /\ loop = "none"
      /\ IF closes
           THEN /\ at' = "gone"
                /\ session' = [session EXCEPT !.deleted = @ + (IF session.created > 0 THEN 1 ELSE 0)]
                /\ loop' = IF c.pfn = "http" THEN "http" ELSE "none"
                /\ c' = [c EXCEPT !.is_closing = TRUE]
           ELSE at' = "poll" /\ UNCHANGED <<session, loop, c>>
      /\ UNCHANGED <<parsed, io, heard, wire, client>>

(***************************************************************************)
(* The client                                                              *)
(***************************************************************************)
IsReply(cell) == "re" \in DOMAIN cell

\* The client has the whole of the reply to request id.
Whole(id) ==
  \E i \in DOMAIN client.got : IsReply(client.got[i]) /\ client.got[i].re = id /\ client.got[i].end

Asks(kind) == \E i \in DOMAIN client.asked : client.asked[i] = kind

\* Whether the client sends something without the replies it is owed.
Early == client.early \/ \E id \in DOMAIN client.asked : ~Whole(id)

\* A request, until the client knows of an upgrade or takes one for granted.  A
\* HEAD behind a /websock is left out: mg_ws_cb would take it for a CLOSE frame.
Ask(kind) ==
  LET id == Len(client.asked) + 1
  IN  /\ ~client.hungup
      /\ id <= MaxAsked
      /\ \A i \in DOMAIN client.asked : client.asked[i] = "upgrade" => ~Whole(i)
      /\ client.frames = 0
      /\ kind = "head" => ~Asks("upgrade")
      /\ client' = [client EXCEPT !.asked = Append(@, kind), !.early = Early]
      /\ wire' = wire \o RequestCells(kind, id)
      /\ UNCHANGED <<c, at, loop, parsed, io, session, heard>>

\* A frame of the client, masked.
SendFrame(fin, op, data) ==
  /\ Asks("upgrade")
  /\ ~client.hungup
  /\ ~client.bye
  /\ client.frames < MaxFrames
  /\ wire' = wire \o FrameCells(fin, op, data)
  /\ UNCHANGED <<c, at, loop, parsed, io, session, heard>>

\* A message of one frame, or the next fragment of one.
Say(fin) ==
  LET cell == Payload(Len(client.said) + 1, Len(client.saying) + 1)
      all  == Append(client.saying, Unmask(cell))
  IN  /\ SendFrame(fin, IF client.saying = <<>> THEN "text" ELSE "cont", <<cell>>)
      /\ client' = [client EXCEPT !.frames = @ + 1,
                                 !.early  = Early,
                                 !.saying = IF fin THEN <<>> ELSE all,
                                 !.said   = IF fin THEN Append(@, all) ELSE @]

\* A control frame may come between two fragments.
Control(op) ==
  /\ SendFrame(TRUE, op, <<Payload(0, 0)>>)
  /\ client' = [client EXCEPT !.frames = @ + 1, !.early = Early, !.bye = (op = "close")]

HangUp ==
  /\ ~client.hungup
  /\ client' = [client EXCEPT !.hungup = TRUE]
  /\ UNCHANGED <<c, at, loop, parsed, io, session, heard, wire>>

(***************************************************************************)
(* The specification                                                       *)
(***************************************************************************)
Init ==
  /\ c = [recv |-> <<>>, send |-> <<>>, ofs |-> 0, pfn |-> "http", left |-> 0, re |-> 0,
          is_resp |-> FALSE, is_websocket |-> FALSE, is_draining |-> FALSE,
          is_closing |-> FALSE, failed |-> FALSE]
  /\ at = "poll"
  /\ loop = "none"
  /\ parsed = 0
  /\ io = [readable |-> FALSE, writable |-> FALSE]
  /\ session = [created |-> 0, deleted |-> 0, stale |-> FALSE]
  /\ heard = <<>>
  /\ wire = <<>>
  /\ client = [asked |-> <<>>, got |-> <<>>, early |-> FALSE, saying |-> <<>>, said |-> <<>>,
               frames |-> 0, bye |-> FALSE, hungup |-> FALSE]

ServerStep ==
  \/ Poll
  \/ Read
  \/ Write
  \/ End
  \/ HttpMessage
  \/ HttpGarbled
  \/ HttpDone
  \/ WsFrame
  \/ WsGarbled
  \/ WsDone

ClientStep ==
  \/ \E kind \in Request : Ask(kind)
  \/ \E fin \in BOOLEAN : Say(fin)
  \/ \E op \in {"ping", "close"} : Control(op)
  \/ HangUp

Next == ServerStep \/ ClientStep

\* The loop of the server goes on; the client need not do anything.
Spec == Init /\ [][Next]_vars /\ WF_vars(ServerStep)

(***************************************************************************)
(* Properties                                                              *)
(***************************************************************************)
\* The type invariant.
TypeOK ==
  /\ c.pfn \in {"http", "static", "ws"}
  /\ c.ofs \in 0 .. Len(c.recv)
  /\ c.left \in 0 .. FileSize
  /\ (c.pfn = "static") => c.is_resp
  /\ at \in {"poll", "read", "write", "end", "gone"}
  /\ loop \in {"none", "http", "ws"}
  /\ parsed \in 0 .. Len(c.recv)
  /\ session.deleted <= session.created

\* A client that waits for its replies is never refused: whatever cuts TCP
\* makes and wherever frames and fragments end, no parser loses its place in
\* the buffer, and the buffer never fills up.
NeverRefused == ~client.early => ~c.failed

\* What the server has sent, wherever it is by now.
Output == client.got \o c.send

\* The last cell of the reply to request id: of a file its last piece, of
\* everything else the header.
IsEnd(cell) == cell.part = IF client.asked[cell.re] = "file" THEN FileSize ELSE 0

\* b comes right after a.
Continues(a, b) ==
  IF a.end THEN b.re = a.re + 1 /\ b.part = 0
  ELSE b.re = a.re /\ b.part = a.part + 1

\* The replies come in the order of the requests, each whole before the next
\* begins, to clients that do not wait for them too.  What http_cb sends on
\* MG_EV_CLOSE is freed with the connection: it may answer once more what it did
\* before the buffer got garbled.
RepliesInOrder ==
  at # "gone" =>
    \A i \in DOMAIN Output : IsReply(Output[i]) =>
      /\ Output[i].re \in DOMAIN client.asked
      /\ Output[i].end <=> IsEnd(Output[i])
      /\ IF i = 1 THEN Output[i].re = 1 /\ Output[i].part = 0
         ELSE IsReply(Output[i - 1]) /\ Continues(Output[i - 1], Output[i])

\* An event of a client that waits is never handled with the m_ctx of a deleted
\* Session, although http_cb comes after SessionManager on MG_EV_CLOSE: what the
\* closing connection still has in its buffer is mg_ws_cb's once it has a Session.
\* It does not hold for early clients, whose file behind a /websock puts http_cb
\* back.
ContextAlive == ~client.early => ~session.stale

\* A connection takes its session away with it, whichever end closes and
\* whatever is left in its buffers: no upgrade of a client that waits for its
\* replies is parsed only by MG_EV_CLOSE, after the session was deleted.  A client
\* that does not wait leaks one so, or by a second /websock.
SessionTaken ==
  at = "gone" /\ loop = "none" /\ ~client.early => session.deleted = session.created

\* mongoose.c:8435, "Handle fragmented frames": the server is a channel that
\* hears every message whole, once and in order.
Channel ==
  INSTANCE MessageChannel WITH
    Message <- {[k \in 1 .. parts |-> Unmask(Payload(msg, k))] : msg, parts \in 1 .. MaxFrames},
    owed    <- SubSeq(client.said, Len(heard) + 1, Len(client.said)),
    last    <- IF heard = <<>> THEN <<>> ELSE heard[Len(heard)],
    closed  <- c.is_closing

ImplementsChannel == Channel!Spec

\* A client that waits for its replies gets them, however slowly a file is
\* streamed, unless one of the two ends closes.
Answered ==
  \A n \in 1 .. MaxAsked :
     Len(client.asked) >= n ~> Whole(n) \/ client.early \/ c.is_closing

\* Its messages are heard, wherever they are cut and whatever comes between
\* their fragments: none is left in the buffer until something else arrives.
MessagesHeard ==
  \A n \in 1 .. MaxFrames :
     Len(client.said) >= n ~> Len(heard) >= n \/ client.early \/ c.is_closing
=============================================================================
