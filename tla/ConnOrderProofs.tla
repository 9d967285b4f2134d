---------------------------- MODULE ConnOrderProofs ----------------------------
(***************************************************************************)
(* For files, buffers and clients of any size: replies come in the order   *)
(* of the requests, the websocket is a channel that loses and reorders     *)
(* nothing, and a client that waits for its replies is never refused,      *)
(* never leaves its session behind, and has no event after it.             *)
(*                                                                         *)
(* What counts is where everything is in the stream: beyond the offset of  *)
(* the parser come the requests that are not served, then whole frames.    *)
(* That is so until the close, when an early client's buffer is looked at  *)
(* once more, from the beginning.                                          *)
(***************************************************************************)
EXTENDS ConnStreamProofs

(***************************************************************************)
(* The replies                                                             *)
(***************************************************************************)
Last == Output[Len(Output)]

\* The requests that the HTTP parser has delivered.
Done == c.re

Owed == Len(client.asked) - Done

\* RepliesInOrder, of any output and requests.
Ordered(o, asked) ==
  \A i \in DOMAIN o : IsReply(o[i]) =>
    /\ o[i].re \in DOMAIN asked
    /\ o[i].end <=> o[i].part = IF asked[o[i].re] = "file" THEN FileSize ELSE 0
    /\ IF i = 1 THEN o[i].re = 1 /\ o[i].part = 0
       ELSE IsReply(o[i - 1]) /\ Continues(o[i - 1], o[i])

\* The websocket parser has not processed a frame.
Unframed == client.frames = 0 \/ c.pfn # "ws" \/ Owed > 0

\* The HTTP parser looks at the buffer of an early client on MG_EV_CLOSE.
Adrift == client.early /\ at = "gone"

\* As long as no frame is processed, the last reply is whole or the file being
\* streamed, and no part of a later one is there.  A file whose last piece is in
\* the send buffer is streamed no longer once that buffer is empty.
Replying ==
  /\ Ordered(Output, client.asked)
  /\ c.is_resp <=> c.pfn = "static"
  /\ Unframed =>
       /\ \A i \in DOMAIN Output : IsReply(Output[i]) /\ Output[i].re <= Done
       /\ Output = <<>> => Done = 0
       /\ Output # <<>> => Last.re = Done
       /\ c.pfn # "static" /\ Output # <<>> => Last.end
  /\ c.pfn = "static" =>
       /\ Output # <<>>
       /\ Last = Reply(c.re, FileSize - c.left, c.left = 0)
       /\ client.asked[c.re] = "file"
       /\ \A i \in DOMAIN Output : i < Len(Output) /\ Output[i].re = c.re => ~Output[i].end
       /\ c.left = 0 => c.send # <<>>
  /\ ~client.early /\ c.pfn = "ws" /\ loop = "http" => ~Whole(Len(client.asked))

(***************************************************************************)
(* The requests                                                            *)
(***************************************************************************)
RequestCell(asked, id, part) ==
  [what |-> "request", kind |-> asked[id], id |-> id, part |-> part]

\* s goes on, beyond the offset b, with the requests that come after the first n.
Requests(s, b, asked, n) ==
  /\ b + 2 * (Len(asked) - n) <= Len(s)
  /\ \A m \in 1 .. Len(asked) - n :
       /\ s[b + 2 * m - 1] = RequestCell(asked, n + m, 1)
       /\ s[b + 2 * m] = RequestCell(asked, n + m, 2)

\* The stream is not going to be parsed any further, or only by the HTTP parser
\* on MG_EV_CLOSE.
Over == c.is_closing /\ (client.early \/ c.pfn = "ws")

\* A client that waits asks for nothing after the upgrade, and has it served once
\* the connection is a websocket.
Upgrading ==
  /\ \A i \in DOMAIN client.asked : client.asked[i] = "upgrade" => i = Len(client.asked)
  /\ c.pfn = "ws" => Owed = 0 /\ Asks("upgrade")
  /\ c.pfn # "ws" /\ Asks("upgrade") => Owed > 0

\* Beyond the offset, the stream begins with the requests not served yet.
Requesting ==
  /\ client.frames > 0 => Asks("upgrade")
  /\ ~client.early => Upgrading
  /\ ~Over =>
       /\ Done <= Len(client.asked)
       /\ Owed > 0 => c.ofs = 0
       /\ Requests(Stream, parsed + c.ofs, client.asked, Done)

(***************************************************************************)
(* The frames                                                              *)
(***************************************************************************)
\* A frame, and what the client was to say next when it sent it: the part k of
\* the message msg.
Frame ==
  [fin : BOOLEAN, op : {"text", "cont", "ping", "close"}, msg : Nat \ {0}, k : Nat \ {0}]

Speaks(x) == x.op \in {"text", "cont"}

Data(x) == IF Speaks(x) THEN Payload(x.msg, x.k) ELSE Payload(0, 0)

\* s is, beyond the offset b, the sequence of frames fr.
Frames(s, b, fr) ==
  /\ Len(s) = b + 3 * Len(fr)
  /\ \A f \in 1 .. Len(fr) :
       /\ s[b + 3 * f - 2] = [what |-> "flags", fin |-> fr[f].fin, op |-> fr[f].op]
       /\ s[b + 3 * f - 1] = [what |-> "length", n |-> 1]
       /\ s[b + 3 * f] = Data(fr[f])

\* What is to be said after a frame.
After(x) ==
  IF ~Speaks(x) THEN <<x.msg, x.k>>
  ELSE IF x.fin THEN <<x.msg + 1, 1>>
  ELSE <<x.msg, x.k + 1>>

\* What is to be said at the f-th frame; after the last one, now.
Position(fr, f) ==
  IF f \in DOMAIN fr THEN <<fr[f].msg, fr[f].k>>
  ELSE <<Len(client.said) + 1, Len(client.saying) + 1>>

\* The fragments that the websocket parser has kept.
Kept == IF c.ofs = 0 THEN 0 ELSE c.ofs - 1

\* The frames go on where the server has got to, and end where the client has.
InStep(fr) ==
  /\ Position(fr, 1) = <<Len(heard) + 1, Kept + 1>>
  /\ \A f \in 1 .. Len(fr) :
       /\ Position(fr, f + 1) = After(fr[f])
       /\ fr[f].op = "text" <=> Speaks(fr[f]) /\ fr[f].k = 1
       /\ ~Speaks(fr[f]) => fr[f].fin
       /\ Speaks(fr[f]) /\ fr[f].fin =>
            fr[f].msg <= Len(client.said) /\ fr[f].k = Len(client.said[fr[f].msg])

\* Where the frames begin.
FramesFrom == parsed + c.ofs + 2 * Owed

Framing ==
  ~Over =>
    /\ c.ofs # 1
    /\ \A j \in 2 .. c.ofs : c.recv[j] = Unmask(Payload(Len(heard) + 1, j - 1))
    /\ \E fr \in Seq(Frame) :
         /\ Frames(Stream, FramesFrom, fr)
         /\ InStep(fr)
         /\ Kept + Len(fr) <= client.frames

\* The client's messages, and how many they can be.
Spoken(msg, parts) ==
  \A k \in DOMAIN parts : parts[k] = Unmask(Payload(msg, k))

Speaking ==
  /\ heard \in Seq(Seq(Cell)) /\ Len(heard) <= Len(client.said)
  /\ \A m \in DOMAIN client.said : Spoken(m, client.said[m])
  /\ Spoken(Len(client.said) + 1, client.saying)
  /\ Len(client.said) + Len(client.saying) <= client.frames
  /\ client.frames <= MaxFrames

\* A connection that is closing is not parsed, but for the last look that the
\* HTTP parser takes at MG_EV_CLOSE.
Closed ==
  /\ loop # "none" => at # "poll"
  /\ c.is_closing => at # "poll" /\ (loop = "none" \/ at = "gone")
  /\ at = "gone" => c.is_closing /\ loop # "ws"

(***************************************************************************)
(* A client that waits for its replies                                     *)
(***************************************************************************)
\* It has every reply but the last when it asks, and all of them when it has
\* sent a frame; so no parser finds anything in the buffer but what it expects.
Polite ==
  ~client.early =>
    /\ \A id \in DOMAIN client.asked : id < Len(client.asked) \/ client.frames > 0 => Whole(id)
    /\ c.pfn = "http" /\ loop = "none" => ~Complete(c.recv, 0)
    /\ c.pfn = "ws" /\ loop = "none" /\ ~c.is_closing => ~FrameAt(c.recv, c.ofs)
    /\ ~c.failed
    /\ session.created = IF c.pfn = "ws" THEN 1 ELSE 0
    /\ ~session.stale
    /\ at = "gone" =>
         /\ session.deleted = session.created
         /\ loop = "http" => c.pfn = "http" /\ ~Complete(c.recv, parsed)

JInv == (Adrift \/ Replying) /\ Requesting /\ Framing /\ Speaking /\ Closed /\ Polite

(***************************************************************************)
(* Sequences of what the server sends                                      *)
(***************************************************************************)
LEMMA SentReply ==
  ASSUME NEW x \in Sent, IsReply(x)
  PROVE  x \in [re : Nat, part : Nat, end : BOOLEAN]
BY DEF Sent, IsReply

\* A reply cell is among what can be sent.
LEMMA ReplySent ==
  ASSUME NEW id \in Nat, NEW part \in Nat, NEW end \in BOOLEAN
  PROVE  /\ Reply(id, part, end) \in Sent /\ IsReply(Reply(id, part, end))
         /\ Reply(id, part, end).re = id /\ Reply(id, part, end).part = part
         /\ Reply(id, part, end).end = end
BY DEF Reply, Sent, IsReply

\* What is where in a concatenation of what is sent.
LEMMA SentCells ==
  ASSUME NEW s \in Seq(Sent), NEW w \in Seq(Sent)
  PROVE  /\ s \o w \in Seq(Sent) /\ Len(s \o w) = Len(s) + Len(w)
         /\ \A i \in 1 .. Len(s) : (s \o w)[i] = s[i]
         /\ \A i \in Len(s) + 1 .. Len(s) + Len(w) : (s \o w)[i] = w[i - Len(s)]
OBVIOUS

\* What is got, and sent, and added to what is sent.
LEMMA SentAssociative ==
  ASSUME NEW s \in Seq(Sent), NEW v \in Seq(Sent), NEW w \in Seq(Sent)
  PROVE  (s \o v) \o w = s \o (v \o w)
BY ConcatAssociative

\* The order of replies, said of a sequence and the requests it answers.
LEMMA OrderedIsRepliesInOrder == Ordered(Output, client.asked) => RepliesInOrder
BY DEF RepliesInOrder, Ordered, IsEnd

\* What is added has to be in order, and its first cell to continue the last.
LEMMA ConcatOrdered ==
  ASSUME NEW o \in Seq(Sent), NEW x \in Seq(Sent), NEW asked, Ordered(o, asked),
         \A i \in 1 .. Len(x) :
           /\ IsReply(x[i]) /\ x[i].re \in DOMAIN asked
           /\ x[i].end <=> x[i].part = IF asked[x[i].re] = "file" THEN FileSize ELSE 0
           /\ i > 1 => Continues(x[i - 1], x[i]),
         o = <<>> => x[1].re = 1 /\ x[1].part = 0,
         o # <<>> => IsReply(o[Len(o)]) /\ Continues(o[Len(o)], x[1])
  PROVE  Ordered(o \o x, asked)
<1> DEFINE a == Len(o)
           b == Len(x)
           s == o \o x
<1>1. /\ a \in Nat /\ b \in Nat /\ s \in Seq(Sent) /\ Len(s) = a + b
      /\ \A i \in 1 .. a : s[i] = o[i]
      /\ \A i \in a + 1 .. a + b : s[i] = x[i - a]
  BY SentCells
<1>2. o = <<>> <=> a = 0
  OBVIOUS
<1>3. DOMAIN s = 1 .. a + b /\ DOMAIN o = 1 .. a
  BY <1>1
<1> SUFFICES ASSUME NEW i \in 1 .. a + b, IsReply(s[i])
             PROVE  /\ s[i].re \in DOMAIN asked
                    /\ s[i].end <=> s[i].part = IF asked[s[i].re] = "file" THEN FileSize ELSE 0
                    /\ IF i = 1 THEN s[i].re = 1 /\ s[i].part = 0
                       ELSE IsReply(s[i - 1]) /\ Continues(s[i - 1], s[i])
  BY <1>3 DEF Ordered
<1>x. \A j \in 1 .. b :
           /\ IsReply(x[j]) /\ x[j].re \in DOMAIN asked
           /\ x[j].end <=> x[j].part = IF asked[x[j].re] = "file" THEN FileSize ELSE 0
           /\ j > 1 => Continues(x[j - 1], x[j])
  OBVIOUS
<1>4. CASE i \in 1 .. a
  <2>1. s[i] = o[i] /\ (i # 1 => s[i - 1] = o[i - 1])
    BY <1>1, <1>4
  <2> HIDE DEF s
  <2> QED
    BY <1>3, <1>4, <2>1 DEF Ordered
<1>5. CASE i = a + 1
  <2>1. s[i] = x[1] /\ 1 \in 1 .. b
    BY <1>1, <1>5
  <2>2. CASE a = 0
    <3>1. i = 1 /\ o = <<>>
      BY <1>2, <1>5, <2>2
    <3> HIDE DEF s, a, b
    <3> QED
      BY <1>x, <2>1, <3>1
  <2>3. CASE a # 0
    <3>1. i # 1 /\ i - 1 = a /\ a \in 1 .. a /\ o # <<>>
      BY <1>1, <1>2, <1>5, <2>3
    <3>2. s[i - 1] = o[a]
      BY <1>1, <3>1
    <3>3. IsReply(o[a]) /\ Continues(o[a], x[1])
      BY <3>1
    <3> HIDE DEF s, a, b
    <3> QED
      BY <1>x, <2>1, <3>1, <3>2, <3>3
  <2> QED
    BY <2>2, <2>3
<1>6. CASE i > a + 1
  <2> DEFINE j == i - a
  <2>1. j \in 1 .. b /\ j > 1 /\ j - 1 \in 1 .. b /\ i # 1
    BY <1>1, <1>6
  <2>2. s[i] = x[j]
    BY <1>1, <2>1
  <2>3. s[i - 1] = x[j - 1]
    <3>1. i - 1 \in a + 1 .. a + b /\ (i - 1) - a = j - 1
      BY <1>1, <1>6
    <3> QED
      BY <1>1, <3>1
  <2>4. /\ IsReply(x[j]) /\ x[j].re \in DOMAIN asked
        /\ x[j].end <=> x[j].part = IF asked[x[j].re] = "file" THEN FileSize ELSE 0
        /\ IsReply(x[j - 1]) /\ Continues(x[j - 1], x[j])
    <3> HIDE DEF j, b
    <3> QED
      BY <1>x, <2>1
  <2> HIDE DEF s, a, b, j
  <2> QED
    BY <2>1, <2>2, <2>3, <2>4
<1>7. i \in 1 .. a \/ i = a + 1 \/ i > a + 1
  <2> HIDE DEF s, a, b
  <2> QED
    BY <1>1
<1> HIDE DEF s, a, b
<1> QED
  BY <1>4, <1>5, <1>6, <1>7

(***************************************************************************)
(* What the handlers send                                                  *)
(***************************************************************************)
\* static_cb does nothing with a full buffer, ends the response when there is
\* nothing left, and else sends a piece.
LEMMA StaticCbShape ==
  ASSUME NEW d \in Conn, d.pfn = "static"
  PROVE  \/ StaticCb(d) = d /\ d.send # <<>>
         \/ StaticCb(d) = [d EXCEPT !.pfn = "http", !.is_resp = FALSE] /\ d.left = 0
         \/ \E n \in 1 .. d.left :
              StaticCb(d) = [d EXCEPT !.send = d.send \o Pieces(d, n), !.left = d.left - n]
<1> DEFINE room  == SendSize - Len(d.send)
           space == IF room > d.left THEN d.left ELSE room
<1>1. room \in Int /\ d.left \in Nat /\ SendSize \in Nat /\ SendSize > 0
  BY SizeAssumption DEF Conn
<1>2. CASE room <= 0
  <2>1. StaticCb(d) = d
    BY <1>2 DEF StaticCb
  <2>2. d.send # <<>>
    BY <1>1, <1>2
  <2> QED
    BY <2>1, <2>2
<1>3. CASE room > 0 /\ space = 0
  <2>1. d.left = 0
    BY <1>1, <1>3
  <2>2. ~(room <= 0)
    BY <1>1, <1>3
  <2>3. StaticCb(d) = [d EXCEPT !.pfn = "http", !.is_resp = FALSE]
    BY <1>3, <2>2 DEF StaticCb
  <2> QED
    BY <2>1, <2>3
<1>4. CASE room > 0 /\ space # 0
  <2>1. space \in 1 .. d.left
    BY <1>1, <1>4
  <2>2. StaticCb(d) = [d EXCEPT !.send = d.send \o Pieces(d, space), !.left = d.left - space]
    BY <1>1, <1>4 DEF StaticCb, Send, Conn
  <2> QED
    BY <2>1, <2>2
<1>5. \/ room <= 0
      \/ room > 0 /\ space = 0
      \/ room > 0 /\ space # 0
  BY <1>1
<1> HIDE DEF room, space
<1> QED
  BY <1>2, <1>3, <1>4, <1>5

\* A request that is served gets one cell, the whole of its reply unless it is
\* for a file.
LEMMA ServedShape ==
  ASSUME NEW d \in Conn, d.pfn \in {"http", "ws"}, NEW kind \in Request, NEW id \in Nat
  PROVE  LET e == Served(d, kind, id)
         IN  /\ e.send = d.send \o <<Reply(id, 0, kind # "file")>>
             /\ e.recv = d.recv /\ e.ofs = (IF kind = "upgrade" THEN 0 ELSE d.ofs)
             /\ e.is_closing = d.is_closing /\ e.failed = d.failed
             /\ e.is_resp = (kind = "file")
             /\ e.pfn = CASE kind = "file" -> "static" [] kind = "upgrade" -> "ws" [] OTHER -> d.pfn
             /\ e.re = id /\ (kind = "file" => e.left = FileSize)
<1> DEFINE s(end) == d.send \o <<Reply(id, 0, end)>>
<1>1. CASE kind = "missing"
  <2>1. Served(d, kind, id) = [d EXCEPT !.send = s(TRUE), !.is_resp = FALSE, !.re = id]
    BY <1>1 DEF Served, HttpReply, Send, Conn
  <2> QED
    BY <2>1, <1>1 DEF Conn
<1>2. CASE kind = "file"
  <2>1. Served(d, kind, id) =
          [d EXCEPT !.send = s(FALSE), !.is_resp = TRUE, !.pfn = "static", !.left = FileSize, !.re = id]
    BY <1>2 DEF Served, ServeFile, Send, Conn
  <2> QED
    BY <2>1, <1>2 DEF Conn
<1>3. CASE kind = "head"
  <2>1. Served(d, kind, id) =
          [d EXCEPT !.send = s(TRUE), !.is_resp = FALSE, !.is_draining = TRUE, !.re = id]
    BY <1>3 DEF Served, ServeHead, Send, Conn
  <2> QED
    BY <2>1, <1>3 DEF Conn
<1>4. CASE kind = "upgrade"
  <2>1. Served(d, kind, id) =
          [d EXCEPT !.send = s(TRUE), !.is_resp = FALSE, !.pfn = "ws", !.ofs = 0, !.is_websocket = TRUE, !.re = id]
    BY <1>4 DEF Served, Upgrade, Send, Conn
  <2> QED
    BY <2>1, <1>4 DEF Conn
<1> QED
  BY <1>1, <1>2, <1>3, <1>4 DEF Request

\* The types of what the server has sent, got by the client or not.
LEMMA OutputType ==
  ASSUME Typed
  PROVE  /\ client.got \in Seq(Sent) /\ c.send \in Seq(Sent) /\ Output \in Seq(Sent)
         /\ Len(client.got) \in Nat /\ Len(c.send) \in Nat
         /\ Len(Output) = Len(client.got) + Len(c.send)
         /\ DOMAIN Output = 1 .. Len(Output) /\ DOMAIN client.got = 1 .. Len(client.got)
         /\ Output # <<>> => Len(Output) \in DOMAIN Output
         /\ c.send # <<>> => Len(c.send) # 0
         /\ \A i \in DOMAIN client.got : i \in DOMAIN Output /\ Output[i] = client.got[i]
<1>1. client.got \in Seq(Sent) /\ c.send \in Seq(Sent)
  BY DEF Typed, Client, Conn
<1> DEFINE g == client.got
           s == c.send
<1>2. g \in Seq(Sent) /\ s \in Seq(Sent) /\ Len(g) \in Nat /\ Len(s) \in Nat
  BY <1>1
<1> HIDE DEF g, s
<1>3. /\ g \o s \in Seq(Sent) /\ Len(g \o s) = Len(g) + Len(s)
      /\ \A i \in 1 .. Len(g) : (g \o s)[i] = g[i]
      /\ \A i \in Len(g) + 1 .. Len(g) + Len(s) : (g \o s)[i] = s[i - Len(g)]
  BY <1>2, SentCells
<1>4. \A i \in 1 .. Len(g) : i \in 1 .. Len(g) + Len(s)
  BY <1>2
<1>5. /\ DOMAIN (g \o s) = 1 .. Len(g \o s) /\ DOMAIN g = 1 .. Len(g)
      /\ g \o s # <<>> => Len(g \o s) \in DOMAIN (g \o s)
      /\ s # <<>> => Len(s) # 0
  BY <1>2, <1>3
<1> QED
  BY <1>2, <1>3, <1>4, <1>5 DEF Output, g, s

\* Writing moves cells from one part of the output to the other.
LEMMA WriteCells ==
  ASSUME NEW g \in Seq(Sent), NEW s \in Seq(Sent), NEW n \in 1 .. Len(s)
  PROVE  /\ g \o SubSeq(s, 1, n) \in Seq(Sent) /\ Del(s, 0, n) \in Seq(Sent)
         /\ (g \o SubSeq(s, 1, n)) \o Del(s, 0, n) = g \o s
<1> DEFINE front == SubSeq(s, 1, n)
           back  == SubSeq(s, n + 1, Len(s))
<1>1. front \in Seq(Sent) /\ back \in Seq(Sent) /\ n \in Nat
  OBVIOUS
<1>2. front \o back = s
  <2>1. 1 \in 1 .. Len(s) + 1 /\ n \in 1 - 1 .. Len(s) /\ Len(s) \in n .. Len(s)
    OBVIOUS
  <2>2. SubSeq(s, 1, n) \o SubSeq(s, n + 1, Len(s)) = SubSeq(s, 1, Len(s))
    BY <2>1, ConcatAdjacentSubSeq
  <2> QED
    BY <2>2, SubSeqFull
<1>3. Del(s, 0, n) = back
  <2>1. SubSeq(s, 1, 0) = <<>> /\ 0 + n + 1 = n + 1
    BY <1>1
  <2>2. <<>> \o back = back
    BY <1>1
  <2> QED
    BY <2>1, <2>2 DEF Del
<1> HIDE DEF front, back
<1>4. (g \o front) \o back = g \o (front \o back)
  BY <1>1, SentAssociative
<1>5. g \o front \in Seq(Sent)
  BY <1>1, SentCells
<1> QED
  BY <1>1, <1>2, <1>3, <1>4, <1>5 DEF front

\* A step that neither sends nor ends a reply.
LEMMA SameReplies ==
  ASSUME Typed, Typed', Replying, Output' = Output,
         \A i \in DOMAIN client.asked :
           i \in DOMAIN client'.asked /\ client'.asked[i] = client.asked[i],
         c'.pfn = c.pfn, c'.is_resp = c.is_resp, c'.left = c.left, c'.re = c.re,
         Unframed' => Unframed,
         c.pfn = "static" /\ c.left = 0 => c'.send # <<>>,
         ~client'.early /\ c.pfn = "ws" /\ loop' = "http" => ~Whole(Len(client.asked))'
  PROVE  Replying' /\ Done' = Done
<1>1. Last' = Last /\ Done' = Done
  BY DEF Last, Done
<1>2. Ordered(Output', client'.asked)
  <2>1. Ordered(Output, client.asked)
    BY DEF Replying
  <2> QED
    BY <2>1 DEF Ordered
<1>3. c.pfn = "static" => client'.asked[c.re] = "file"
  <2> SUFFICES ASSUME c.pfn = "static" PROVE c.re \in DOMAIN client.asked
    BY DEF Replying
  <2>1. Output \in Seq(Sent) /\ Output # <<>> /\ Last = Reply(c.re, FileSize - c.left, c.left = 0)
    BY OutputType DEF Replying
  <2>2. Len(Output) \in DOMAIN Output
    BY <2>1
  <2>3. IsReply(Last) /\ Last.re = c.re
    BY <2>1 DEF IsReply, Reply
  <2> QED
    BY <2>2, <2>3 DEF Replying, Ordered, Last
<1>4. c'.is_resp <=> c'.pfn = "static"
  BY DEF Replying
<1>5. Unframed' =>
        /\ \A i \in DOMAIN Output' : IsReply(Output'[i]) /\ Output'[i].re <= Done'
        /\ Output' = <<>> => Done' = 0
        /\ Output' # <<>> => Last'.re = Done'
        /\ c'.pfn # "static" /\ Output' # <<>> => Last'.end
  BY <1>1 DEF Replying
<1>6. c'.pfn = "static" =>
        /\ Output' # <<>>
        /\ Last' = Reply(c'.re, FileSize - c'.left, c'.left = 0)
        /\ client'.asked[c'.re] = "file"
        /\ \A i \in DOMAIN Output' : i < Len(Output') /\ Output'[i].re = c'.re => ~Output'[i].end
        /\ c'.left = 0 => c'.send # <<>>
  BY <1>1, <1>3 DEF Replying
<1>7. ~client'.early /\ c'.pfn = "ws" /\ loop' = "http" => ~Whole(Len(client.asked))'
  OBVIOUS
<1> QED
  BY <1>1, <1>2, <1>4, <1>5, <1>6, <1>7 DEF Replying

\* The pieces of a file continue its reply, up to its end.
LEMMA PiecesOrdered ==
  ASSUME NEW o \in Seq(Sent), NEW asked, NEW d \in Conn, NEW n \in 1 .. d.left,
         Ordered(o, asked), o # <<>>, asked[d.re] = "file",
         o[Len(o)] = Reply(d.re, FileSize - d.left, d.left = 0)
  PROVE  LET p == o \o Pieces(d, n)
         IN  /\ Pieces(d, n) \in Seq(Sent) /\ Len(Pieces(d, n)) = n
             /\ p \in Seq(Sent) /\ Len(p) = Len(o) + n /\ Ordered(p, asked)
             /\ p[Len(p)] = Reply(d.re, FileSize - (d.left - n), d.left - n = 0)
             /\ \A i \in 1 .. Len(o) : p[i] = o[i]
             /\ \A i \in Len(o) + 1 .. Len(o) + n :
                  /\ IsReply(p[i]) /\ p[i].re = d.re
                  /\ i < Len(o) + n => ~p[i].end
<1> DEFINE x == Pieces(d, n)
           L == Len(o)
           q == FileSize - d.left
<1>1. /\ L \in Nat /\ L > 0 /\ n \in Nat /\ n >= 1 /\ n <= d.left /\ d.left \in Nat /\ d.re \in Nat
      /\ d.left <= FileSize /\ FileSize \in Nat /\ q \in Nat
  BY SizeAssumption DEF Conn
<1>2. \A i \in 1 .. n : q + i \in Nat /\ (i = d.left) \in BOOLEAN
  BY <1>1
<1>3. \A i \in 1 .. n : Reply(d.re, q + i, i = d.left) \in Sent
  BY <1>1, <1>2, ReplySent
<1>4. x = [i \in 1 .. n |-> Reply(d.re, q + i, i = d.left)]
  BY DEF Pieces
<1>5. x \in Seq(Sent) /\ Len(x) = n
  BY <1>1, <1>3, <1>4
<1>6. \A i \in 1 .. n :
        IsReply(x[i]) /\ x[i].re = d.re /\ x[i].part = q + i /\ x[i].end = (i = d.left)
  BY <1>4 DEF Reply, IsReply
<1>7. /\ IsReply(o[L]) /\ o[L].re = d.re /\ o[L].part = q /\ ~o[L].end
  <2>1. d.left # 0
    BY <1>1
  <2> HIDE DEF q
  <2>2. o[L] = [re |-> d.re, part |-> q, end |-> (d.left = 0)]
    BY DEF Reply, q
  <2> HIDE DEF L
  <2>3. IsReply(o[L]) /\ o[L].re = d.re /\ o[L].part = q
    BY <2>2 DEF IsReply
  <2>4. o[L].end = (d.left = 0)
    BY <2>2
  <2> QED
    BY <2>1, <2>3, <2>4
<1>8. d.re \in DOMAIN asked
  <2>1. L \in DOMAIN o
    BY <1>1
  <2> QED
    BY <1>7, <2>1 DEF Ordered
<1>z. q + d.left = FileSize
  BY <1>1
<1> HIDE DEF x, L, q
<1>9. ASSUME NEW i \in 1 .. Len(x)
      PROVE  /\ IsReply(x[i]) /\ x[i].re \in DOMAIN asked
             /\ x[i].end <=> x[i].part = IF asked[x[i].re] = "file" THEN FileSize ELSE 0
             /\ i > 1 => Continues(x[i - 1], x[i])
  <2>1. i \in 1 .. n /\ IsReply(x[i]) /\ x[i].re = d.re /\ x[i].part = q + i /\ x[i].end = (i = d.left)
    BY <1>5, <1>6
  <2>2. (i = d.left) <=> (q + i = FileSize)
    BY <1>1, <1>z, <2>1, q \in Nat
  <2>3. ASSUME i > 1 PROVE Continues(x[i - 1], x[i])
    <3>1. i - 1 \in 1 .. n /\ i - 1 # d.left /\ q + i = q + (i - 1) + 1
      BY <1>1, <2>1, <2>3
    <3> DEFINE j == i - 1
    <3>2. /\ x[j].re = d.re /\ x[j].part = q + j /\ x[j].end = (j = d.left)
      BY <1>6, <3>1
    <3> QED
      BY <2>1, <3>1, <3>2 DEF Continues
  <2> QED
    BY <1>8, <2>1, <2>2, <2>3
<1>10. Continues(o[L], x[1])
  <2>1. 1 \in 1 .. n
    BY <1>1
  <2> QED
    BY <1>6, <1>7, <2>1 DEF Continues
<1>11. Ordered(o \o x, asked)
  BY <1>5, <1>7, <1>9, <1>10, ConcatOrdered DEF L
<1> DEFINE p == o \o x
<1>12. /\ p \in Seq(Sent) /\ Len(p) = L + n
       /\ \A i \in 1 .. L : p[i] = o[i]
       /\ \A i \in L + 1 .. L + n : p[i] = x[i - L]
  BY <1>5, SentCells DEF L
<1> HIDE DEF p
<1>13. p[Len(p)] = Reply(d.re, FileSize - (d.left - n), d.left - n = 0)
  <2>1. L + n \in L + 1 .. L + n /\ (L + n) - L = n /\ n \in 1 .. n
    BY <1>1
  <2>2. p[L + n] = x[n]
    BY <1>12, <2>1
  <2>3. q + n = FileSize - (d.left - n) /\ (n = d.left) = (d.left - n = 0)
    BY <1>1 DEF q
  <2> QED
    BY <1>4, <1>12, <2>1, <2>2, <2>3
<1>14. ASSUME NEW i \in L + 1 .. L + n
       PROVE  IsReply(p[i]) /\ p[i].re = d.re /\ (i < L + n => ~p[i].end)
  <2> DEFINE j == i - L
  <2>1. j \in 1 .. n
    BY <1>1
  <2>2. p[i] = x[j]
    BY <1>12
  <2>3. i < L + n => j # d.left
    BY <1>1
  <2> HIDE DEF j
  <2> QED
    BY <1>6, <2>1, <2>2, <2>3
<1> QED
  BY <1>5, <1>11, <1>12, <1>13, <1>14 DEF x, L, p

\* static_cb, with the output as it was or with some of it written.
LEMMA StaticReplies ==
  ASSUME Typed, Typed', Replying, c.pfn = "static", client'.asked = client.asked,
         NEW d \in Conn, d.pfn = "static", d.is_resp, d.left = c.left, d.re = c.re,
         c' = StaticCb(d), client'.got \o d.send = Output
  PROVE  /\ Replying' /\ Done' = Done /\ c'.pfn # "ws"
         /\ c'.recv = d.recv /\ c'.ofs = d.ofs
         /\ c'.is_closing = d.is_closing /\ c'.failed = d.failed
<1> DEFINE o == Output
           L == Len(o)
<1>1. /\ o \in Seq(Sent) /\ L \in Nat /\ o # <<>> /\ L \in 1 .. L /\ DOMAIN o = 1 .. L
      /\ d.left \in 0 .. FileSize /\ FileSize \in Nat /\ d.send \in Seq(Sent) /\ client'.got \in Seq(Sent)
  <2>1. o \in Seq(Sent) /\ o # <<>>
    BY OutputType DEF Replying
  <2>2. d.left \in 0 .. FileSize /\ d.send \in Seq(Sent) /\ client'.got \in Seq(Sent)
    BY DEF Conn, Typed, Client
  <2> HIDE DEF o
  <2> QED
    BY <2>1, <2>2, SizeAssumption
<1>2. o[L] = Reply(d.re, FileSize - d.left, d.left = 0) /\ Done = d.re
  BY DEF Replying, Last, Done
<1>3. /\ client.asked[d.re] = "file" /\ Ordered(o, client.asked)
      /\ \A i \in DOMAIN o : IsReply(o[i]) /\ o[i].re <= d.re
      /\ \A i \in DOMAIN o : i < L /\ o[i].re = d.re => ~o[i].end
  BY <1>2 DEF Replying, Unframed
<1>o. /\ Output' = client'.got \o c'.send /\ client'.got \o d.send = o
      /\ Ordered(Output', client.asked) => Ordered(Output, client.asked)'
  BY DEF Output, Ordered
<1> HIDE DEF o, L
<1>r. o[L].re = d.re /\ o[L].end = (d.left = 0)
  BY <1>2 DEF Reply
<1>4. CASE c' = d /\ d.send # <<>>
  <2>1. Output' = o
    BY <1>4, <1>o
  <2>2. Ordered(Output, client.asked)'
    BY <2>1, <1>o, <1>3
  <2>3. Last' = o[L] /\ Done' = d.re
    BY <1>1, <1>4, <2>1 DEF Last, Done, L
  <2> QED
    <3>1. Last'.re = d.re /\ Output' # <<>> /\ c'.pfn = "static" /\ c'.is_resp
      BY <1>1, <1>4, <1>r, <2>1, <2>3
    <3>2. Last' = Reply(c'.re, FileSize - c'.left, c'.left = 0) /\ (c'.left = 0 => c'.send # <<>>)
      BY <1>2, <1>4, <2>3
    <3>3. \A i \in DOMAIN Output' : i < Len(Output') /\ Output'[i].re = c'.re => ~Output'[i].end
      BY <1>3, <1>4, <2>1 DEF L
    <3>4. \A i \in DOMAIN Output' : IsReply(Output'[i]) /\ Output'[i].re <= Done'
      BY <1>3, <2>1, <2>3
    <3>5. client'.asked[c'.re] = "file"
      BY <1>3, <1>4
    <3>6. Replying'
      BY <2>2, <2>3, <3>1, <3>2, <3>3, <3>4, <3>5 DEF Replying
    <3> QED
      BY <1>2, <1>4, <2>3, <3>1, <3>6
<1>5. CASE c' = [d EXCEPT !.pfn = "http", !.is_resp = FALSE] /\ d.left = 0
  <2>1. /\ c'.pfn = "http" /\ ~c'.is_resp /\ c'.send = d.send
        /\ c'.recv = d.recv /\ c'.ofs = d.ofs /\ c'.re = d.re
        /\ c'.is_closing = d.is_closing /\ c'.failed = d.failed
    BY <1>5 DEF Conn
  <2>2. Output' = o
    BY <2>1, <1>o
  <2>3. Ordered(Output, client.asked)'
    BY <2>2, <1>o, <1>3
  <2>4. Last' = o[L] /\ Done' = d.re /\ o[L].end
    BY <1>1, <1>r, <1>5, <2>1, <2>2 DEF Last, Done, L
  <2> QED
    <3>1. Last'.re = d.re /\ Last'.end /\ Output' # <<>>
      BY <1>1, <1>r, <2>2, <2>4
    <3>2. \A i \in DOMAIN Output' : IsReply(Output'[i]) /\ Output'[i].re <= Done'
      BY <1>3, <2>2, <2>4
    <3>3. Replying'
      BY <2>1, <2>3, <2>4, <3>1, <3>2 DEF Replying
    <3> QED
      BY <1>2, <2>1, <2>4, <3>3
<1>6. ASSUME NEW n \in 1 .. d.left,
             c' = [d EXCEPT !.send = d.send \o Pieces(d, n), !.left = d.left - n]
      PROVE  /\ Replying' /\ Done' = Done /\ c'.pfn # "ws"
             /\ c'.recv = d.recv /\ c'.ofs = d.ofs
             /\ c'.is_closing = d.is_closing /\ c'.failed = d.failed
  <2> DEFINE x == Pieces(d, n)
             p == o \o x
  <2>1. /\ x \in Seq(Sent) /\ Len(x) = n
        /\ p \in Seq(Sent) /\ Len(p) = L + n /\ Ordered(p, client.asked)
        /\ p[Len(p)] = Reply(d.re, FileSize - (d.left - n), d.left - n = 0)
        /\ \A i \in 1 .. L : p[i] = o[i]
        /\ \A i \in L + 1 .. L + n :
             /\ IsReply(p[i]) /\ p[i].re = d.re
             /\ i < L + n => ~p[i].end
    BY <1>1, <1>2, <1>3, PiecesOrdered DEF L
  <2> HIDE DEF x
  <2>2. /\ c'.pfn = "static" /\ c'.is_resp /\ c'.send = d.send \o x /\ c'.left = d.left - n
        /\ c'.re = d.re /\ c'.recv = d.recv /\ c'.ofs = d.ofs
        /\ c'.is_closing = d.is_closing /\ c'.failed = d.failed
    BY <1>6 DEF Conn, x
  <2>3. Output' = p
    <3> DEFINE g == client'.got
               s == d.send
    <3>1. g \in Seq(Sent) /\ s \in Seq(Sent)
      BY <1>1
    <3> HIDE DEF g, s
    <3>2. (g \o s) \o x = g \o (s \o x)
      BY <3>1, <2>1, SentAssociative
    <3> QED
      BY <1>o, <2>2, <3>2 DEF g, s
  <2> HIDE DEF p
  <2>4. Ordered(Output, client.asked)'
    BY <1>o, <2>1, <2>3
  <2>5. Len(p) \in Nat /\ Len(p) > L /\ p # <<>> /\ DOMAIN p = 1 .. L + n /\ n \in Nat /\ n >= 1
    BY <1>1, <2>1
  <2>6. Last' = Reply(d.re, FileSize - (d.left - n), d.left - n = 0) /\ Done' = d.re
    BY <2>1, <2>2, <2>3, <2>5 DEF Last, Done
  <2>7. c'.send # <<>>
    <3> DEFINE s == d.send
    <3>1. s \in Seq(Sent) /\ Len(s) \in Nat
      BY <1>1
    <3> HIDE DEF s
    <3>2. s \o x \in Seq(Sent) /\ Len(s \o x) = Len(s) + Len(x)
      BY <2>1, <3>1, SentCells
    <3>3. s \o x # <<>>
      BY <2>1, <2>5, <3>1, <3>2
    <3> QED
      BY <2>2, <3>3 DEF s
  <2>8. d.re \in Nat
    BY DEF Conn
  <2>9. ASSUME NEW i \in DOMAIN p
        PROVE  IsReply(p[i]) /\ p[i].re <= d.re /\ (i < L + n /\ p[i].re = d.re => ~p[i].end)
    <3>1. CASE i \in 1 .. L
      <4>1. p[i] = o[i] /\ i \in DOMAIN o /\ IsReply(o[i]) /\ o[i].re <= d.re
        BY <1>1, <1>3, <2>1, <3>1
      <4>2. i < L /\ o[i].re = d.re => ~o[i].end
        BY <1>3, <4>1
      <4>3. ~o[L].end
        <5>1. d.left # 0
          BY <1>1
        <5> QED
          BY <1>r, <5>1
      <4>4. i < L \/ i = L
        BY <1>1, <3>1
      <4> QED
        BY <4>1, <4>2, <4>3, <4>4
    <3>2. CASE i \in L + 1 .. L + n
      BY <2>1, <2>8, <3>2
    <3> QED
      BY <1>1, <2>5, <3>1, <3>2
  <2>10. \A i \in DOMAIN Output' : IsReply(Output'[i]) /\ Output'[i].re <= Done'
    BY <2>3, <2>6, <2>9
  <2>11. \A i \in DOMAIN Output' : i < Len(Output') /\ Output'[i].re = c'.re => ~Output'[i].end
    BY <2>1, <2>2, <2>3, <2>9
  <2> QED
    <3>1. Last'.re = d.re /\ Output' # <<>>
      BY <2>3, <2>5, <2>6 DEF Reply
    <3>2. Last' = Reply(c'.re, FileSize - c'.left, c'.left = 0)
      BY <2>2, <2>6
    <3>3. client'.asked[c'.re] = "file"
      BY <1>3, <2>2
    <3>4. Replying'
      BY <2>2, <2>4, <2>6, <2>7, <2>10, <2>11, <3>1, <3>2, <3>3 DEF Replying
    <3> QED
      BY <1>2, <2>2, <2>6, <3>4
<1> QED
  BY <1>4, <1>5, <1>6, StaticCbShape

(***************************************************************************)
(* What is in the stream                                                   *)
(***************************************************************************)
LEMMA DoneType == Typed => Done \in Nat
BY DEF Typed, Conn, Done

\* The client has no part of the reply to a request that is not served.
LEMMA NotWhole ==
  ASSUME Typed, Replying, Unframed, NEW id \in Nat, id > Done
  PROVE  ~Whole(id)
<1> SUFFICES ASSUME NEW i \in DOMAIN client.got, client.got[i].re = id PROVE FALSE
  BY DEF Whole
<1>1. i \in DOMAIN Output /\ Output[i] = client.got[i]
  BY OutputType
<1>2. Output[i].re <= Done
  BY <1>1 DEF Replying
<1> QED
  BY <1>1, <1>2, DoneType

\* As long as a file is streamed, the client does not have the end of it.
LEMMA StreamedNotWhole ==
  ASSUME Typed, Replying, c.pfn = "static"
  PROVE  c.re \in DOMAIN client.asked /\ Done = c.re /\ ~Whole(c.re)
<1> DEFINE L == Len(Output)
           a == Len(client.got)
           b == Len(c.send)
<1>o. Output # <<>>
  BY DEF Replying
<1>1. /\ L \in DOMAIN Output /\ DOMAIN Output = 1 .. L
      /\ L = a + b /\ a \in Nat /\ b \in Nat
      /\ DOMAIN client.got = 1 .. a /\ (c.send # <<>> => b # 0)
      /\ \A i \in DOMAIN client.got : i \in DOMAIN Output /\ Output[i] = client.got[i]
  BY <1>o, OutputType
<1>2. Last = Output[L] /\ Last = Reply(c.re, FileSize - c.left, c.left = 0) /\ Output # <<>>
  BY DEF Last, Replying
<1> HIDE DEF L, a, b
<1>n. L \in Nat /\ L = a + b /\ a \in Nat /\ b \in Nat
  BY <1>1
<1>3. IsReply(Output[L]) /\ Output[L].re = c.re /\ Output[L].end = (c.left = 0)
  BY <1>2 DEF Reply, IsReply
<1>4. c.re \in DOMAIN client.asked /\ Done = c.re
  BY <1>1, <1>2, <1>3 DEF Done, Replying, Ordered
<1>5. ASSUME NEW i \in DOMAIN client.got, client.got[i].re = c.re, client.got[i].end PROVE FALSE
  <2>a. i \in DOMAIN Output /\ i \in DOMAIN client.got
    BY <1>1
  <2>1. Output[i].re = c.re /\ Output[i].end
    BY <1>1, <1>5
  <2>b. i \in 1 .. L /\ i \in 1 .. a
    BY <1>1, <2>a
  <2>2. i = L
    <3>1. ~(i < L)
      BY <2>1, <2>a DEF Replying, L
    <3> QED
      BY <1>n, <2>b, <3>1
  <2>3. b = 0
    BY <1>n, <2>b, <2>2
  <2>4. c.left = 0
    BY <1>3, <2>1, <2>2
  <2>5. c.send = <<>>
    BY <1>1, <2>3
  <2> QED
    BY <2>4, <2>5 DEF Replying
<1> QED
  BY <1>4, <1>5 DEF Whole

\* Without frames, the stream ends where they would begin.
LEMMA NoFrames ==
  ASSUME Typed, Placed, JInv, ~Over, client.frames = 0
  PROVE  Len(Stream) = FramesFrom
<1>1. PICK fr \in Seq(Frame) : Frames(Stream, FramesFrom, fr) /\ Kept + Len(fr) <= client.frames
  BY DEF JInv, Framing
<1>2. Kept \in Nat
  BY DEF Kept, Typed, Conn
<1>3. Len(fr) = 0
  BY <1>1, <1>2
<1>4. FramesFrom \in Int
  <2>1. Done \in Nat /\ Len(client.asked) \in Nat /\ parsed \in Nat /\ c.ofs \in Nat
    BY DoneType DEF Typed, Client, Conn
  <2> QED
    BY <2>1 DEF FramesFrom, Owed
<1>5. Len(Stream) = FramesFrom + 3 * 0
  BY <1>1, <1>3 DEF Frames
<1> QED
  BY <1>4, <1>5

\* The cells of the first frame.
LEMMA FirstFrame ==
  ASSUME NEW s, NEW b \in Nat, NEW fr \in Seq(Frame), Frames(s, b, fr), Len(fr) # 0
  PROVE  /\ s[b + 1] = [what |-> "flags", fin |-> fr[1].fin, op |-> fr[1].op]
         /\ s[b + 2] = [what |-> "length", n |-> 1]
         /\ s[b + 3] = Data(fr[1])
<1>1. 1 \in 1 .. Len(fr)
  OBVIOUS
<1>2. /\ s[b + 3 * 1 - 2] = [what |-> "flags", fin |-> fr[1].fin, op |-> fr[1].op]
      /\ s[b + 3 * 1 - 1] = [what |-> "length", n |-> 1]
      /\ s[b + 3 * 1] = Data(fr[1])
  BY <1>1 DEF Frames
<1>3. b + 3 * 1 - 2 = b + 1 /\ b + 3 * 1 - 1 = b + 2 /\ b + 3 * 1 = b + 3
  OBVIOUS
<1> QED
  BY <1>2, <1>3

\* What a parser finds is the first request not served yet, or else a frame.
LEMMA NextCell ==
  ASSUME IInv, JInv, ~Over, parsed + c.ofs < Len(c.recv)
  PROVE  /\ Owed \in Nat /\ Done \in Nat
         /\ Owed > 0 =>
              c.ofs = 0 /\ c.recv[parsed + 1] = RequestCell(client.asked, Done + 1, 1)
         /\ Owed = 0 => client.frames > 0 /\ c.recv[parsed + c.ofs + 1].what = "flags"
<1> DEFINE b == parsed + c.ofs
           k == b + 1
<1>1. /\ c.recv \in Seq(Cell) /\ wire \in Seq(Cell) /\ b \in Nat /\ Len(c.recv) \in Nat
      /\ k \in 1 .. Len(c.recv)
  BY DEF IInv, Typed, Conn
<1>2. Stream[k] = c.recv[k] /\ Len(Stream) = Len(c.recv) + Len(wire)
  BY <1>1, StreamCells DEF Stream
<1>3. /\ Done \in Nat /\ Len(client.asked) \in Nat /\ client.frames \in Nat /\ Len(wire) \in Nat
  BY <1>1, DoneType DEF IInv, Typed, Client
<1>4. Owed \in Nat /\ Owed = Len(client.asked) - Done
  BY <1>3 DEF JInv, Requesting, Owed
<1>5. ASSUME Owed > 0
      PROVE  c.ofs = 0 /\ c.recv[parsed + 1] = RequestCell(client.asked, Done + 1, 1)
  <2>1. c.ofs = 0 /\ b = parsed /\ parsed \in Nat
    BY <1>5 DEF JInv, Requesting, IInv, Typed
  <2>2. 1 \in 1 .. Len(client.asked) - Done /\ b + 2 * 1 - 1 = k /\ k = parsed + 1
    BY <1>1, <1>3, <1>4, <1>5, <2>1
  <2>3. Stream[b + 2 * 1 - 1] = RequestCell(client.asked, Done + 1, 1)
    BY <2>2 DEF JInv, Requesting, Requests
  <2> QED
    BY <1>2, <2>1, <2>2, <2>3
<1>6. ASSUME Owed = 0 PROVE client.frames > 0 /\ c.recv[k].what = "flags"
  <2>1. FramesFrom = b
    BY <1>1, <1>6 DEF FramesFrom
  <2>2. PICK fr \in Seq(Frame) : Frames(Stream, b, fr) /\ Kept + Len(fr) <= client.frames
    BY <2>1 DEF JInv, Framing
  <2>3. Kept \in Nat /\ Len(fr) \in Nat
    BY DEF Kept, IInv, Typed, Conn
  <2>4. Len(fr) # 0
    <3> SUFFICES ASSUME Len(fr) = 0 PROVE FALSE
      OBVIOUS
    <3>1. Len(Stream) = b + 3 * 0
      BY <2>2 DEF Frames
    <3> HIDE DEF b
    <3> QED
      BY <1>1, <1>2, <1>3, <3>1 DEF b
  <2> HIDE DEF b
  <2>5. Stream[b + 1] = [what |-> "flags", fin |-> fr[1].fin, op |-> fr[1].op]
    BY <1>1, <2>2, <2>4, FirstFrame
  <2> QED
    BY <1>2, <1>3, <2>2, <2>3, <2>4, <2>5
<1> QED
  BY <1>3, <1>4, <1>5, <1>6

\* The HTTP parser delivers a request before the close, unless the client is
\* early.
LEMMA MessageBefore ==
  ASSUME JInv, HttpMessage
  PROVE  Adrift \/ (at # "gone" /\ ~c.is_closing)
<1>1. loop = "http" /\ Complete(c.recv, parsed) /\ (at # "gone" => ~c.is_closing)
  BY DEF JInv, HttpMessage, Closed
<1>2. at = "gone" => client.early
  BY <1>1 DEF JInv, Polite
<1>3. at # "gone" => ~c.is_closing
  BY <1>1
<1> QED
  BY <1>2, <1>3 DEF Adrift

\* A polite client has asked at most one more than was served, and sent no
\* frame, before it is upgraded.
LEMMA PoliteHttp ==
  ASSUME IInv, JInv, ~client.early, c.pfn # "ws"
  PROVE  /\ client.frames = 0 /\ Len(Stream) = parsed + 2 * Owed
         /\ Owed \in {0, 1}
         /\ c.pfn = "static" => Owed = 0
<1> DEFINE a == Len(client.asked)
<1>o. ~Over /\ Replying /\ Unframed /\ c.ofs = 0
  BY DEF Over, Unframed, JInv, Adrift, IInv, Placed
<1>1. /\ a \in Nat /\ Done \in Nat /\ client.frames \in Nat /\ parsed \in Nat
      /\ DOMAIN client.asked = 1 .. a
  BY DoneType DEF IInv, Typed, Client, JInv
<1>2. Done <= a
  BY <1>o DEF JInv, Requesting
<1>3. \A id \in Nat : id > Done => ~Whole(id)
  BY <1>o, NotWhole DEF IInv
<1>4. \A id \in DOMAIN client.asked : id < a \/ client.frames > 0 => Whole(id)
  BY DEF JInv, Polite
<1> HIDE DEF a
<1>5. client.frames = 0
  <2> SUFFICES ASSUME client.frames > 0 PROVE FALSE
    BY <1>1
  <2>1. Asks("upgrade")
    BY DEF JInv, Requesting
  <2>2. Done < a
    BY <1>1, <2>1 DEF JInv, Requesting, Upgrading, Owed, a
  <2>3. a \in Nat /\ a \in DOMAIN client.asked /\ a > Done
    BY <1>1, <2>2
  <2> QED
    BY <1>3, <1>4, <2>3
<1>6. a - Done \in {0, 1}
  <2> SUFFICES ASSUME a - Done > 1 PROVE FALSE
    BY <1>1, <1>2
  <2> DEFINE id == Done + 1
  <2>1. id \in DOMAIN client.asked /\ id < a /\ id \in Nat /\ id > Done
    BY <1>1
  <2> HIDE DEF id
  <2> QED
    BY <1>3, <1>4, <2>1
<1>7. Owed = a - Done
  BY DEF Owed, a
<1>8. c.pfn = "static" => Owed = 0
  <2> SUFFICES ASSUME c.pfn = "static" PROVE a = Done
    BY <1>1, <1>7
  <2>1. Done \in DOMAIN client.asked /\ ~Whole(Done)
    BY <1>o, StreamedNotWhole DEF IInv
  <2>2. ~(Done < a)
    BY <1>4, <2>1
  <2> QED
    BY <1>1, <1>2, <2>2
<1>10. Len(Stream) = parsed + 2 * Owed
  <2>1. Len(Stream) = FramesFrom
    BY <1>5, <1>o, NoFrames DEF IInv
  <2> QED
    BY <1>1, <1>7, <1>o, <2>1 DEF FramesFrom
<1> QED
  BY <1>5, <1>6, <1>7, <1>8, <1>10

\* Nor has it when the parser that has just upgraded it goes on.
LEMMA PoliteUpgraded ==
  ASSUME IInv, JInv, ~client.early, c.pfn = "ws", loop = "http", ~c.is_closing
  PROVE  Len(Stream) = parsed /\ client.frames = 0
<1>1. /\ client.frames \in Nat /\ Len(client.asked) \in Nat /\ parsed \in Nat /\ c.ofs = 0
      /\ Replying /\ ~Over /\ Owed = 0
  BY DEF IInv, Typed, Client, Placed, JInv, Adrift, Over, Requesting, Upgrading
<1>2. client.frames = 0
  <2> SUFFICES ASSUME client.frames > 0 PROVE FALSE
    BY <1>1
  <2>1. Asks("upgrade")
    BY DEF JInv, Requesting
  <2>2. Len(client.asked) \in DOMAIN client.asked
    BY <2>1 DEF Asks, JInv, Requesting, Upgrading
  <2>3. Whole(Len(client.asked))
    BY <2>2 DEF JInv, Polite
  <2> QED
    BY <1>1, <2>3 DEF Replying
<1>3. Len(Stream) = FramesFrom
  BY <1>1, <1>2, NoFrames DEF IInv
<1> QED
  BY <1>1, <1>2, <1>3 DEF FramesFrom

(***************************************************************************)
(* The steps that leave the stream alone                                   *)
(***************************************************************************)
LEMMA SameRequests ==
  ASSUME Requesting, Framing, heard' = heard, parsed' = parsed, Stream' = Stream,
         client'.asked = client.asked, client'.frames = client.frames,
         client'.said = client.said, client'.saying = client.saying,
         client'.early = client.early,
         c'.ofs = c.ofs, \A j \in 2 .. c.ofs : c'.recv[j] = c.recv[j],
         c'.pfn = "ws" <=> c.pfn = "ws", Done' = Done,
         Over => Over'
  PROVE  Requesting' /\ Framing'
<1>1. Asks("upgrade")' <=> Asks("upgrade")
  BY DEF Asks
<1>2. Owed' = Owed
  BY DEF Owed
<1>4. Requesting'
  <2>1. Upgrading => Upgrading'
    BY <1>1, <1>2 DEF Upgrading
  <2>2. ~Over' => Requests(Stream, parsed + c.ofs, client.asked, Done)'
    BY DEF Requesting, Requests
  <2> HIDE DEF Upgrading
  <2> QED
    BY <1>1, <1>2, <2>1, <2>2 DEF Requesting
<1>5. Framing'
  <2> SUFFICES ASSUME ~Over'
               PROVE  /\ c'.ofs # 1
                      /\ \A j \in 2 .. c'.ofs : c'.recv[j] = Unmask(Payload(Len(heard') + 1, j - 1))
                      /\ \E fr \in Seq(Frame) :
                           /\ Frames(Stream', FramesFrom', fr)
                           /\ InStep(fr)'
                           /\ Kept' + Len(fr) <= client'.frames
    BY DEF Framing, Frames
  <2>1. PICK fr \in Seq(Frame) :
          Frames(Stream, FramesFrom, fr) /\ InStep(fr) /\ Kept + Len(fr) <= client.frames
    BY DEF Framing
  <2>2. FramesFrom' = FramesFrom /\ Kept' = Kept
    BY <1>2 DEF FramesFrom, Kept
  <2>3. \A f : Position(fr, f)' = Position(fr, f)
    BY DEF Position
  <2>4. InStep(fr)'
    BY <2>1, <2>2, <2>3 DEF InStep
  <2> QED
    BY <2>1, <2>2, <2>4 DEF Framing
<1> QED
  BY <1>4, <1>5

\* Steps that neither say nor hear anything leave Speaking as it is.
LEMMA SameSpeech ==
  ASSUME Speaking, heard' = heard, client'.frames = client.frames,
         client'.said = client.said, client'.saying = client.saying
  PROVE  Speaking'
BY DEF Speaking, Spoken

\* MG_EV_POLL: static_cb may send another piece of its file.
LEMMA PollKeeps == IInv /\ IInv' /\ JInv /\ Poll => JInv'
<1> SUFFICES ASSUME IInv, IInv', JInv, Poll PROVE JInv'
  OBVIOUS
<1>1. /\ at = "poll" /\ loop = "none" /\ at' = "read" /\ c' = Handled(c)
      /\ UNCHANGED <<parsed, session, heard, wire, client>>
      /\ Typed /\ Typed' /\ Placed /\ Placed' /\ c \in Conn
      /\ Replying /\ Requesting /\ Framing /\ Speaking /\ Closed /\ Polite
  BY DEF Poll, IInv, Typed, JInv, Adrift
<1>2. /\ Replying' /\ Done' = Done /\ (c'.pfn = "ws" <=> c.pfn = "ws")
      /\ c'.recv = c.recv /\ c'.ofs = c.ofs /\ c'.is_closing = c.is_closing /\ c'.failed = c.failed
      /\ \/ c' = c /\ loop' = "none"
         \/ c'.pfn = "static" /\ loop' # "ws"
         \/ c.pfn # "ws" /\ c'.pfn = "http" /\ loop' = "http"
  <2>1. CASE c.pfn = "static"
    <3>1. c' = StaticCb(c) /\ c.is_resp /\ client'.asked = client.asked /\ client'.got \o c.send = Output
      BY <1>1, <2>1 DEF Handled, Placed, Output
    <3>2. /\ Replying' /\ Done' = Done /\ c'.pfn # "ws" /\ c'.recv = c.recv /\ c'.ofs = c.ofs
          /\ c'.is_closing = c.is_closing /\ c'.failed = c.failed
      BY <1>1, <2>1, <3>1, StaticReplies
    <3>3. c'.pfn \in {"http", "static"}
      BY <1>1, <3>2 DEF Typed, Conn
    <3>4. CASE c'.pfn = "static"
      <4>1. c'.is_resp
        BY <3>2, <3>4 DEF Replying
      <4>2. loop' = "none"
        BY <1>1, <4>1 DEF Poll
      <4> QED
        BY <2>1, <3>2, <3>4, <4>2
    <3>5. CASE c'.pfn = "http"
      <4>1. ~c'.is_resp
        BY <3>2, <3>5 DEF Replying
      <4>2. ReadEvent(Handled(c))
        BY <1>1, <3>1, <4>1 DEF Poll
      <4>3. loop' = "http"
        BY <1>1, <3>5, <4>2 DEF ReadEvent
      <4> QED
        BY <2>1, <3>2, <3>5, <4>3
    <3> QED
      BY <3>3, <3>4, <3>5
  <2>2. CASE c.pfn # "static"
    <3>1. c' = c
      BY <1>1, <2>2 DEF Handled
    <3>2. loop' = "none"
      BY <1>1, <3>1 DEF Poll
    <3>3. Output' = Output /\ client' = client
      BY <1>1, <3>1 DEF Output
    <3>4. Replying' /\ Done' = Done
      <4>1. Unframed' => Unframed
        BY <1>1, <3>1 DEF Unframed, Owed, Done
      <4>2. c.pfn = "static" /\ c.left = 0 => c'.send # <<>>
        BY <2>2
      <4> QED
        BY <1>1, <2>2, <3>1, <3>2, <3>3, <4>1, <4>2, SameReplies
    <3> QED
      BY <3>1, <3>2, <3>4
  <2> QED
    BY <2>1, <2>2
<1>4. Stream' = Stream /\ (Over => Over')
  BY <1>1, <1>2 DEF Stream, Over
<1>5. Requesting' /\ Framing'
  BY <1>1, <1>2, <1>4, SameRequests
<1>6. Speaking'
  BY <1>1, SameSpeech
<1>c. Closed'
  BY <1>1, <1>2 DEF Closed
<1>7. Polite'
  <2>1. \A id : Whole(id)' <=> Whole(id)
    BY <1>1 DEF Whole
  <2>2. /\ c'.pfn = "http" /\ loop' = "none" => c' = c
        /\ c'.pfn = "ws" /\ loop' = "none" => c' = c
    BY <1>2
  <2> QED
    BY <1>1, <1>2, <2>1, <2>2 DEF Polite
<1> QED
  BY <1>2, <1>5, <1>6, <1>c, <1>7 DEF JInv

\* The buffer of a polite client never fills up: there is one request in it, or
\* the fragments of a message and an incomplete frame.
LEMMA PoliteFits ==
  ASSUME IInv, JInv, ~client.early, at = "read", loop = "none", ~c.is_closing
  PROVE  Len(c.recv) < MaxRecv
<1> DEFINE r == Len(c.recv)
           o == c.ofs
<1>1. /\ c.recv \in Seq(Cell) /\ wire \in Seq(Cell) /\ r \in Nat /\ o \in Nat /\ parsed = 0
      /\ client.frames \in Nat
  BY DEF IInv, Typed, Placed, Conn, Client
<1>2. /\ Len(Stream) \in Nat /\ r <= Len(Stream)
      /\ \A i \in 1 .. r : Stream[i] = c.recv[i]
  <2> DEFINE s == c.recv
  <2>1. s \in Seq(Cell) /\ wire \in Seq(Cell) /\ Len(s) = r
    BY <1>1
  <2> HIDE DEF s, r
  <2>2. /\ s \o wire \in Seq(Cell) /\ Len(s \o wire) = Len(s) + Len(wire)
        /\ \A i \in 1 .. Len(s) : (s \o wire)[i] = s[i]
    BY <2>1, StreamCells
  <2>3. Len(wire) \in Nat
    BY <2>1
  <2> QED
    BY <1>1, <2>1, <2>2, <2>3 DEF Stream, s
<1>3. MaxFrames \in Nat /\ MaxRecv \in Nat /\ MaxFrames + 2 < MaxRecv
  BY SizeAssumption
<1>4. client.frames <= MaxFrames
  BY DEF JInv, Speaking
<1>5. CASE c.pfn # "ws"
  <2>1. Len(Stream) = parsed + 2 * Owed /\ Owed \in {0, 1}
    BY <1>5, PoliteHttp
  <2>2. Len(Stream) <= 2
    BY <1>1, <2>1
  <2> QED
    BY <1>1, <1>2, <1>3, <2>2
<1>6. CASE c.pfn = "ws"
  <2>1. ~FrameAt(c.recv, c.ofs)
    BY <1>6 DEF JInv, Polite
  <2>2. PICK fr \in Seq(Frame) : Frames(Stream, o, fr) /\ Kept + Len(fr) <= client.frames
    <3>1. FramesFrom = o
      BY <1>1, <1>6 DEF FramesFrom, JInv, Requesting, Upgrading
    <3> QED
      BY <1>6, <3>1 DEF JInv, Framing, Over
  <2>3. Kept \in Nat /\ o <= Kept + 1
    BY <1>1 DEF Kept
  <2> DEFINE n == Len(fr)
  <2>4. n \in Nat
    OBVIOUS
  <2>5. CASE n = 0
    <3>1. Len(Stream) = o + 3 * 0
      BY <2>2, <2>5 DEF Frames
    <3>2. r <= o
      BY <1>1, <1>2, <3>1
    <3> QED
      BY <1>1, <1>3, <1>4, <2>2, <2>3, <2>5, <3>2
  <2>6. CASE n # 0
    <3>1. r <= o + 2
      <4> SUFFICES ASSUME r > o + 2 PROVE FALSE
        BY <1>1
      <4>1. o + 1 \in 1 .. r /\ o + 2 \in 1 .. r
        BY <1>1
      <4> HIDE DEF o
      <4>f. /\ Stream[o + 1] = [what |-> "flags", fin |-> fr[1].fin, op |-> fr[1].op]
            /\ Stream[o + 2] = [what |-> "length", n |-> 1]
            /\ Stream[o + 3] = Data(fr[1])
        BY <1>1, <2>2, <2>6, FirstFrame
      <4>2. Stream[o + 1].what = "flags" /\ Stream[o + 2].n = 1
        BY <4>f
      <4>3. c.recv[o + 1].what = "flags" /\ c.recv[o + 2].n = 1
        BY <1>2, <4>1, <4>2
      <4>4. o + 2 <= r /\ o + 2 + 1 <= r
        BY <1>1
      <4> QED
        BY <2>1, <4>3, <4>4 DEF FrameAt, o
    <3>2. o <= client.frames
      BY <1>1, <2>2, <2>3, <2>4, <2>6
    <3> QED
      BY <1>1, <1>3, <1>4, <3>1, <3>2
  <2> QED
    BY <2>5, <2>6
<1> QED
  BY <1>5, <1>6

\* read_conn: cells go from the wire to the buffer, and the stream is the same.
LEMMA ReadKeeps == IInv /\ IInv' /\ JInv /\ Read => JInv'
<1> SUFFICES ASSUME IInv, IInv', JInv, Read PROVE JInv'
  OBVIOUS
<1>1. /\ at = "read" /\ at' \in {"end", "write"} /\ loop = "none" /\ parsed = 0
      /\ UNCHANGED <<parsed, session, heard, client>>
      /\ Typed /\ Typed' /\ Placed /\ Placed' /\ c \in Conn /\ wire \in Seq(Cell)
      /\ Replying /\ Requesting /\ Framing /\ Speaking /\ Closed /\ Polite
  BY DEF Read, IInv, Typed, Placed, JInv, Adrift
<1>2. /\ \/ c' = c /\ loop' = "none"
         \/ c' = [c EXCEPT !.is_closing = TRUE] /\ loop' = "none"
         \/ c' = Fail(c) /\ loop' = "none" /\ client.early
         \/ c'.is_closing = c.is_closing /\ ~c.is_closing /\ c'.failed = c.failed
              /\ loop' = IF c.pfn = "static" THEN "none" ELSE c.pfn
      /\ c'.pfn = c.pfn /\ c'.ofs = c.ofs /\ c'.send = c.send /\ c'.is_resp = c.is_resp
      /\ c'.left = c.left /\ c'.re = c.re /\ (c.is_closing => c'.is_closing)
      /\ Stream' = Stream /\ \A j \in 2 .. c.ofs : c'.recv[j] = c.recv[j]
  <2>1. CASE c' = c /\ loop' = loop /\ wire' = wire
    BY <1>1, <2>1 DEF Stream
  <2>2. CASE c' = [c EXCEPT !.is_closing = TRUE] /\ loop' = loop /\ wire' = wire
    <3>1. /\ c'.pfn = c.pfn /\ c'.ofs = c.ofs /\ c'.send = c.send /\ c'.is_resp = c.is_resp
          /\ c'.left = c.left /\ c'.re = c.re /\ c'.is_closing /\ c'.recv = c.recv
      BY <1>1, <2>2 DEF Conn
    <3> QED
      BY <1>1, <2>2, <3>1 DEF Stream
  <2>3. CASE c' = Fail(c) /\ loop' = loop /\ wire' = wire /\ ~c.is_closing /\ Len(c.recv) >= MaxRecv
    <3>1. /\ c'.pfn = c.pfn /\ c'.ofs = c.ofs /\ c'.send = c.send /\ c'.is_resp = c.is_resp
          /\ c'.left = c.left /\ c'.re = c.re /\ c'.is_closing /\ c'.recv = c.recv
      BY <1>1, <2>3 DEF Fail, Conn
    <3>2. client.early
      <4>1. Len(c.recv) \in Nat /\ MaxRecv \in Nat
        BY <1>1, SizeAssumption DEF Conn
      <4> QED
        BY <1>1, <2>3, <4>1, PoliteFits
    <3> QED
      BY <1>1, <2>3, <3>1, <3>2 DEF Stream
  <2>4. CASE /\ ~c.is_closing
             /\ \E n \in 1 .. Len(wire) :
                  /\ c' = [c EXCEPT !.recv = @ \o SubSeq(wire, 1, n)]
                  /\ wire' = SubSeq(wire, n + 1, Len(wire))
                  /\ ReadEvent(c)
    <3>1. PICK n \in 1 .. Len(wire) :
               /\ c' = [c EXCEPT !.recv = @ \o SubSeq(wire, 1, n)]
               /\ wire' = SubSeq(wire, n + 1, Len(wire))
               /\ ReadEvent(c)
      BY <2>4
    <3> DEFINE s == c.recv
               x == SubSeq(wire, 1, n)
               r == s \o x
    <3>2. s \in Seq(Cell) /\ x \in Seq(Cell) /\ Len(s) \in Nat /\ c.ofs \in Nat /\ c.ofs <= Len(s)
      BY <1>1 DEF Conn, Typed
    <3>3. r \o wire' = Stream
      BY <1>1, <3>1, <3>2, ReadCells DEF Stream
    <3>4. c' = [c EXCEPT !.recv = r]
      BY <1>1, <3>1 DEF Conn
    <3> HIDE DEF x, s
    <3>5. \A j \in 1 .. Len(s) : r[j] = s[j]
      BY <3>2, StreamCells
    <3> HIDE DEF r
    <3>6. /\ c'.pfn = c.pfn /\ c'.ofs = c.ofs /\ c'.send = c.send /\ c'.is_resp = c.is_resp
          /\ c'.left = c.left /\ c'.re = c.re /\ c'.is_closing = c.is_closing /\ c'.recv = r
          /\ c'.failed = c.failed
      BY <1>1, <3>4 DEF Conn
    <3>7. \A j \in 2 .. c.ofs : r[j] = s[j]
      BY <3>2, <3>5
    <3>8. loop' = IF c.pfn = "static" THEN "none" ELSE c.pfn
      BY <3>1 DEF ReadEvent
    <3> QED
      BY <2>4, <3>3, <3>6, <3>7, <3>8 DEF Stream, s
  <2> QED
    BY <2>1, <2>2, <2>3, <2>4 DEF Read
<1>3. Output' = Output /\ client' = client
  BY <1>1, <1>2 DEF Output
<1>4. loop' = "http" => c.pfn # "ws"
  BY <1>2
<1>5. Replying' /\ Done' = Done
  <2>1. c.pfn = "static" /\ c.left = 0 => c'.send # <<>>
    BY <1>1, <1>2 DEF Replying
  <2>2. c'.pfn = c.pfn /\ c'.is_resp = c.is_resp /\ c'.left = c.left /\ c'.re = c.re
    BY <1>2
  <2> QED
    <3>1. Unframed' => Unframed
      BY <1>1, <2>2 DEF Unframed, Owed, Done
    <3> QED
      BY <1>1, <1>3, <1>4, <2>1, <2>2, <3>1, SameReplies
<1>6. Over => Over'
  BY <1>1, <1>2 DEF Over
<1>7. Requesting' /\ Framing'
  <2>1. /\ c'.pfn = c.pfn /\ c'.ofs = c.ofs /\ Stream' = Stream
        /\ \A j \in 2 .. c.ofs : c'.recv[j] = c.recv[j]
    BY <1>2
  <2> QED
    BY <1>1, <1>5, <1>6, <2>1, SameRequests
<1>8. Speaking'
  BY <1>1, SameSpeech
<1>c. Closed'
  BY <1>1, <1>2 DEF Closed
<1>9. Polite'
  <2>1. \A id : Whole(id)' <=> Whole(id)
    BY <1>1 DEF Whole
  <2>2. ASSUME ~client.early PROVE ~c'.failed
    <3>1. ~c.failed
      BY <1>1, <2>2 DEF Polite
    <3> QED
      BY <1>1, <1>2, <2>2, <3>1 DEF Conn
  <2>3. c'.pfn = "http" /\ loop' = "none" /\ ~client.early => c'.recv = c.recv
    BY <1>1, <1>2 DEF Conn
  <2>4. c'.pfn = "ws" /\ loop' = "none" /\ ~c'.is_closing => c' = c
    BY <1>1, <1>2 DEF Fail, Conn
  <2> QED
    BY <1>1, <1>2, <2>1, <2>2, <2>3, <2>4 DEF Polite
<1> QED
  BY <1>5, <1>7, <1>8, <1>c, <1>9 DEF JInv

\* write_conn: cells go from the send buffer to the client, and static_cb fills
\* it again.
LEMMA WriteKeeps == IInv /\ IInv' /\ JInv /\ Write => JInv'
<1> SUFFICES ASSUME IInv, IInv', JInv, Write PROVE JInv'
  OBVIOUS
<1>1. /\ at = "write" /\ at' = "end" /\ loop = "none" /\ loop' = "none" /\ parsed = 0
      /\ UNCHANGED <<parsed, session, heard, wire>>
      /\ Typed /\ Typed' /\ Placed /\ Placed' /\ c \in Conn /\ client \in Client
      /\ Replying /\ Requesting /\ Framing /\ Speaking /\ Closed /\ Polite
  BY DEF Write, IInv, Typed, Placed, JInv, Adrift
<1>2. /\ Replying' /\ Done' = Done /\ (c'.pfn = "ws" <=> c.pfn = "ws")
      /\ c'.recv = c.recv /\ c'.ofs = c.ofs /\ (c.is_closing => c'.is_closing) /\ c'.failed = c.failed
      /\ c'.pfn = "http" => c.pfn # "ws"
      /\ client'.asked = client.asked /\ client'.frames = client.frames /\ client'.early = client.early
      /\ client'.said = client.said /\ client'.saying = client.saying
      /\ \A id : Whole(id) => Whole(id)'
  <2>1. CASE UNCHANGED <<c, client>>
    <3>1. Output' = Output /\ client' = client /\ \A id : Whole(id)' <=> Whole(id)
      BY <2>1 DEF Output, Whole
    <3>2. c.pfn = "static" /\ c.left = 0 => c'.send # <<>>
      BY <1>1, <2>1 DEF Replying
    <3>3. Replying' /\ Done' = Done
      <4>1. Unframed' => Unframed
        BY <2>1 DEF Unframed, Owed, Done
      <4> QED
        BY <1>1, <2>1, <3>1, <3>2, <4>1, SameReplies
    <3> QED
      BY <2>1, <3>1, <3>3
  <2>2. CASE c' = [c EXCEPT !.is_closing = TRUE] /\ UNCHANGED client
    <3>1. /\ c'.pfn = c.pfn /\ c'.ofs = c.ofs /\ c'.send = c.send /\ c'.is_resp = c.is_resp
          /\ c'.left = c.left /\ c'.re = c.re /\ c'.is_closing /\ c'.recv = c.recv
          /\ c'.failed = c.failed
      BY <1>1, <2>2 DEF Conn
    <3>2. Output' = Output /\ client' = client /\ \A id : Whole(id)' <=> Whole(id)
      BY <2>2, <3>1 DEF Output, Whole
    <3>3. c.pfn = "static" /\ c.left = 0 => c'.send # <<>>
      BY <1>1, <3>1 DEF Replying
    <3>4. Replying' /\ Done' = Done
      <4>1. Unframed' => Unframed
        BY <2>2, <3>1 DEF Unframed, Owed, Done
      <4> QED
        BY <1>1, <3>1, <3>2, <3>3, <4>1, SameReplies
    <3> QED
      BY <3>1, <3>2, <3>4
  <2>3. ASSUME NEW n \in 1 .. Len(c.send),
               c' = Handled([c EXCEPT !.send = Del(@, 0, n)]),
               client' = [client EXCEPT !.got = @ \o SubSeq(c.send, 1, n)]
        PROVE  /\ Replying' /\ Done' = Done /\ (c'.pfn = "ws" <=> c.pfn = "ws")
               /\ c'.recv = c.recv /\ c'.ofs = c.ofs /\ (c.is_closing => c'.is_closing)
               /\ c'.failed = c.failed
               /\ c'.pfn = "http" => c.pfn # "ws"
               /\ client'.asked = client.asked /\ client'.frames = client.frames
               /\ client'.early = client.early
               /\ client'.said = client.said /\ client'.saying = client.saying
               /\ \A id : Whole(id) => Whole(id)'
    <3> DEFINE s == c.send
               g == client.got
               x == SubSeq(s, 1, n)
               y == Del(s, 0, n)
               d == [c EXCEPT !.send = y]
    <3>1. s \in Seq(Sent) /\ g \in Seq(Sent) /\ c' = Handled(d) /\ client' = [client EXCEPT !.got = g \o x]
      BY <1>1, <2>3 DEF Conn, Client
    <3>2. g \o x \in Seq(Sent) /\ y \in Seq(Sent) /\ (g \o x) \o y = Output
      BY <3>1, WriteCells DEF Output
    <3>x. x \in Seq(Sent)
      BY <3>1
    <3> HIDE DEF s, x, y, g
    <3>3. /\ client'.asked = client.asked /\ client'.frames = client.frames
          /\ client'.early = client.early /\ client'.got = g \o x
          /\ client'.said = client.said /\ client'.saying = client.saying
      BY <1>1, <3>1 DEF Client
    <3>4. /\ d \in Conn /\ d.recv = c.recv /\ d.ofs = c.ofs /\ d.pfn = c.pfn /\ d.send = y
          /\ d.is_resp = c.is_resp /\ d.is_closing = c.is_closing /\ d.failed = c.failed
          /\ d.left = c.left /\ d.re = c.re
      BY <1>1, <3>2 DEF Conn
    <3> HIDE DEF d
    <3>5. \A id : Whole(id) => Whole(id)'
      <4>1. /\ g \o x \in Seq(Sent) /\ Len(g \o x) = Len(g) + Len(x)
            /\ \A i \in 1 .. Len(g) : (g \o x)[i] = g[i]
        BY <3>1, <3>x, SentCells
      <4>2. Len(g) \in Nat /\ Len(x) \in Nat /\ DOMAIN g = 1 .. Len(g) /\ DOMAIN (g \o x) = 1 .. Len(g \o x)
        BY <3>1, <3>x, <4>1
      <4>3. \A i \in DOMAIN g : i \in DOMAIN (g \o x) /\ (g \o x)[i] = g[i]
        BY <4>1, <4>2
      <4>4. \A i \in DOMAIN client.got : i \in DOMAIN client'.got /\ client'.got[i] = client.got[i]
        BY <3>3, <4>3 DEF g
      <4> QED
        BY <4>4 DEF Whole
    <3>6. CASE c.pfn = "static"
      <4>1. c' = StaticCb(d) /\ d.is_resp /\ client'.got \o d.send = Output
        BY <1>1, <3>1, <3>2, <3>3, <3>4, <3>6 DEF Handled, Placed
      <4>2. /\ Replying' /\ Done' = Done /\ c'.pfn # "ws" /\ c'.recv = d.recv /\ c'.ofs = d.ofs
            /\ c'.is_closing = d.is_closing /\ c'.failed = d.failed
        BY <1>1, <3>3, <3>4, <3>6, <4>1, StaticReplies
      <4> QED
        BY <3>3, <3>4, <3>5, <3>6, <4>2
    <3>7. CASE c.pfn # "static"
      <4>1. c' = d
        BY <3>1, <3>4, <3>7 DEF Handled
      <4>2. Output' = Output
        BY <3>2, <3>3, <3>4, <4>1 DEF Output
      <4>3. Replying' /\ Done' = Done
        <5>1. Unframed' => Unframed
          BY <3>3, <3>4, <4>1 DEF Unframed, Owed, Done
        <5>2. c.pfn = "static" /\ c.left = 0 => c'.send # <<>>
          BY <3>7
        <5>3. \A i \in DOMAIN client.asked :
                i \in DOMAIN client'.asked /\ client'.asked[i] = client.asked[i]
          BY <3>3
        <5> QED
          BY <1>1, <3>3, <3>4, <4>1, <4>2, <5>1, <5>2, <5>3, SameReplies
      <4> QED
        BY <3>3, <3>4, <3>5, <4>1, <4>3
    <3> QED
      BY <3>6, <3>7
  <2> QED
    BY <2>1, <2>2, <2>3 DEF Write
<1>3. (Over => Over') /\ Stream' = Stream
  BY <1>1, <1>2 DEF Over, Stream
<1>4. Requesting' /\ Framing'
  BY <1>1, <1>2, <1>3, SameRequests
<1>5. Speaking'
  BY <1>1, <1>2, SameSpeech
<1>6. Closed'
  BY <1>1 DEF Closed
<1>7. Polite'
  <2>1. ASSUME ~client.early, c'.pfn = "http" PROVE ~Complete(c'.recv, 0)
    <3>1. CASE c.pfn = "static"
      <4>1. Len(Stream) = parsed + 2 * 0
        BY <2>1, <3>1, PoliteHttp
      <4>2. Len(Stream) = 0
        BY <1>1, <4>1
      <4>3. Len(Stream) = Len(c.recv) + Len(wire) /\ Len(c.recv) \in Nat /\ Len(wire) \in Nat
        BY <1>1, StreamCells DEF Stream, Typed, Conn
      <4>4. Len(c.recv) = 0
        <5> DEFINE l == Len(Stream)
                   r == Len(c.recv)
                   w == Len(wire)
        <5>1. l = 0 /\ l = r + w /\ r \in Nat /\ w \in Nat
          BY <4>2, <4>3
        <5> HIDE DEF l, r, w
        <5>2. r = 0
          BY <5>1
        <5> QED
          BY <5>2 DEF r
      <4> QED
        BY <1>2, <4>4 DEF Complete
    <3>2. CASE c.pfn = "http"
      BY <1>1, <1>2, <2>1, <3>2 DEF Polite
    <3> QED
      BY <1>1, <1>2, <2>1, <3>1, <3>2 DEF Conn
  <2>2. ASSUME ~client.early, c'.pfn = "ws", ~c'.is_closing PROVE ~FrameAt(c'.recv, c'.ofs)
    BY <1>1, <1>2, <2>2 DEF Polite
  <2> QED
    BY <1>1, <1>2, <2>1, <2>2 DEF Polite
<1> QED
  BY <1>2, <1>4, <1>5, <1>6, <1>7 DEF JInv

\* The end of a visit, where a connection that drains or closes is closed.
LEMMA EndKeeps == IInv /\ IInv' /\ JInv /\ End => JInv'
<1> SUFFICES ASSUME IInv, IInv', JInv, End PROVE JInv'
  OBVIOUS
<1>1. /\ at = "end" /\ loop = "none" /\ parsed = 0
      /\ UNCHANGED <<parsed, heard, wire, client>>
      /\ Typed /\ Typed' /\ Placed /\ Placed' /\ c \in Conn
      /\ Replying /\ Requesting /\ Framing /\ Speaking /\ Closed /\ Polite
      /\ session.deleted = 0 /\ session.created \in Nat
      /\ session \in [created : Nat, deleted : Nat, stale : BOOLEAN]
  BY DEF End, IInv, Typed, Placed, Deleting, JInv, Adrift
<1>2. \/ c' = c /\ loop' = "none" /\ session' = session /\ at' = "poll" /\ ~c.is_closing
      \/ /\ c' = [c EXCEPT !.is_closing = TRUE] /\ at' = "gone"
         /\ loop' = IF c.pfn = "http" THEN "http" ELSE "none"
         /\ session' = [session EXCEPT !.deleted = @ + (IF session.created > 0 THEN 1 ELSE 0)]
  BY <1>1 DEF End
<1>3. /\ c'.pfn = c.pfn /\ c'.ofs = c.ofs /\ c'.send = c.send /\ c'.is_resp = c.is_resp
      /\ c'.left = c.left /\ c'.re = c.re /\ c'.recv = c.recv /\ c'.failed = c.failed
      /\ (c.is_closing => c'.is_closing)
  BY <1>1, <1>2 DEF Conn
<1>4. Output' = Output /\ client' = client /\ \A id : Whole(id)' <=> Whole(id)
  BY <1>1, <1>3 DEF Output, Whole
<1>5. Replying' /\ Done' = Done
  <2>1. c.pfn = "static" /\ c.left = 0 => c'.send # <<>>
    BY <1>1, <1>3 DEF Replying
  <2>2. loop' = "http" => c.pfn # "ws"
    BY <1>2
  <2> QED
    <3>1. Unframed' => Unframed
      BY <1>1, <1>3 DEF Unframed, Owed, Done
    <3> QED
      BY <1>1, <1>3, <1>4, <2>1, <2>2, <3>1, SameReplies
<1>6. (Over => Over') /\ Stream' = Stream
  BY <1>1, <1>3 DEF Over, Stream
<1>7. Requesting' /\ Framing'
  BY <1>1, <1>3, <1>5, <1>6, SameRequests
<1>8. Speaking'
  BY <1>1, SameSpeech
<1>9. Closed'
  <2>1. at' = "gone" => c'.is_closing /\ loop' # "ws"
    BY <1>1, <1>2 DEF Conn
  <2>2. at' # "gone" => at' = "poll" /\ ~c'.is_closing
    BY <1>2
  <2> QED
    BY <1>2, <1>3, <2>1, <2>2 DEF Closed
<1>10. Polite'
  <2>1. ASSUME ~client.early
        PROVE  /\ session'.created = session.created /\ session'.stale = session.stale
               /\ at' = "gone" => session'.deleted = session'.created
    <3>1. session.created \in {0, 1}
      BY <1>1, <2>1 DEF Polite
    <3> QED
      BY <1>1, <1>2, <3>1
  <2>2. loop' = "http" => c.pfn = "http"
    BY <1>2
  <2> QED
    BY <1>1, <1>2, <1>3, <1>4, <2>1, <2>2 DEF Polite
<1> QED
  BY <1>5, <1>7, <1>8, <1>9, <1>10 DEF JInv

\* mg_ws_cb leaves its loop when it finds no whole frame.
LEMMA WsDoneKeeps == IInv /\ IInv' /\ JInv /\ WsDone => JInv'
<1> SUFFICES ASSUME IInv, IInv', JInv, WsDone PROVE JInv'
  OBVIOUS
<1>1. /\ loop = "ws" /\ loop' = "none" /\ ~FrameAt(c.recv, c.ofs)
      /\ UNCHANGED <<c, at, parsed, session, heard, wire, client>>
      /\ Typed /\ Typed' /\ c.pfn = "ws" /\ at # "gone"
      /\ Replying /\ Requesting /\ Framing /\ Speaking /\ Closed /\ Polite
  BY DEF WsDone, IInv, Placed, JInv, Adrift, Closed
<1>2. Output' = Output /\ \A id : Whole(id)' <=> Whole(id)
  BY <1>1 DEF Output, Whole
<1>3. Replying' /\ Done' = Done
  <2>1. Unframed' => Unframed
    BY <1>1 DEF Unframed, Owed, Done
  <2> QED
    BY <1>1, <1>2, <2>1, SameReplies
<1>4. (Over => Over') /\ Stream' = Stream
  BY <1>1 DEF Over, Stream
<1>5. Requesting' /\ Framing'
  BY <1>1, <1>3, <1>4, SameRequests
<1>6. Speaking'
  BY <1>1, SameSpeech
<1>7. Closed' /\ at # "gone"
  BY <1>1 DEF Closed
<1>8. Polite'
  BY <1>1, <1>2, <1>7 DEF Polite
<1> QED
  BY <1>3, <1>5, <1>6, <1>7, <1>8 DEF JInv

\* The client closes its end, and nothing else changes yet.
LEMMA HangUpKeeps == IInv /\ IInv' /\ JInv /\ HangUp => JInv'
<1> SUFFICES ASSUME IInv, IInv', JInv, HangUp PROVE JInv'
  OBVIOUS
<1>1. /\ client' = [client EXCEPT !.hungup = TRUE]
      /\ UNCHANGED <<c, at, loop, parsed, session, heard, wire>>
      /\ Typed /\ Typed' /\ client \in Client
      /\ Adrift \/ Replying
      /\ Requesting /\ Framing /\ Speaking /\ Closed /\ Polite
  BY DEF HangUp, IInv, Typed, JInv
<1>2. /\ client'.asked = client.asked /\ client'.got = client.got /\ client'.early = client.early
      /\ client'.frames = client.frames /\ client'.said = client.said /\ client'.saying = client.saying
  BY <1>1 DEF Client
<1>3. Output' = Output /\ \A id : Whole(id)' <=> Whole(id)
  BY <1>1, <1>2 DEF Output, Whole
<1>a. Adrift => Adrift'
  BY <1>1, <1>2 DEF Adrift
<1>4. ASSUME Replying PROVE Replying'
  <2>1. c'.pfn = "static" /\ c'.left = 0 => c'.send # <<>>
    BY <1>1, <1>4 DEF Replying
  <2>2. ~client.early /\ c.pfn = "ws" /\ loop = "http" => ~Whole(Len(client.asked))'
    <3>1. ~client.early /\ c.pfn = "ws" /\ loop = "http" => ~Whole(Len(client.asked))
      BY <1>1, <1>4 DEF Replying
    <3> QED
      BY <1>2, <3>1 DEF Whole
  <2> QED
    <3>1. Unframed' => Unframed
      BY <1>1, <1>2 DEF Unframed, Owed, Done
    <3> QED
      BY <1>1, <1>2, <1>3, <1>4, <2>1, <2>2, <3>1, SameReplies
<1>5. (Over => Over') /\ Stream' = Stream /\ Done' = Done
  BY <1>1, <1>2 DEF Over, Stream, Done
<1>6. Requesting' /\ Framing'
  BY <1>1, <1>2, <1>5, SameRequests
<1>7. Speaking'
  BY <1>1, <1>2, SameSpeech
<1>8. Closed'
  BY <1>1, <1>5 DEF Closed
<1>9. Polite'
  BY <1>1, <1>2, <1>3 DEF Polite
<1> QED
  BY <1>1, <1>a, <1>4, <1>6, <1>7, <1>8, <1>9 DEF JInv

\* Nothing more is said of the buffer of an early client once it is closing.
LEMMA GivenUp ==
  ASSUME Typed', JInv, client.early, UNCHANGED <<at, heard, client>>, c'.is_closing,
         loop # "none", loop' # "ws", loop' = "http" => at = "gone",
         Adrift' \/ Replying'
  PROVE  JInv'
<1>1. Over'
  BY DEF Over
<1>2. Requesting'
  <2>1. Asks("upgrade")' <=> Asks("upgrade")
    BY DEF Asks
  <2> QED
    BY <1>1, <2>1 DEF JInv, Requesting
<1>3. Framing'
  BY <1>1 DEF Framing
<1>4. Speaking'
  BY SameSpeech DEF JInv
<1>5. Closed'
  BY DEF JInv, Closed, Typed
<1>6. Polite'
  BY DEF Polite
<1> QED
  BY <1>2, <1>3, <1>4, <1>5, <1>6 DEF JInv

\* A parser gives up what the client has sent, and closes the connection.
LEMMA FailKeeps ==
  ASSUME Typed, Typed', JInv, client.early, UNCHANGED <<at, heard, client>>, c' = Fail(c),
         loop # "none", loop' = "none"
  PROVE  JInv'
<1>1. /\ c'.recv = c.recv /\ c'.send = c.send /\ c'.pfn = c.pfn /\ c'.is_resp = c.is_resp
      /\ c'.left = c.left /\ c'.re = c.re /\ c'.is_closing
  BY DEF Fail, Typed, Conn
<1>2. Output' = Output /\ (Unframed' => Unframed)
  BY <1>1 DEF Output, Unframed, Owed, Done
<1>3. ASSUME Replying PROVE Replying'
  <2>1. c.pfn = "static" /\ c.left = 0 => c'.send # <<>>
    BY <1>1, <1>3 DEF Replying
  <2> QED
    BY <1>1, <1>2, <1>3, <2>1, SameReplies
<1>4. Adrift => Adrift'
  BY DEF Adrift
<1> QED
  BY <1>1, <1>3, <1>4, GivenUp DEF JInv

\* What is no request comes after the upgrade, from a client that did not wait.
LEMMA GarbledKeeps == IInv /\ IInv' /\ JInv /\ HttpGarbled => JInv'
<1> SUFFICES ASSUME IInv, IInv', JInv, HttpGarbled PROVE JInv'
  OBVIOUS
<1>1. /\ loop = "http" /\ loop' = "none" /\ c' = Fail(c)
      /\ Garbled(c.recv, parsed)
      /\ UNCHANGED <<at, heard, client>>
      /\ Typed /\ Typed' /\ c \in Conn /\ c.ofs = 0 /\ wire \in Seq(Cell)
      /\ Closed /\ Polite
  BY DEF HttpGarbled, IInv, Typed, Placed, JInv
<1>2. parsed < Len(c.recv) /\ parsed \in Nat /\ Len(c.recv) \in Nat
  BY <1>1 DEF Garbled, Typed, Conn
<1>3. CASE c.pfn = "ws" /\ ~client.early
  <2>1. at # "gone" /\ ~c.is_closing
    BY <1>1, <1>3 DEF Closed, Polite
  <2>2. Len(Stream) = parsed
    BY <1>1, <1>3, <2>1, PoliteUpgraded
  <2> DEFINE s == c.recv
  <2>3. s \in Seq(Cell)
    BY <1>1 DEF Conn
  <2> HIDE DEF s
  <2>4. Len(s \o wire) = Len(s) + Len(wire) /\ Len(s) \in Nat /\ Len(wire) \in Nat
    BY <1>1, <2>3, StreamCells
  <2> DEFINE a == Len(s)
             b == Len(wire)
  <2>5. parsed = a + b /\ a \in Nat /\ b \in Nat /\ parsed < a /\ parsed \in Nat
    BY <1>2, <2>2, <2>4 DEF Stream, s
  <2> HIDE DEF a, b
  <2> QED
    BY <2>5
<1>4. CASE c.pfn # "ws" /\ ~client.early
  <2>1. client.frames = 0 /\ ~Over
    BY <1>4, PoliteHttp DEF Over
  <2>2. parsed + c.ofs < Len(c.recv)
    BY <1>1, <1>2
  <2>3. Owed \in Nat /\ Owed # 0
    BY <2>1, <2>2, NextCell
  <2>4. c.recv[parsed + 1] = RequestCell(client.asked, Done + 1, 1)
    BY <2>1, <2>2, <2>3, NextCell
  <2>5. c.recv[parsed + 1].what = "request" /\ c.recv[parsed + 1].part = 1
    BY <2>4 DEF RequestCell
  <2> QED
    BY <1>1, <2>5 DEF Garbled
<1>5. CASE client.early
  BY <1>1, <1>5, FailKeeps
<1> QED
  BY <1>3, <1>4, <1>5

\* Nor is it a waiting client's request that the websocket parser meets.
LEMMA WsGarbledKeeps == IInv /\ IInv' /\ JInv /\ WsGarbled => JInv'
<1> SUFFICES ASSUME IInv, IInv', JInv, WsGarbled PROVE JInv'
  OBVIOUS
<1>1. /\ loop = "ws" /\ loop' = "none" /\ c' = Fail(c)
      /\ c.ofs < Len(c.recv) /\ c.recv[c.ofs + 1].what = "request"
      /\ UNCHANGED <<at, heard, client>>
      /\ Typed /\ Typed' /\ c.pfn = "ws" /\ parsed = 0 /\ c.ofs \in Nat
      /\ ~c.is_closing
  BY DEF WsGarbled, IInv, Typed, Placed, Conn, JInv, Closed
<1>2. CASE ~client.early
  <2>1. Owed = 0
    BY <1>1, <1>2 DEF JInv, Requesting, Upgrading
  <2>2. parsed + c.ofs < Len(c.recv) /\ ~Over /\ parsed + c.ofs + 1 = c.ofs + 1
    BY <1>1 DEF Over
  <2>3. c.recv[c.ofs + 1].what = "flags"
    BY <2>1, <2>2, NextCell
  <2> QED
    BY <1>1, <2>3
<1>3. CASE client.early
  BY <1>1, <1>3, FailKeeps
<1> QED
  BY <1>2, <1>3

(***************************************************************************)
(* A request that is delivered                                             *)
(***************************************************************************)
LEMMA RequestsShift ==
  ASSUME NEW s, NEW b \in Nat, NEW asked \in Seq(Request), NEW n \in Nat,
         n < Len(asked), Requests(s, b, asked, n), Len(s) \in Nat
  PROVE  Requests(s, b + 2, asked, n + 1)
<1> DEFINE a == Len(asked)
<1>1. a \in Nat /\ n < a
  OBVIOUS
<1>2. /\ b + 2 * (a - n) <= Len(s)
      /\ \A m \in 1 .. a - n :
           /\ s[b + 2 * m - 1] = RequestCell(asked, n + m, 1)
           /\ s[b + 2 * m] = RequestCell(asked, n + m, 2)
  BY DEF Requests
<1> HIDE DEF a
<1>3. (b + 2) + 2 * (a - (n + 1)) <= Len(s)
  BY <1>1, <1>2
<1>4. ASSUME NEW m \in 1 .. a - (n + 1)
      PROVE  /\ s[(b + 2) + 2 * m - 1] = RequestCell(asked, (n + 1) + m, 1)
             /\ s[(b + 2) + 2 * m] = RequestCell(asked, (n + 1) + m, 2)
  <2> DEFINE j == m + 1
  <2>1. /\ j \in 1 .. a - n /\ (n + 1) + m = n + j
        /\ (b + 2) + 2 * m = b + 2 * j /\ (b + 2) + 2 * m - 1 = b + 2 * j - 1
    BY <1>1
  <2> HIDE DEF j
  <2>2. s[b + 2 * j - 1] = RequestCell(asked, n + j, 1) /\ s[b + 2 * j] = RequestCell(asked, n + j, 2)
    BY <1>2, <2>1
  <2> QED
    BY <2>1, <2>2
<1> QED
  BY <1>3, <1>4 DEF Requests, a

\* Serving a request neither closes the connection nor opens it again.
LEMMA MessageCloses == IInv /\ HttpMessage => c'.is_closing = c.is_closing
<1> SUFFICES ASSUME IInv, HttpMessage PROVE c'.is_closing = c.is_closing
  OBVIOUS
<1> DEFINE r == c.recv[parsed + 1]
<1>1. /\ loop = "http" /\ ~c.is_resp /\ Complete(c.recv, parsed)
      /\ c' = Served(c, r.kind, r.id)
      /\ c \in Conn /\ c.recv \in Seq(Cell) /\ parsed \in Nat /\ Len(c.recv) \in Nat
      /\ c.pfn \in {"http", "ws"}
  BY DEF HttpMessage, IInv, Typed, Placed, Conn
<1>2. r \in Cell /\ r.what = "request"
  <2>1. parsed + 1 \in 1 .. Len(c.recv)
    BY <1>1 DEF Complete
  <2> QED
    BY <1>1, <2>1 DEF Complete
<1> HIDE DEF r
<1> DEFINE k == r.kind
           m == r.id
<1>3. k \in Request /\ m \in Nat /\ c' = Served(c, k, m)
  BY <1>1, <1>2 DEF Cell
<1> HIDE DEF k, m
<1> DEFINE e == Served(c, k, m)
<1>4. c \in Conn /\ c.pfn \in {"http", "ws"}
  BY <1>1
<1>5. /\ e.send = c.send \o <<Reply(m, 0, k # "file")>>
      /\ e.is_closing = c.is_closing
  BY <1>3, <1>4, ServedShape
<1> QED
  BY <1>3, <1>5

\* On MG_EV_CLOSE a request may be delivered once more, to nobody.
LEMMA MessageLate == IInv /\ IInv' /\ JInv /\ HttpMessage /\ Adrift => JInv'
<1> SUFFICES ASSUME IInv, IInv', JInv, HttpMessage, Adrift PROVE JInv'
  OBVIOUS
<1>1. loop = "http" /\ loop' = "http" /\ UNCHANGED <<at, heard, client>> /\ Typed'
  BY DEF HttpMessage, IInv
<1>2. client.early /\ at = "gone" /\ Adrift' /\ c.is_closing
  BY <1>1 DEF Adrift, JInv, Closed
<1>3. c'.is_closing
  BY <1>2, MessageCloses
<1> QED
  BY <1>1, <1>2, <1>3, GivenUp

\* http_cb delivers a request, whose reply is the next, and takes it from the
\* buffer.
LEMMA MessageKeeps == IInv /\ IInv' /\ JInv /\ HttpMessage => JInv'
<1> SUFFICES ASSUME IInv, IInv', JInv, HttpMessage, ~Adrift PROVE JInv'
  BY MessageLate
<1> DEFINE n    == Done + 1
           kind == client.asked[n]
           x    == Reply(n, 0, kind # "file")
           a    == Len(client.asked)
<1>1. /\ loop = "http" /\ loop' = "http" /\ ~c.is_resp /\ Complete(c.recv, parsed)
      /\ parsed' = IF Closing THEN Len(c.recv) ELSE parsed + 2
      /\ UNCHANGED <<at, heard, wire, client>>
      /\ Typed /\ Typed' /\ Placed /\ Placed' /\ c \in Conn /\ client \in Client
      /\ Replying /\ Requesting /\ Framing /\ Speaking /\ Closed /\ Polite
  BY DEF HttpMessage, IInv, Typed, JInv
<1>2. /\ c.pfn \in {"http", "ws"} /\ parsed < Len(c.recv) /\ c.ofs = 0 /\ c'.ofs = 0
      /\ parsed \in Nat /\ parsed + c.ofs < Len(c.recv) /\ Len(c.recv) \in Nat
      /\ at # "gone" /\ ~c.is_closing /\ ~Over /\ ~Closing
  <2>1. /\ c.pfn \in {"http", "ws"} /\ c.ofs = 0 /\ c'.ofs = 0 /\ parsed \in Nat /\ Len(c.recv) \in Nat
    BY <1>1 DEF Placed, Typed, Conn
  <2>2. parsed < Len(c.recv)
    BY <1>1, <2>1 DEF Complete
  <2>3. at # "gone" /\ ~c.is_closing
    BY MessageBefore
  <2> QED
    BY <2>1, <2>2, <2>3 DEF Over, Closing
<1>3. /\ Done \in Nat /\ Done < a /\ Unframed
      /\ c.recv[parsed + 1] = RequestCell(client.asked, n, 1)
  <2>1. Owed \in Nat /\ Done \in Nat
    BY <1>2, NextCell
  <2>2. Owed # 0
    <3>1. c.recv[parsed + c.ofs + 1].what # "flags"
      BY <1>1, <1>2 DEF Complete
    <3> QED
      BY <1>2, <3>1, NextCell
  <2>3. c.recv[parsed + 1] = RequestCell(client.asked, n, 1)
    BY <1>2, <2>1, <2>2, NextCell
  <2>4. Len(client.asked) \in Nat
    BY <1>1 DEF Client
  <2> QED
    BY <2>1, <2>2, <2>3, <2>4 DEF Unframed, Owed
<1>4. /\ a \in Nat /\ client.asked \in Seq(Request) /\ n \in Nat /\ n > 0 /\ n <= a
      /\ DOMAIN client.asked = 1 .. a /\ n \in DOMAIN client.asked /\ kind \in Request
  BY <1>1, <1>3 DEF Client
<1>5. /\ c' = Served(c, kind, n)
      /\ session' = IF kind = "upgrade" THEN AddSession(Notified(session)) ELSE Notified(session)
  <2>1. c.recv[parsed + 1].kind = kind /\ c.recv[parsed + 1].id = n
    BY <1>3 DEF RequestCell
  <2> QED
    BY <2>1 DEF HttpMessage
<1> HIDE DEF kind, n, a
<1>6. /\ c'.send = c.send \o <<x>> /\ c'.recv = c.recv
      /\ c'.is_closing = c.is_closing /\ c'.failed = c.failed
      /\ c'.is_resp = (kind = "file")
      /\ c'.pfn = CASE kind = "file" -> "static" [] kind = "upgrade" -> "ws" [] OTHER -> c.pfn
      /\ kind = "file" => c'.left = FileSize
      /\ c'.re = n /\ Done' = n
  <2> DEFINE e == Served(c, kind, n)
  <2>1. c \in Conn /\ c.pfn \in {"http", "ws"} /\ kind \in Request /\ n \in Nat
    BY <1>1, <1>2, <1>4
  <2>2. /\ e.send = c.send \o <<Reply(n, 0, kind # "file")>>
        /\ e.recv = c.recv
        /\ e.is_closing = c.is_closing /\ e.failed = c.failed
        /\ e.is_resp = (kind = "file")
        /\ e.pfn = CASE kind = "file" -> "static" [] kind = "upgrade" -> "ws" [] OTHER -> c.pfn
        /\ e.re = n /\ (kind = "file" => e.left = FileSize)
    BY <2>1, ServedShape
  <2>3. c' = e
    BY <1>5
  <2> HIDE DEF e
  <2> QED
    BY <2>2, <2>3 DEF Done
<1>7. /\ x \in Sent /\ IsReply(x) /\ x.re = n /\ x.part = 0 /\ x.end = (kind # "file")
  <2>1. 0 \in Nat /\ (kind # "file") \in BOOLEAN
    OBVIOUS
  <2> QED
    BY <1>4, <2>1, ReplySent
<1>x. kind = "file" => x = Reply(n, 0, FALSE)
  OBVIOUS
<1> HIDE DEF x
<1>8. /\ FileSize \in Nat /\ FileSize > 0
  BY SizeAssumption
<1> DEFINE o == Output
           y == <<x>>
           L == Len(o)
<1>9. /\ o \in Seq(Sent) /\ L \in Nat /\ DOMAIN o = 1 .. L /\ (o # <<>> => L \in DOMAIN o)
      /\ y \in Seq(Sent) /\ Len(y) = 1 /\ y[1] = x
  <2>1. o \in Seq(Sent) /\ DOMAIN o = 1 .. L /\ (o # <<>> => L \in DOMAIN o)
    BY <1>1, OutputType
  <2> HIDE DEF o
  <2>2. L \in Nat
    BY <2>1
  <2>3. y \in Seq(Sent) /\ Len(y) = 1 /\ y[1] = x
    BY <1>7
  <2> QED
    BY <2>1, <2>2, <2>3
<1>10. Output' = o \o y
  <2> DEFINE g == client.got
             s == c.send
  <2>1. g \in Seq(Sent) /\ s \in Seq(Sent) /\ y \in Seq(Sent)
    BY <1>1, <1>9, OutputType
  <2> HIDE DEF g, s, y
  <2>2. (g \o s) \o y = g \o (s \o y)
    BY <2>1, SentAssociative
  <2> QED
    BY <1>1, <1>6, <2>2 DEF Output, g, s, y
<1>11. /\ o = <<>> => Done = 0
       /\ o # <<>> => Last = o[L] /\ Done = o[L].re /\ IsReply(o[L]) /\ o[L].end
       /\ \A i \in DOMAIN o : IsReply(o[i]) /\ o[i].re <= Done
  BY <1>1, <1>2, <1>3, <1>9 DEF Last, Replying
<1>12. Ordered(o, client.asked)
  BY <1>1 DEF Replying
<1> HIDE DEF o, y
<1>13. Ordered(o \o y, client.asked)
  <2>1. ASSUME NEW i \in 1 .. Len(y)
        PROVE  /\ IsReply(y[i]) /\ y[i].re \in DOMAIN client.asked
               /\ y[i].end <=> y[i].part = IF client.asked[y[i].re] = "file" THEN FileSize ELSE 0
               /\ i > 1 => Continues(y[i - 1], y[i])
    <3>1. i = 1 /\ y[i] = x
      BY <1>9
    <3>2. (kind # "file") <=> (0 = IF kind = "file" THEN FileSize ELSE 0)
      BY <1>8
    <3>3. x.re \in DOMAIN client.asked /\ client.asked[x.re] = kind /\ ~(i > 1)
      BY <1>4, <1>7, <3>1 DEF kind
    <3> QED
      BY <1>7, <3>1, <3>2, <3>3
  <2>2. o = <<>> => y[1].re = 1 /\ y[1].part = 0
    BY <1>7, <1>9, <1>11 DEF n
  <2>3. o # <<>> => IsReply(o[Len(o)]) /\ Continues(o[Len(o)], y[1])
    BY <1>7, <1>9, <1>11 DEF n, Continues
  <2> QED
    BY <1>9, <1>12, <2>1, <2>2, <2>3, ConcatOrdered
<1>14. /\ Ordered(Output, client.asked)' /\ Output' # <<>> /\ Last' = x /\ Done' = n
       /\ DOMAIN Output' = 1 .. L + 1 /\ Len(Output') = L + 1
       /\ \A i \in 1 .. L : Output'[i] = o[i]
       /\ Output'[L + 1] = x
  <2> DEFINE p == o \o y
  <2>1. /\ p \in Seq(Sent) /\ Len(p) = L + 1
        /\ \A i \in 1 .. L : p[i] = o[i]
        /\ \A i \in L + 1 .. L + 1 : p[i] = y[i - L]
    <3>1. /\ o \o y \in Seq(Sent) /\ Len(o \o y) = Len(o) + Len(y)
          /\ \A i \in 1 .. Len(o) : (o \o y)[i] = o[i]
          /\ \A i \in Len(o) + 1 .. Len(o) + Len(y) : (o \o y)[i] = y[i - Len(o)]
      BY <1>9, SentCells
    <3> HIDE DEF p
    <3> QED
      BY <1>9, <3>1 DEF p
  <2> HIDE DEF p
  <2>2. p # <<>> /\ DOMAIN p = 1 .. L + 1
    BY <1>9, <2>1
  <2>3. p[L + 1] = x
    <3>1. (L + 1) - L = 1 /\ L + 1 \in L + 1 .. L + 1
      BY <1>9
    <3> QED
      BY <1>9, <2>1, <3>1
  <2>4. Last' = x
    BY <1>10, <2>1, <2>3 DEF Last, p
  <2>5. Done' = n
    BY <1>6
  <2>6. Ordered(Output', client'.asked) => Ordered(Output, client.asked)'
    BY DEF Ordered
  <2>7. Ordered(Output, client.asked)'
    BY <1>1, <1>10, <1>13, <2>6
  <2> QED
    BY <1>10, <2>1, <2>2, <2>3, <2>4, <2>5, <2>7 DEF p
<1> HIDE DEF L
<1>15. ~client.early => (c'.pfn = "ws" <=> kind = "upgrade") /\ (kind = "upgrade" => n = a) /\ c.pfn = "http"
  <2> SUFFICES ASSUME ~client.early PROVE c.pfn = "http" /\ (kind = "upgrade" => n = a)
    BY <1>4, <1>6
  <2>1. Upgrading
    BY <1>1 DEF Requesting
  <2>2. c.pfn = "ws" => Done = a
    BY <1>3, <2>1 DEF Upgrading, Owed, a
  <2> QED
    BY <1>2, <1>3, <1>4, <2>1, <2>2 DEF Upgrading, kind, a
<1>16. \A id : Whole(id)' <=> Whole(id)
  BY <1>1 DEF Whole
<1>17. Replying'
  <2>1. c'.is_resp <=> c'.pfn = "static"
    BY <1>2, <1>4, <1>6
  <2>2. ASSUME NEW i \in DOMAIN Output'
        PROVE  IsReply(Output'[i]) /\ Output'[i].re <= n /\ (i < L + 1 => Output'[i].re # n)
    <3>1. CASE i \in 1 .. L
      <4>1. IsReply(Output'[i]) /\ Output'[i].re <= Done /\ Output'[i] \in Sent
        BY <1>9, <1>11, <1>14, <3>1
      <4>2. Output'[i].re \in Nat
        BY <4>1, SentReply
      <4> QED
        BY <1>3, <4>1, <4>2 DEF n
    <3>2. CASE i = L + 1
      <4>1. Output'[i] = x
        BY <1>14, <3>2
      <4>2. ~(i < L + 1)
        BY <1>9, <3>2
      <4> QED
        BY <1>4, <1>7, <4>1, <4>2
    <3> QED
      BY <1>9, <1>14, <3>1, <3>2
  <2>3. c'.pfn # "static" => Last'.end
    BY <1>6, <1>7, <1>14
  <2>4. ASSUME c'.pfn = "static"
        PROVE  /\ Last' = Reply(c'.re, FileSize - c'.left, c'.left = 0)
               /\ client'.asked[c'.re] = "file" /\ c'.left # 0 /\ c'.re = n
    <3>1. kind = "file" /\ c'.left = FileSize /\ c'.re = n
      BY <1>2, <1>4, <1>6, <2>4
    <3>2. FileSize - FileSize = 0 /\ (FileSize = 0) = FALSE
      BY <1>8
    <3> QED
      BY <1>1, <1>8, <1>14, <1>x, <3>1, <3>2 DEF kind
  <2>5. ~client'.early /\ c'.pfn = "ws" => ~Whole(Len(client.asked))'
    <3>1. ~client'.early /\ c'.pfn = "ws" => n = a
      BY <1>1, <1>15
    <3>2. ~Whole(n)
      <4>1. n > Done
        BY <1>3 DEF n
      <4> QED
        BY <1>1, <1>3, <1>4, <4>1, NotWhole
    <3> QED
      BY <1>1, <3>1, <3>2 DEF a, Whole
  <2>6. Done' = n /\ Output' # <<>> /\ Last'.re = Done'
    BY <1>7, <1>14
  <2>7. \A i \in DOMAIN Output' : IsReply(Output'[i]) /\ Output'[i].re <= Done'
    BY <2>2, <2>6
  <2>8. c'.pfn = "static" =>
          \A i \in DOMAIN Output' : i < Len(Output') /\ Output'[i].re = c'.re => ~Output'[i].end
    BY <1>14, <2>2, <2>4
  <2>9. Ordered(Output, client.asked)'
    BY <1>14
  <2> QED
    BY <2>1, <2>3, <2>4, <2>5, <2>6, <2>7, <2>8, <2>9 DEF Replying
<1>18. Stream' = Stream /\ Len(Stream) \in Nat
  <2>1. Stream \in Seq(Cell)
    BY <1>1, StreamCells DEF Stream, Typed, Conn
  <2> QED
    BY <1>1, <1>6, <2>1 DEF Stream
<1>20. parsed \in Nat /\ parsed' = parsed + 2
  BY <1>1, <1>2
<1>21. Asks("upgrade") <=> Asks("upgrade")'
  BY <1>1 DEF Asks
<1>22. Requesting'
  <2>1. Requests(Stream, parsed + c.ofs, client.asked, Done)
    BY <1>1, <1>2 DEF Requesting
  <2>2. parsed + c.ofs = parsed /\ parsed' + c'.ofs = parsed + 2
    BY <1>2, <1>20
  <2>3. Requests(Stream, parsed + 2, client.asked, n)
    BY <1>3, <1>4, <1>18, <1>20, <2>1, <2>2, RequestsShift DEF n, a
  <2>4. Requests(Stream, parsed + c.ofs, client.asked, Done)'
    BY <1>1, <1>14, <1>18, <2>2, <2>3
  <2>5. ASSUME ~client.early PROVE Upgrading'
    <3>1. Upgrading
      BY <1>1, <2>5 DEF Requesting
    <3>2. \A i \in DOMAIN client.asked : client.asked[i] = "upgrade" => i = a
      BY <3>1 DEF Upgrading, a
    <3>3. c'.pfn = "ws" => Owed' = 0 /\ Asks("upgrade")
      <4>1. c'.pfn = "ws" => kind = "upgrade" /\ n = a
        BY <1>15, <2>5
      <4>2. kind = "upgrade" => Asks("upgrade")
        BY <1>4 DEF Asks, kind
      <4> QED
        BY <1>1, <1>4, <1>14, <4>1, <4>2 DEF Owed, a
    <3>4. c'.pfn # "ws" /\ Asks("upgrade") => Owed' > 0
      <4>1. Asks("upgrade") => client.asked[a] = "upgrade"
        BY <3>2 DEF Asks
      <4>2. c'.pfn # "ws" => kind # "upgrade"
        BY <1>15, <2>5
      <4>3. c'.pfn # "ws" /\ Asks("upgrade") => n # a
        BY <4>1, <4>2 DEF kind
      <4>4. Owed' = a - n
        BY <1>1, <1>14 DEF Owed, a
      <4> QED
        BY <1>4, <4>3, <4>4
    <3> QED
      BY <1>1, <1>21, <3>2, <3>3, <3>4 DEF Upgrading, a
  <2>6. Done' <= Len(client'.asked) /\ c'.ofs = 0
    BY <1>1, <1>2, <1>4, <1>14 DEF a
  <2>7. client.frames > 0 => Asks("upgrade")
    BY <1>1 DEF Requesting
  <2> QED
    BY <1>1, <1>21, <2>4, <2>5, <2>6, <2>7 DEF Requesting
<1>23. Framing'
  <2> SUFFICES /\ c'.ofs # 1
               /\ \A j \in 2 .. c'.ofs : c'.recv[j] = Unmask(Payload(Len(heard') + 1, j - 1))
               /\ \E fr \in Seq(Frame) :
                    /\ Frames(Stream', FramesFrom', fr)
                    /\ InStep(fr)'
                    /\ Kept' + Len(fr) <= client'.frames
    BY DEF Framing, Frames
  <2>3. PICK fr \in Seq(Frame) :
          Frames(Stream, FramesFrom, fr) /\ InStep(fr) /\ Kept + Len(fr) <= client.frames
    BY <1>1, <1>2 DEF Framing
  <2>4. Kept' = Kept
    BY <1>2 DEF Kept
  <2>5. FramesFrom' = FramesFrom
    <3>1. FramesFrom = parsed + 0 + 2 * (a - Done)
      BY <1>2 DEF FramesFrom, Owed, a
    <3>2. FramesFrom' = (parsed + 2) + 0 + 2 * (a - n)
      BY <1>1, <1>2, <1>14, <1>20 DEF FramesFrom, Owed, a
    <3> QED
      BY <1>3, <1>4, <1>20, <3>1, <3>2 DEF n
  <2>6. InStep(fr)'
    <3>1. \A f : Position(fr, f)' = Position(fr, f)
      BY <1>1 DEF Position
    <3> QED
      BY <1>1, <2>3, <2>4, <3>1 DEF InStep
  <2> QED
    BY <1>1, <1>2, <1>18, <2>3, <2>4, <2>5, <2>6
<1>24. Speaking'
  BY <1>1, SameSpeech
<1>25. Closed'
  BY <1>1, <1>2, <1>6 DEF Closed
<1>26. Polite'
  <2> SUFFICES ASSUME ~client.early
               PROVE  session'.created = (IF c'.pfn = "ws" THEN 1 ELSE 0) /\ ~session'.stale
    BY <1>1, <1>2, <1>6, <1>16 DEF Polite
  <2> DEFINE t == Notified(session)
  <2>1. session \in [created : Nat, deleted : Nat, stale : BOOLEAN]
    BY <1>1 DEF Typed
  <2>2. /\ t \in [created : Nat, deleted : Nat, stale : BOOLEAN]
        /\ t.created = session.created /\ t.stale = session.stale
    BY <1>2, <2>1 DEF Notified
  <2>3. session.created = 0 /\ ~session.stale
    BY <1>1, <1>15 DEF Polite
  <2>4. session' = IF kind = "upgrade" THEN AddSession(t) ELSE t
    BY <1>5
  <2> HIDE DEF t
  <2>5. /\ session'.created = (IF kind = "upgrade" THEN 1 ELSE 0)
        /\ session'.stale = session.stale
    BY <2>2, <2>3, <2>4 DEF AddSession
  <2> QED
    BY <1>15, <2>3, <2>5
<1> QED
  BY <1>17, <1>22, <1>23, <1>24, <1>25, <1>26 DEF JInv

(***************************************************************************)
(* What was parsed is taken away                                           *)
(***************************************************************************)
LEMMA RequestsDrop ==
  ASSUME NEW s, NEW t, NEW b \in Nat, NEW asked \in Seq(Request), NEW n \in Nat,
         Requests(s, b, asked, n), Len(s) \in Nat, Len(t) = Len(s) - b,
         \A i \in 1 .. Len(t) : t[i] = s[i + b]
  PROVE  Requests(t, 0, asked, n)
<1> DEFINE a == Len(asked)
           l == Len(s)
           k == Len(t)
           o == 0
<1>1. a \in Nat /\ l \in Nat /\ k = l - b /\ o = 0
  OBVIOUS
<1>2. /\ b + 2 * (a - n) <= l
      /\ \A m \in 1 .. a - n :
           /\ s[b + 2 * m - 1] = RequestCell(asked, n + m, 1)
           /\ s[b + 2 * m] = RequestCell(asked, n + m, 2)
  BY DEF Requests
<1>t. \A i \in 1 .. k : t[i] = s[i + b]
  OBVIOUS
<1> HIDE DEF a, l, k, o
<1>3. o + 2 * (a - n) <= k
  BY <1>1, <1>2
<1>4. ASSUME NEW m \in 1 .. a - n
      PROVE  /\ t[o + 2 * m - 1] = RequestCell(asked, n + m, 1)
             /\ t[o + 2 * m] = RequestCell(asked, n + m, 2)
  <2> DEFINE i == o + 2 * m - 1
             j == o + 2 * m
  <2>1. i \in 1 .. k /\ j \in 1 .. k /\ i + b = b + 2 * m - 1 /\ j + b = b + 2 * m
    BY <1>1, <1>2
  <2> HIDE DEF i, j
  <2>2. t[i] = s[b + 2 * m - 1] /\ t[j] = s[b + 2 * m]
    BY <1>t, <2>1
  <2> QED
    BY <1>2, <2>2 DEF i, j
<1>5. Requests(t, o, asked, n)
  BY <1>3, <1>4 DEF Requests, a, k
<1> QED
  BY <1>1, <1>5

\* Frames stay where they are in the stream when cells before them are taken.
LEMMA FramesDrop ==
  ASSUME NEW s, NEW t, NEW b \in Nat, NEW d \in Nat, NEW p \in Nat, NEW fr \in Seq(Frame),
         Frames(s, b, fr), b = p + d, Len(t) = Len(s) - d,
         \A i \in 1 .. Len(t) : i > p => t[i] = s[i + d]
  PROVE  Frames(t, p, fr)
<1> DEFINE l == Len(s)
           k == Len(t)
           n == Len(fr)
<1>1. n \in Nat /\ k = l - d /\ l = b + 3 * n
  BY DEF Frames
<1>2. \A f \in 1 .. n :
        /\ s[b + 3 * f - 2] = [what |-> "flags", fin |-> fr[f].fin, op |-> fr[f].op]
        /\ s[b + 3 * f - 1] = [what |-> "length", n |-> 1]
        /\ s[b + 3 * f] = Data(fr[f])
  BY DEF Frames
<1>t. \A i \in 1 .. k : i > p => t[i] = s[i + d]
  OBVIOUS
<1> HIDE DEF l, k, n
<1>3. k = p + 3 * n
  BY <1>1
<1>4. ASSUME NEW f \in 1 .. n
      PROVE  /\ t[p + 3 * f - 2] = s[b + 3 * f - 2]
             /\ t[p + 3 * f - 1] = s[b + 3 * f - 1]
             /\ t[p + 3 * f] = s[b + 3 * f]
  <2> DEFINE h == p + 3 * f - 2
             i == p + 3 * f - 1
             j == p + 3 * f
  <2>a. f \in Nat /\ f >= 1 /\ f <= n
    BY <1>1
  <2>b. h + d = b + 3 * f - 2 /\ i + d = b + 3 * f - 1 /\ j + d = b + 3 * f
    BY <2>a
  <2>c. h > p /\ i > p /\ j > p /\ h <= k /\ i <= k /\ j <= k /\ k \in Int
    BY <1>1, <1>3, <2>a
  <2>d. h \in Int /\ i \in Int /\ j \in Int
    BY <2>a
  <2> HIDE DEF h, i, j
  <2>1. /\ h \in 1 .. k /\ i \in 1 .. k /\ j \in 1 .. k
        /\ h > p /\ i > p /\ j > p
        /\ h + d = b + 3 * f - 2 /\ i + d = b + 3 * f - 1 /\ j + d = b + 3 * f
    BY <2>b, <2>c, <2>d
  <2>2. t[h] = s[h + d] /\ t[i] = s[i + d] /\ t[j] = s[j + d]
    BY <1>t, <2>1
  <2> QED
    BY <2>1, <2>2 DEF h, i, j
<1> QED
  BY <1>2, <1>3, <1>4 DEF Frames, k, n

\* http_cb leaves its loop, and takes what it parsed from the buffer.
LEMMA DoneKeeps == IInv /\ IInv' /\ JInv /\ HttpDone => JInv'
<1> SUFFICES ASSUME IInv, IInv', JInv, HttpDone PROVE JInv'
  OBVIOUS
<1> DEFINE s == c.recv
           o == 0
           t == Del(s, o, parsed)
<1>1. /\ loop = "http" /\ loop' = "none" /\ parsed' = o
      /\ c.is_resp \/ ~Complete(c.recv, parsed)
      /\ c' = [c EXCEPT !.recv = Del(@, 0, parsed)]
      /\ UNCHANGED <<at, session, heard, wire, client>>
      /\ Typed /\ Typed' /\ c \in Conn /\ client \in Client
      /\ Requesting /\ Framing /\ Speaking /\ Closed /\ Polite
  BY DEF HttpDone, IInv, Typed, JInv
<1>2. /\ s \in Seq(Cell) /\ wire \in Seq(Cell) /\ Len(s) \in Nat
      /\ parsed \in Nat /\ parsed <= Len(s) /\ o + parsed <= Len(s) /\ c.ofs = o /\ o \in Nat
  BY <1>1 DEF IInv, Typed, Placed, Conn
<1>3. c' = [c EXCEPT !.recv = t]
  BY <1>1, <1>2 DEF Conn
<1>z. o = 0
  OBVIOUS
<1> HIDE DEF s, o
<1>4. /\ t \in Seq(Cell) /\ Len(t) = Len(s) - parsed
      /\ \A i \in o + 1 .. Len(s) - parsed : t[i] = s[i + parsed]
  BY <1>2, DelCells
<1> HIDE DEF t
<1>5. /\ c'.recv = t /\ c'.ofs = o /\ c'.pfn = c.pfn /\ c'.send = c.send
      /\ c'.is_resp = c.is_resp /\ c'.left = c.left /\ c'.re = c.re
      /\ c'.is_closing = c.is_closing /\ c'.failed = c.failed
  BY <1>1, <1>2, <1>3 DEF Conn
<1>6. /\ \A i \in 1 .. Len(t) : t[i] = s[i + parsed]
      /\ Len(t) \in Nat /\ o <= Len(t) /\ o + parsed >= o
  BY <1>2, <1>4, <1>z
<1>7. /\ Len(t \o wire) = Len(s \o wire) - parsed
      /\ \A i \in DOMAIN (t \o wire) :
           i > o => i + parsed \in DOMAIN (s \o wire) /\ i + parsed > o /\ (t \o wire)[i] = (s \o wire)[i + parsed]
  <2>1. \A i \in 1 .. Len(t) : i > o => t[i] = s[i + parsed]
    BY <1>6
  <2>2. /\ s \in Seq(Cell) /\ t \in Seq(Cell) /\ wire \in Seq(Cell) /\ parsed \in Nat /\ o \in Nat
        /\ Len(t) = Len(s) - parsed /\ o <= Len(t) /\ o + parsed >= o
    BY <1>2, <1>4, <1>6
  <2>3. /\ Len(t \o wire) = Len(s \o wire) - parsed
        /\ \A i \in DOMAIN (t \o wire) :
             i > o => i + parsed \in DOMAIN (s \o wire) /\ i + parsed > o /\ (t \o wire)[i] = (s \o wire)[i + parsed]
        /\ Framed(s \o wire, o) => Framed(t \o wire, o)
    BY <2>1, <2>2, StreamShift
  <2> QED
    BY <2>3
<1>8. /\ Stream = s \o wire /\ Stream' = t \o wire
      /\ Len(Stream) \in Nat /\ Len(Stream) = Len(s) + Len(wire) /\ Len(wire) \in Nat
      /\ DOMAIN Stream' = 1 .. Len(Stream')
  BY <1>1, <1>2, <1>4, <1>5, StreamCells DEF Stream, s
<1>9. /\ Len(Stream') = Len(Stream) - parsed
      /\ \A i \in 1 .. Len(Stream') : Stream'[i] = Stream[i + parsed]
  <2>1. \A i \in DOMAIN Stream' : i > o => Stream'[i] = Stream[i + parsed]
    BY <1>7, <1>8
  <2>2. Len(Stream') = Len(Stream) - parsed
    BY <1>7, <1>8
  <2> HIDE DEF Stream
  <2>3. \A i \in 1 .. Len(Stream') : i > o
    BY <1>8, <1>z, <2>2
  <2> QED
    BY <1>8, <2>1, <2>2, <2>3
<1>10. Output' = Output /\ \A id : Whole(id)' <=> Whole(id)
  BY <1>1, <1>5 DEF Output, Whole
<1>a. (Adrift => Adrift') /\ Done' = Done
  BY <1>1, <1>5 DEF Adrift, Done
<1>11. ASSUME Replying PROVE Replying'
  <2>1. c.pfn = "static" /\ c.left = 0 => c'.send # <<>>
    BY <1>1, <1>5, <1>11 DEF Replying
  <2>2. Unframed' => Unframed
    BY <1>1, <1>5, <1>a DEF Unframed, Owed
  <2> QED
    BY <1>1, <1>5, <1>10, <1>11, <2>1, <2>2, SameReplies
<1>13. Over => Over'
  BY <1>1, <1>5 DEF Over
<1>14. Requesting'
  <2>1. Asks("upgrade")' <=> Asks("upgrade")
    BY <1>1 DEF Asks
  <2>2. ASSUME ~Over' PROVE Requests(Stream', parsed' + c'.ofs, client.asked, Done)
    <3>0. parsed + c.ofs = parsed /\ parsed' + c'.ofs = 0
      BY <1>1, <1>2, <1>5, <1>z
    <3>1. Requests(Stream, parsed, client.asked, Done) /\ Done \in Nat
      BY <1>1, <1>13, <2>2, <3>0, DoneType DEF Requesting
    <3>2. client.asked \in Seq(Request)
      BY <1>1 DEF Client
    <3> HIDE DEF Stream
    <3>3. Requests(Stream', 0, client.asked, Done)
      BY <1>2, <1>8, <1>9, <3>1, <3>2, RequestsDrop
    <3> QED
      BY <3>0, <3>3
  <2>3. Owed' = Owed
    BY <1>1, <1>a DEF Owed
  <2>4. Upgrading => Upgrading'
    BY <1>1, <1>5, <2>1, <2>3 DEF Upgrading
  <2>5. ~Over' => Done' <= Len(client'.asked) /\ c'.ofs = 0
    BY <1>1, <1>5, <1>13, <1>a, <1>z DEF Requesting
  <2> QED
    BY <1>1, <1>a, <2>1, <2>2, <2>4, <2>5 DEF Requesting
<1>15. Framing'
  <2> SUFFICES ASSUME ~Over'
               PROVE  /\ c'.ofs # 1
                      /\ \A j \in 2 .. c'.ofs : c'.recv[j] = Unmask(Payload(Len(heard') + 1, j - 1))
                      /\ \E fr \in Seq(Frame) :
                           /\ Frames(Stream', FramesFrom', fr)
                           /\ InStep(fr)'
                           /\ Kept' + Len(fr) <= client'.frames
    BY DEF Framing, Frames
  <2>1. PICK fr \in Seq(Frame) :
          Frames(Stream, FramesFrom, fr) /\ InStep(fr) /\ Kept + Len(fr) <= client.frames
    BY <1>1, <1>13 DEF Framing
  <2>2. Kept' = Kept
    BY <1>2, <1>5 DEF Kept
  <2>3. FramesFrom \in Nat /\ FramesFrom' \in Nat /\ FramesFrom = FramesFrom' + parsed
    <3>1. Done \in Nat /\ Done <= Len(client.asked) /\ Len(client.asked) \in Nat
      BY <1>1, <1>13, DoneType DEF Requesting, Client
    <3>2. Owed \in Nat /\ Owed' = Owed
      BY <1>1, <1>a, <3>1 DEF Owed
    <3>3. FramesFrom = parsed + 0 + 2 * Owed /\ FramesFrom' = 0 + 0 + 2 * Owed
      BY <1>1, <1>2, <1>5, <1>z, <3>2 DEF FramesFrom
    <3> QED
      BY <1>2, <3>2, <3>3
  <2>4. Frames(Stream', FramesFrom', fr)
    <3> HIDE DEF Stream, FramesFrom
    <3> QED
      BY <1>2, <1>9, <2>1, <2>3, FramesDrop
  <2>5. InStep(fr)'
    <3>1. \A f : Position(fr, f)' = Position(fr, f)
      BY <1>1 DEF Position
    <3> QED
      BY <1>1, <2>1, <2>2, <3>1 DEF InStep
  <2> QED
    BY <1>1, <1>5, <1>z, <2>1, <2>2, <2>4, <2>5
<1>16. Speaking'
  BY <1>1, SameSpeech
<1>17. Closed'
  BY <1>1, <1>5 DEF Closed
<1>18. Polite'
  <2>1. ASSUME ~client.early, c.pfn = "http" PROVE ~Complete(c'.recv, 0)
    <3>1. ~Complete(s, parsed)
      BY <1>1, <2>1 DEF JInv, Adrift, Replying, s
    <3> SUFFICES ASSUME 0 + 2 <= Len(t), t[0 + 1].what = "request", t[0 + 1].part = 1
                 PROVE  Complete(s, parsed)
      BY <1>5, <3>1 DEF Complete
    <3>2. 1 \in 1 .. Len(t) /\ parsed + 2 <= Len(s) /\ 1 + parsed = parsed + 1 /\ 0 + 1 = 1
      BY <1>2, <1>4, <1>6
    <3>3. t[1] = s[parsed + 1]
      BY <1>6, <3>2
    <3> QED
      BY <3>2, <3>3 DEF Complete
  <2>2. ASSUME ~client.early, c.pfn = "ws", ~c.is_closing PROVE ~FrameAt(c'.recv, c'.ofs)
    <3>1. Len(Stream) = parsed
      BY <1>1, <2>2, PoliteUpgraded
    <3>2. Len(t) <= 0
      BY <1>2, <1>4, <1>8, <3>1
    <3>3. ~(0 + 2 <= Len(t))
      BY <1>6, <3>2
    <3> QED
      BY <1>5, <1>z, <3>3 DEF FrameAt
  <2> QED
    BY <1>1, <1>5, <1>10, <2>1, <2>2 DEF Polite
<1> QED
  BY <1>a, <1>11, <1>14, <1>15, <1>16, <1>17, <1>18 DEF JInv

(***************************************************************************)
(* A frame                                                                 *)
(***************************************************************************)
NoReply(y) == \A i \in 1 .. Len(y) : ~IsReply(y[i])

\* t is s and, maybe, something that is no reply.
Beyond(s, t) == \E y \in Seq(Sent) : t = s \o y /\ NoReply(y)

\* A control frame is answered with something that is no reply to a request.
LEMMA ControlledShape ==
  ASSUME NEW d \in Conn, NEW op, NEW data \in Seq(Cell)
  PROVE  /\ Controlled(d, op, data) \in Conn
         /\ Controlled(d, op, data).recv = d.recv
         /\ Controlled(d, op, data).ofs = d.ofs
         /\ Controlled(d, op, data).pfn = d.pfn
         /\ Controlled(d, op, data).is_resp = d.is_resp
         /\ Controlled(d, op, data).is_closing = d.is_closing
         /\ Controlled(d, op, data).failed = d.failed /\ Controlled(d, op, data).re = d.re
         /\ Beyond(d.send, Controlled(d, op, data).send)
<1> DEFINE s == d.send
           e == Controlled(d, op, data)
<1>1. Controlled(d, op, data) \in Conn
  BY ControlledType
<1>2. s \in Seq(Sent)
  BY DEF Conn
<1>3. CASE op = "ping"
  <2> DEFINE x == [pong |-> data]
             y == <<x>>
  <2>1. x \in Sent /\ ~IsReply(x)
    BY DEF Sent, IsReply
  <2>2. Controlled(d, op, data) = [d EXCEPT !.send = s \o y]
    BY <1>3 DEF Controlled, Send, Conn
  <2> HIDE DEF x
  <2>3. y \in Seq(Sent) /\ NoReply(y)
    BY <2>1 DEF NoReply
  <2> HIDE DEF y
  <2> DEFINE z == s \o y
  <2> HIDE DEF z
  <2>4. /\ e.recv = d.recv /\ e.ofs = d.ofs /\ e.pfn = d.pfn /\ e.is_resp = d.is_resp
        /\ e.is_closing = d.is_closing /\ e.failed = d.failed /\ e.re = d.re /\ e.send = s \o y
    BY <2>2 DEF Conn
  <2> QED
    BY <1>1, <2>3, <2>4 DEF Beyond
<1>4. CASE op = "close"
  <2> DEFINE x == [close |-> data]
             y == <<x>>
  <2>1. x \in Sent /\ ~IsReply(x)
    BY DEF Sent, IsReply
  <2>2. Controlled(d, op, data) = [d EXCEPT !.send = s \o y, !.is_draining = TRUE]
    BY <1>4 DEF Controlled, Send, Conn
  <2> HIDE DEF x
  <2>3. y \in Seq(Sent) /\ NoReply(y)
    BY <2>1 DEF NoReply
  <2> HIDE DEF y
  <2>4. /\ e.recv = d.recv /\ e.ofs = d.ofs /\ e.pfn = d.pfn /\ e.is_resp = d.is_resp
        /\ e.is_closing = d.is_closing /\ e.failed = d.failed /\ e.re = d.re /\ e.send = s \o y
    BY <2>2 DEF Conn
  <2> QED
    BY <1>1, <2>3, <2>4 DEF Beyond
<1>5. CASE op \notin {"ping", "close"}
  <2> DEFINE y == <<>>
  <2>1. Controlled(d, op, data) = d
    BY <1>5 DEF Controlled
  <2>2. y \in Seq(Sent) /\ s \o y = s /\ NoReply(y)
    BY <1>2 DEF NoReply
  <2> HIDE DEF y
  <2> QED
    BY <1>1, <2>1, <2>2 DEF Beyond
<1> QED
  BY <1>3, <1>4, <1>5

\* The frames of the client have a payload of one cell; that is unmasked.
LEMMA UnmaskedPart ==
  ASSUME c \in Conn, c.recv[c.ofs + 2].n = 1, c.ofs + 3 <= Len(c.recv)
  PROVE  /\ Unmasked(c) \in Seq(Cell) /\ Len(Unmasked(c)) = Len(c.recv)
         /\ \A i \in 1 .. Len(c.recv) : i # c.ofs + 3 => Unmasked(c)[i] = c.recv[i]
         /\ Unmasked(c)[c.ofs + 3] = Unmask(c.recv[c.ofs + 3])
         /\ SubSeq(Unmasked(c), c.ofs + 3, c.ofs + 2 + 1) = <<Unmasked(c)[c.ofs + 3]>>
<1> DEFINE o == c.ofs
           s == c.recv
           u == Unmasked(c)
<1>1. o \in Nat /\ s \in Seq(Cell) /\ Len(s) \in Nat
  BY DEF Conn
<1>2. u \in Seq(Cell) /\ Len(u) = Len(s)
  <2> DEFINE n == 1
  <2>1. n \in Nat /\ n = c.recv[c.ofs + 2].n /\ c.ofs + 2 + n <= Len(c.recv)
    BY <1>1
  <2> HIDE DEF n
  <2> QED
    BY <2>1, UnmaskedCells
<1>3. u = [i \in 1 .. Len(s) |-> IF i \in o + 3 .. o + 2 + 1 THEN Unmask(s[i]) ELSE s[i]]
  BY DEF Unmasked
<1>4. o + 3 .. o + 2 + 1 = {o + 3}
  BY <1>1
<1>5. o + 3 \in 1 .. Len(s)
  BY <1>1
<1> HIDE DEF u, o, s
<1>6. /\ \A i \in 1 .. Len(s) : i # o + 3 => u[i] = s[i]
      /\ u[o + 3] = Unmask(s[o + 3])
  BY <1>3, <1>4, <1>5
<1>7. SubSeq(u, o + 3, o + 2 + 1) = <<u[o + 3]>>
  <2> DEFINE j == o + 3
  <2>1. j \in 1 .. Len(u) /\ o + 2 + 1 = j
    BY <1>1, <1>2, <1>5
  <2> HIDE DEF j
  <2>2. SubSeq(u, j, j) = <<u[j]>>
    <3> DEFINE q == SubSeq(u, j, j)
               z == <<u[j]>>
    <3>1. /\ q \in Seq(Cell) /\ Len(q) = 1 /\ q[1] = u[j]
      BY <1>2, <2>1
    <3>2. u[j] \in Cell
      BY <1>2, <2>1
    <3>3. z \in Seq(Cell) /\ Len(z) = 1 /\ z[1] = u[j]
      BY <3>2
    <3> HIDE DEF q, z
    <3>4. q = z
      BY <3>1, <3>3, SeqEqual
    <3> QED
      BY <3>4 DEF q, z
  <2> QED
    BY <2>1, <2>2 DEF j
<1> QED
  BY <1>2, <1>6, <1>7 DEF u, o, s

\* The first fragment of a message keeps its first byte; its length goes.
LEMMA StrippedFirst ==
  ASSUME NEW d \in Conn, NEW op, op # "cont"
  PROVE  /\ Stripped(d, op, 1) = [d EXCEPT !.recv = Del(d.recv, d.ofs + 1, 1), !.ofs = d.ofs + 2]
         /\ Stripped(d, op, 1).recv = Del(d.recv, d.ofs + 1, 1)
         /\ Stripped(d, op, 1).ofs = d.ofs + 2 /\ Stripped(d, op, 1).send = d.send
         /\ Stripped(d, op, 1).pfn = d.pfn /\ Stripped(d, op, 1).is_resp = d.is_resp
         /\ Stripped(d, op, 1).is_closing = d.is_closing /\ Stripped(d, op, 1).failed = d.failed /\ Stripped(d, op, 1).re = d.re
<1>1. d.ofs \in Nat /\ d.ofs + 1 + 1 = d.ofs + 2
  BY DEF Conn
<1>2. Stripped(d, op, 1) = [d EXCEPT !.recv = Del(d.recv, d.ofs + 1, 1), !.ofs = d.ofs + 2]
  BY <1>1 DEF Stripped, Conn
<1> QED
  BY <1>2 DEF Conn

\* Of a later fragment only the payload stays.
LEMMA StrippedNext ==
  ASSUME NEW d \in Conn
  PROVE  /\ Stripped(d, "cont", 1) = [d EXCEPT !.recv = Del(d.recv, d.ofs, 2), !.ofs = d.ofs + 1]
         /\ Stripped(d, "cont", 1).recv = Del(d.recv, d.ofs, 2)
         /\ Stripped(d, "cont", 1).ofs = d.ofs + 1 /\ Stripped(d, "cont", 1).send = d.send
         /\ Stripped(d, "cont", 1).pfn = d.pfn /\ Stripped(d, "cont", 1).is_resp = d.is_resp
         /\ Stripped(d, "cont", 1).is_closing = d.is_closing
         /\ Stripped(d, "cont", 1).failed = d.failed /\ Stripped(d, "cont", 1).re = d.re
<1>1. d.ofs \in Nat
  BY DEF Conn
<1>2. Stripped(d, "cont", 1) = [d EXCEPT !.recv = Del(d.recv, d.ofs, 2), !.ofs = d.ofs + 1]
  BY <1>1 DEF Stripped, Conn
<1> QED
  BY <1>2 DEF Conn

\* There is a frame at the offset, with a payload of one cell.
FrameHere(fin, op) ==
  /\ c \in Conn
  /\ c.ofs + 3 <= Len(c.recv)
  /\ c.recv[c.ofs + 1].fin = fin /\ c.recv[c.ofs + 1].op = op
  /\ c.recv[c.ofs + 2].n = 1

\* What each kind of frame does to the buffer, its offset and what is heard.
LEMMA FrameEffect ==
  ASSUME NEW fin, NEW op, FrameHere(fin, op), ProcessFrame
  PROVE  /\ c'.pfn = c.pfn /\ c'.is_resp = c.is_resp
         /\ c'.is_closing = c.is_closing /\ c'.failed = c.failed /\ c'.re = c.re
         /\ Beyond(c.send, c'.send)
         /\ LET u == Unmasked(c)
                o == c.ofs
                b == Del(u, o, 2)
            IN  /\ fin /\ op # "cont" =>
                     /\ c'.recv = Del(u, o, 3) /\ c'.ofs = o
                     /\ heard' = IF op = "text" THEN Append(heard, <<u[o + 3]>>) ELSE heard
                /\ ~fin /\ op # "cont" =>
                     c'.recv = Del(u, o + 1, 1) /\ c'.ofs = o + 2 /\ heard' = heard
                /\ ~fin /\ op = "cont" =>
                     c'.recv = b /\ c'.ofs = o + 1 /\ heard' = heard
                /\ fin /\ op = "cont" =>
                     /\ c'.recv = Del(b, 0, o + 1) /\ c'.ofs = 0
                     /\ heard' = Append(heard, SubSeq(b, 2, o + 1))
<1> DEFINE o    == c.ofs
           u    == Unmasked(c)
           n    == c.recv[o + 2].n
           k    == n + 2
           data == SubSeq(u, o + 3, o + 2 + n)
           e    == [c EXCEPT !.recv = u]
           d    == Controlled(e, op, data)
           s    == Stripped(d, op, n)
<1>1. c \in Conn /\ o \in Nat /\ n = 1 /\ k = 3
  BY DEF Conn, FrameHere
<1>2. u \in Seq(Cell) /\ data = <<u[o + 3]>> /\ Len(u) = Len(c.recv) /\ o + 3 <= Len(c.recv)
  BY <1>1, UnmaskedPart DEF FrameHere
<1>3. data \in Seq(Cell)
  <2>1. o + 3 \in 1 .. Len(u)
    BY <1>1, <1>2 DEF Conn
  <2>2. u[o + 3] \in Cell
    BY <1>2, <2>1
  <2> DEFINE x == u[o + 3]
  <2> HIDE DEF x, data
  <2> QED
    BY <1>2, <2>2 DEF x
<1>4. \/ /\ fin /\ op # "cont"
         /\ c' = [d EXCEPT !.recv = Del(@, d.ofs, k)]
         /\ heard' = IF op = "text" THEN Append(heard, data) ELSE heard
      \/ ~fin /\ c' = s /\ heard' = heard
      \/ /\ fin /\ op = "cont"
         /\ c' = [s EXCEPT !.recv = Del(@, 0, s.ofs), !.ofs = 0]
         /\ heard' = Append(heard, SubSeq(s.recv, 2, s.ofs))
  <2>1. c.recv[c.ofs + 1].fin = fin /\ c.recv[c.ofs + 1].op = op
    BY DEF FrameHere
  <2> QED
    BY <2>1 DEF ProcessFrame
<1> HIDE DEF u, data, n, k
<1>5. /\ e \in Conn /\ e.recv = u /\ e.ofs = o /\ e.pfn = c.pfn /\ e.is_resp = c.is_resp
      /\ e.is_closing = c.is_closing /\ e.failed = c.failed /\ e.re = c.re /\ e.send = c.send
  BY <1>1, <1>2 DEF Conn
<1> HIDE DEF e
<1>6. /\ d \in Conn /\ d.recv = u /\ d.ofs = o /\ d.pfn = c.pfn /\ d.is_resp = c.is_resp
      /\ d.is_closing = c.is_closing /\ d.failed = c.failed /\ d.re = c.re /\ Beyond(c.send, d.send)
  <2>1. /\ d \in Conn
        /\ d.recv = e.recv /\ d.ofs = e.ofs /\ d.pfn = e.pfn /\ d.is_resp = e.is_resp
        /\ d.is_closing = e.is_closing /\ d.failed = e.failed /\ d.re = e.re /\ Beyond(e.send, d.send)
    BY <1>3, <1>5, ControlledShape
  <2> HIDE DEF d
  <2> QED
    BY <1>5, <2>1
<1> HIDE DEF d
<1>7. /\ op # "cont" => s.recv = Del(u, o + 1, 1) /\ s.ofs = o + 2
      /\ op = "cont" =>
           /\ s.recv = Del(u, o, 2) /\ s.ofs = o + 1
           /\ s = [d EXCEPT !.recv = Del(u, o, 2), !.ofs = o + 1]
      /\ s.send = d.send /\ s.pfn = d.pfn /\ s.is_resp = d.is_resp
      /\ s.is_closing = d.is_closing /\ s.failed = d.failed /\ s.re = d.re
  <2>1. s = Stripped(d, op, 1)
    BY <1>1
  <2> HIDE DEF s
  <2>2. d \in Conn /\ d.recv = u /\ d.ofs = o
    BY <1>6
  <2>3. CASE op # "cont"
    <3>1. /\ s.recv = Del(d.recv, d.ofs + 1, 1) /\ s.ofs = d.ofs + 2
          /\ s.send = d.send /\ s.pfn = d.pfn /\ s.is_resp = d.is_resp
          /\ s.is_closing = d.is_closing /\ s.failed = d.failed /\ s.re = d.re
      BY <2>1, <2>2, <2>3, StrippedFirst
    <3> QED
      BY <2>2, <2>3, <3>1
  <2>4. CASE op = "cont"
    <3>1. /\ s.recv = Del(d.recv, d.ofs, 2) /\ s.ofs = d.ofs + 1
          /\ s = [d EXCEPT !.recv = Del(d.recv, d.ofs, 2), !.ofs = d.ofs + 1]
          /\ s.send = d.send /\ s.pfn = d.pfn /\ s.is_resp = d.is_resp
          /\ s.is_closing = d.is_closing /\ s.failed = d.failed /\ s.re = d.re
      BY <2>1, <2>2, <2>4, StrippedNext
    <3> QED
      BY <2>2, <2>4, <3>1
  <2> QED
    BY <2>3, <2>4
<1> HIDE DEF s, o
<1>8. CASE /\ fin /\ op # "cont"
           /\ c' = [d EXCEPT !.recv = Del(@, d.ofs, k)]
           /\ heard' = IF op = "text" THEN Append(heard, data) ELSE heard
  <2> DEFINE t == Del(u, o, 3)
  <2>1. c' = [d EXCEPT !.recv = t]
    BY <1>1, <1>6, <1>8
  <2> HIDE DEF t
  <2>2. /\ c'.recv = t /\ c'.ofs = o /\ c'.pfn = d.pfn /\ c'.is_resp = d.is_resp
        /\ c'.is_closing = d.is_closing /\ c'.failed = d.failed /\ c'.re = d.re /\ c'.send = d.send
    BY <1>6, <2>1 DEF Conn
  <2> QED
    BY <1>2, <1>6, <1>8, <2>2 DEF t, u, o
<1>9. CASE ~fin /\ c' = s /\ heard' = heard
  BY <1>6, <1>7, <1>9 DEF u, o
<1>10. CASE /\ fin /\ op = "cont"
            /\ c' = [s EXCEPT !.recv = Del(@, 0, s.ofs), !.ofs = 0]
            /\ heard' = Append(heard, SubSeq(s.recv, 2, s.ofs))
  <2> DEFINE b == Del(u, o, 2)
             q == o + 1
             t == Del(b, 0, q)
  <2>1. b \in Seq(Cell) /\ q \in Nat
    <3>1. Len(u) \in Nat /\ 2 \in Nat /\ o + 2 <= Len(u)
      BY <1>1, <1>2 DEF o
    <3> QED
      BY <1>1, <1>2, <3>1, DelCells
  <2>2. s.recv = b /\ s.ofs = q /\ s = [d EXCEPT !.recv = b, !.ofs = q]
    BY <1>7, <1>10
  <2> HIDE DEF b, q
  <2>3. s \in Conn
    BY <1>6, <2>1, <2>2 DEF Conn
  <2>4. c' = [s EXCEPT !.recv = t, !.ofs = 0]
    BY <1>10, <2>2
  <2> HIDE DEF t
  <2>5. /\ c'.recv = t /\ c'.ofs = 0 /\ c'.pfn = s.pfn /\ c'.is_resp = s.is_resp
        /\ c'.is_closing = s.is_closing /\ c'.failed = s.failed /\ c'.re = s.re /\ c'.send = s.send
    BY <2>3, <2>4 DEF Conn
  <2>6. heard' = Append(heard, SubSeq(b, 2, q))
    BY <1>10, <2>2
  <2> QED
    BY <1>6, <1>7, <1>10, <2>5, <2>6 DEF t, b, q, u, o
<1> QED
  BY <1>4, <1>8, <1>9, <1>10

\* What the websocket parser takes is the first of the frames fr.
Taken(fr) ==
  /\ fr \in Seq(Frame) /\ Len(fr) # 0 /\ fr[1] \in Frame
  /\ Frames(Stream, c.ofs, fr) /\ InStep(fr) /\ Kept + Len(fr) <= client.frames
  /\ FrameHere(fr[1].fin, fr[1].op) /\ c.recv[c.ofs + 3] = Data(fr[1])
  /\ fr[1].msg = Len(heard) + 1 /\ fr[1].k = Kept + 1

\* A frame that mg_ws_cb finds is the first of those in the stream.
LEMMA FrameFound ==
  ASSUME IInv, JInv, loop = "ws", FrameAt(c.recv, c.ofs)
  PROVE  /\ ~c.is_closing /\ at # "gone" /\ parsed = 0 /\ c.pfn = "ws" /\ c.ofs # 1
         /\ Owed = 0 /\ Done \in Nat /\ client.frames > 0
         /\ \A j \in 2 .. c.ofs : c.recv[j] = Unmask(Payload(Len(heard) + 1, j - 1))
         /\ \E fr : Taken(fr)
<1> DEFINE r == Len(c.recv)
           o == c.ofs
<1>1. /\ c.recv \in Seq(Cell) /\ wire \in Seq(Cell) /\ r \in Nat /\ o \in Nat /\ parsed = 0
      /\ client.frames \in Nat /\ c.pfn = "ws" /\ c \in Conn
  BY DEF IInv, Typed, Placed, Conn, Client
<1>2. ~c.is_closing /\ at # "gone" /\ ~Over
  BY <1>1 DEF JInv, Closed, Over
<1>3. /\ Len(Stream) \in Nat /\ r <= Len(Stream)
      /\ \A i \in 1 .. r : Stream[i] = c.recv[i]
  <2> DEFINE s == c.recv
  <2>1. s \in Seq(Cell) /\ wire \in Seq(Cell) /\ Len(s) = r
    BY <1>1
  <2> HIDE DEF s, r
  <2>2. /\ s \o wire \in Seq(Cell) /\ Len(s \o wire) = Len(s) + Len(wire)
        /\ \A i \in 1 .. Len(s) : (s \o wire)[i] = s[i]
    BY <2>1, StreamCells
  <2>3. Len(wire) \in Nat
    BY <2>1
  <2> QED
    BY <1>1, <2>1, <2>2, <2>3 DEF Stream, s
<1>w. Owed = 0 /\ Done \in Nat /\ client.frames > 0
  <2>1. parsed + c.ofs < Len(c.recv) /\ c.recv[c.ofs + 1].what = "flags"
    BY <1>1 DEF FrameAt
  <2>2. Owed \in Nat /\ Done \in Nat
    BY <1>2, <2>1, NextCell
  <2>3. Owed = 0
    <3> SUFFICES ASSUME Owed > 0 PROVE FALSE
      BY <2>2
    <3>1. c.ofs = 0 /\ c.recv[parsed + 1] = RequestCell(client.asked, Done + 1, 1)
      BY <1>2, <2>1, NextCell
    <3>2. c.recv[c.ofs + 1].what = "request"
      BY <1>1, <3>1 DEF RequestCell
    <3> QED
      BY <2>1, <3>2
  <2>4. client.frames > 0
    BY <1>2, <2>1, <2>3, NextCell
  <2> QED
    BY <2>2, <2>3, <2>4
<1>4. /\ o # 1 /\ \A j \in 2 .. o : c.recv[j] = Unmask(Payload(Len(heard) + 1, j - 1))
      /\ FramesFrom = o
  BY <1>1, <1>2, <1>w DEF JInv, Framing, FramesFrom
<1>5. PICK fr \in Seq(Frame) :
        Frames(Stream, o, fr) /\ InStep(fr) /\ Kept + Len(fr) <= client.frames
  BY <1>2, <1>4 DEF JInv, Framing
<1>6. o + 2 <= r
  BY <1>1 DEF FrameAt
<1> DEFINE n == Len(fr)
<1>7. n \in Nat /\ Len(Stream) = o + 3 * n
  BY <1>5 DEF Frames
<1>8. n # 0 /\ 1 \in 1 .. n
  <2> HIDE DEF n
  <2>1. n # 0
    BY <1>1, <1>3, <1>6, <1>7
  <2> QED
    BY <1>7, <2>1
<1>9. fr[1] \in Frame
  BY <1>5, <1>8
<1> HIDE DEF o, n
<1>10. /\ Stream[o + 1] = [what |-> "flags", fin |-> fr[1].fin, op |-> fr[1].op]
       /\ Stream[o + 2] = [what |-> "length", n |-> 1]
       /\ Stream[o + 3] = Data(fr[1])
  BY <1>1, <1>5, <1>8, FirstFrame DEF n
<1>11. c.recv[o + 1] = Stream[o + 1] /\ c.recv[o + 2] = Stream[o + 2]
  <2>1. o + 1 \in 1 .. r /\ o + 2 \in 1 .. r
    BY <1>1, <1>6
  <2> QED
    BY <1>3, <2>1
<1>12. c.recv[o + 1].fin = fr[1].fin /\ c.recv[o + 1].op = fr[1].op /\ c.recv[o + 2].n = 1
  BY <1>10, <1>11
<1>13. o + 3 <= r
  <2>1. o + 2 + c.recv[o + 2].n <= r
    BY DEF FrameAt, o
  <2> QED
    BY <1>1, <1>12, <2>1
<1>14. c.recv[o + 3] = Data(fr[1])
  <2>1. o + 3 \in 1 .. r
    BY <1>1, <1>13
  <2> QED
    BY <1>3, <1>10, <2>1
<1>15. fr[1].msg = Len(heard) + 1 /\ fr[1].k = Kept + 1
  <2>1. Position(fr, 1) = <<Len(heard) + 1, Kept + 1>>
    BY <1>5 DEF InStep
  <2>2. 1 \in DOMAIN fr
    BY <1>5, <1>8 DEF n
  <2>3. Position(fr, 1) = <<fr[1].msg, fr[1].k>>
    BY <2>2 DEF Position
  <2> QED
    BY <2>1, <2>3
<1>16. FrameHere(fr[1].fin, fr[1].op)
  BY <1>1, <1>12, <1>13 DEF FrameHere, o
<1>17. Taken(fr)
  BY <1>5, <1>8, <1>9, <1>14, <1>15, <1>16 DEF Taken, o, n
<1> QED
  BY <1>1, <1>2, <1>w, <1>4, <1>17 DEF o

\* A frame: some cells are taken away, so that those beyond it are beyond the
\* new offset.
Moved(x) ==
  /\ x \in Nat /\ c'.ofs \in Nat /\ c'.ofs + x = c.ofs + 3 /\ Len(c'.recv) = Len(c.recv) - x
  /\ \A i \in 1 .. Len(c'.recv) : i > c'.ofs => c'.recv[i] = c.recv[i + x]

\* What is kept of the message that is heard next, up to the offset o.
Fragments(recv, o, msg) ==
  /\ o # 1
  /\ \A j \in 2 .. o : recv[j] = Unmask(Payload(msg, j - 1))

HeardNext ==
  \/ heard' = heard
  \/ /\ Len(heard) < Len(client.said)
     /\ heard' = Append(heard, client.said[Len(heard) + 1])

\* The server is where the client was after the frame x.
Caught(x) ==
  /\ After(x) = <<Len(heard') + 1, Kept' + 1>> /\ Kept' <= Kept + 1
  /\ heard' \in Seq(Seq(Cell)) /\ Len(heard') <= Len(client.said)
  /\ Fragments(c'.recv, c'.ofs, Len(heard') + 1)

Outcome(x) == (\E n : Moved(n)) /\ HeardNext /\ Caught(x)

\* A frame that speaks is the first of its message, or there are fragments.
LEMMA TakenSpeaks ==
  ASSUME NEW fr, Taken(fr), c.ofs \in Nat, c.ofs # 1
  PROVE  /\ fr[1].op = "text" => c.ofs = 0 /\ Kept = 0
         /\ fr[1].op = "cont" => c.ofs >= 2 /\ Kept = c.ofs - 1
         /\ fr[1].op \notin {"text", "cont"} => fr[1].fin
         /\ Speaks(fr[1]) => Data(fr[1]) = Payload(Len(heard) + 1, Kept + 1)
         /\ Speaks(fr[1]) /\ fr[1].fin =>
              /\ Len(heard) + 1 <= Len(client.said)
              /\ Kept + 1 = Len(client.said[Len(heard) + 1])
<1>1. /\ fr[1] \in Frame /\ 1 \in 1 .. Len(fr) /\ InStep(fr)
      /\ fr[1].msg = Len(heard) + 1 /\ fr[1].k = Kept + 1
  BY DEF Taken
<1>2. /\ fr[1].op = "text" <=> Speaks(fr[1]) /\ fr[1].k = 1
      /\ ~Speaks(fr[1]) => fr[1].fin
      /\ Speaks(fr[1]) /\ fr[1].fin =>
           fr[1].msg <= Len(client.said) /\ fr[1].k = Len(client.said[fr[1].msg])
  BY <1>1 DEF InStep
<1>3. Kept \in Nat /\ (Kept + 1 = 1 <=> c.ofs = 0) /\ (c.ofs # 0 => Kept = c.ofs - 1)
  BY DEF Kept
<1>4. Speaks(fr[1]) <=> fr[1].op \in {"text", "cont"}
  BY DEF Speaks
<1>5. fr[1].op = "text" => c.ofs = 0 /\ Kept = 0
  BY <1>1, <1>2, <1>3
<1>6. fr[1].op = "cont" => c.ofs >= 2 /\ Kept = c.ofs - 1
  <2>1. fr[1].op = "cont" => c.ofs # 0
    BY <1>1, <1>2, <1>3, <1>4
  <2> QED
    BY <1>3, <2>1
<1> QED
  BY <1>1, <1>2, <1>4, <1>5, <1>6 DEF Data

\* A message is known by its length.
LEMMA SpokenEqual ==
  ASSUME NEW s \in Seq(Cell), NEW t \in Seq(Cell), NEW msg, Spoken(msg, s), Len(t) = Len(s),
         \A k \in 1 .. Len(t) : t[k] = Unmask(Payload(msg, k))
  PROVE  t = s
<1>1. \A k \in 1 .. Len(s) : s[k] = Unmask(Payload(msg, k))
  BY DEF Spoken
<1>2. \A k \in 1 .. Len(s) : t[k] = s[k]
  BY <1>1
<1> QED
  BY <1>2, SeqEqual

\* Every kind of frame: a message, a control frame, the first fragment of a
\* message, one between, and the last.
LEMMA FrameOutcome ==
  ASSUME IInv, JInv, loop = "ws", FrameAt(c.recv, c.ofs), ProcessFrame, NEW fr, Taken(fr)
  PROVE  Outcome(fr[1])
<1> DEFINE o   == c.ofs
           s   == c.recv
           u   == Unmasked(c)
           h   == Len(heard)
           fin == fr[1].fin
           op  == fr[1].op
           p   == Unmask(Payload(h + 1, Kept + 1))
           b   == Del(u, o, 2)
<1>1. /\ c \in Conn /\ o \in Nat /\ s \in Seq(Cell) /\ Len(s) \in Nat /\ o + 3 <= Len(s)
      /\ s[o + 2].n = 1 /\ o # 1
      /\ \A j \in 2 .. o : s[j] = Unmask(Payload(h + 1, j - 1))
      /\ FrameHere(fin, op) /\ s[o + 3] = Data(fr[1]) /\ fr[1] \in Frame
  BY FrameFound DEF IInv, Typed, Conn, Taken, FrameHere
<1>2. /\ u \in Seq(Cell) /\ Len(u) = Len(s)
      /\ \A i \in 1 .. Len(s) : i # o + 3 => u[i] = s[i]
      /\ u[o + 3] = Unmask(Data(fr[1]))
  BY <1>1, UnmaskedPart
<1>3. /\ op = "text" => o = 0 /\ Kept = 0
      /\ op = "cont" => o >= 2 /\ Kept = o - 1
      /\ op \notin {"text", "cont"} => fin
      /\ op \in {"text", "cont"} => u[o + 3] = p
      /\ op \in {"text", "cont"} /\ fin =>
           h + 1 <= Len(client.said) /\ Kept + 1 = Len(client.said[h + 1])
  BY <1>1, <1>2, TakenSpeaks DEF Speaks
<1>4. /\ heard \in Seq(Seq(Cell)) /\ h \in Nat /\ h <= Len(client.said)
      /\ client.said \in Seq(Seq(Cell)) /\ Len(client.said) \in Nat
      /\ \A m \in 1 .. Len(client.said) : Spoken(m, client.said[m])
  BY DEF JInv, Speaking, IInv, Typed, Client
<1>5. /\ fin /\ op # "cont" =>
           /\ c'.recv = Del(u, o, 3) /\ c'.ofs = o
           /\ heard' = IF op = "text" THEN Append(heard, <<u[o + 3]>>) ELSE heard
      /\ ~fin /\ op # "cont" =>
           c'.recv = Del(u, o + 1, 1) /\ c'.ofs = o + 2 /\ heard' = heard
      /\ ~fin /\ op = "cont" =>
           c'.recv = b /\ c'.ofs = o + 1 /\ heard' = heard
      /\ fin /\ op = "cont" =>
           /\ c'.recv = Del(b, 0, o + 1) /\ c'.ofs = 0
           /\ heard' = Append(heard, SubSeq(b, 2, o + 1))
  BY <1>1, FrameEffect
<1>6. /\ fr[1].msg = h + 1 /\ fr[1].k = Kept + 1 /\ fin \in BOOLEAN
      /\ op \in {"text", "cont", "ping", "close"}
      /\ Speaks(fr[1]) <=> op \in {"text", "cont"}
  BY <1>1 DEF Taken, Frame, Speaks
<1>7. /\ b \in Seq(Cell) /\ Len(b) = Len(s) - 2
      /\ \A i \in 1 .. o : b[i] = u[i]
      /\ \A i \in o + 1 .. Len(s) - 2 : b[i] = u[i + 2]
  <2> DEFINE x == 2
             d == Del(u, o, x)
  <2>1. o + x <= Len(u) /\ x \in Nat /\ x = 2 /\ b = d /\ o \in Nat /\ u \in Seq(Cell)
    BY <1>1, <1>2
  <2> HIDE DEF u, x, o
  <2>2. /\ d \in Seq(Cell) /\ Len(d) = Len(u) - x
        /\ \A i \in 1 .. o : d[i] = u[i]
        /\ \A i \in o + 1 .. Len(u) - x : d[i] = u[i + x]
    BY <2>1, DelCells
  <2> HIDE DEF d, s, b
  <2> QED
    BY <1>2, <2>1, <2>2
<1> HIDE DEF u, b, p, h, s, o
<1>8. ASSUME NEW m \in Seq(Cell), heard' = Append(heard, m), op \in {"text", "cont"}, fin,
             Len(m) = Kept + 1, \A k \in 1 .. Len(m) : m[k] = Unmask(Payload(h + 1, k)),
             c'.ofs = 0
      PROVE  HeardNext /\ Caught(fr[1])
  <2> DEFINE d == client.said[h + 1]
  <2>1. h + 1 \in 1 .. Len(client.said) /\ Len(d) = Len(m)
    BY <1>3, <1>4, <1>8
  <2>2. d \in Seq(Cell) /\ Spoken(h + 1, d)
    BY <1>4, <2>1
  <2> HIDE DEF d
  <2>3. m = d
    BY <1>8, <2>1, <2>2, SpokenEqual
  <2>4. h < Len(client.said)
    BY <1>4, <2>1
  <2>5. HeardNext
    BY <1>8, <2>3, <2>4 DEF HeardNext, d, h
  <2>6. heard' \in Seq(Seq(Cell)) /\ Len(heard') = h + 1
    BY <1>4, <1>8 DEF h
  <2>7. Kept' = 0 /\ 0 <= Kept + 1
    BY <1>1, <1>8 DEF Kept, o
  <2>8. After(fr[1]) = <<h + 2, 1>>
    <3>1. fr[1].msg + 1 = h + 2
      BY <1>4, <1>6
    <3>2. After(fr[1]) = <<fr[1].msg + 1, 1>>
      BY <1>6, <1>8 DEF After
    <3> QED
      BY <3>1, <3>2
  <2>9. After(fr[1]) = <<Len(heard') + 1, Kept' + 1>>
    BY <1>4, <2>6, <2>7, <2>8
  <2>10. Fragments(c'.recv, c'.ofs, Len(heard') + 1)
    BY <1>8 DEF Fragments
  <2> QED
    BY <1>4, <2>1, <2>4, <2>5, <2>6, <2>7, <2>9, <2>10 DEF Caught
<1>9. CASE fin /\ op # "cont"
  <2> DEFINE t == Del(u, o, 3)
  <2>1. /\ t \in Seq(Cell) /\ Len(t) = Len(s) - 3
        /\ \A i \in 1 .. o : t[i] = u[i]
        /\ \A i \in o + 1 .. Len(s) - 3 : t[i] = u[i + 3]
    <3> DEFINE x == 3
               d == Del(u, o, x)
    <3>1. o + x <= Len(u) /\ x \in Nat /\ x = 3 /\ t = d /\ o \in Nat /\ u \in Seq(Cell)
      BY <1>1, <1>2
    <3> HIDE DEF x
    <3>2. /\ d \in Seq(Cell) /\ Len(d) = Len(u) - x
          /\ \A i \in 1 .. o : d[i] = u[i]
          /\ \A i \in o + 1 .. Len(u) - x : d[i] = u[i + x]
      BY <3>1, DelCells
    <3> HIDE DEF d, t
    <3> QED
      BY <1>2, <3>1, <3>2
  <2> HIDE DEF t
  <2>2. c'.recv = t /\ c'.ofs = o
    BY <1>5, <1>9 DEF t
  <2>3. Moved(3)
    <3>1. ASSUME NEW i \in 1 .. Len(t), i > o PROVE t[i] = s[i + 3]
      <4>1. i \in o + 1 .. Len(s) - 3 /\ i + 3 \in 1 .. Len(s) /\ i + 3 # o + 3
        BY <1>1, <2>1, <3>1
      <4> QED
        BY <1>2, <2>1, <4>1
    <3> QED
      BY <1>1, <2>1, <2>2, <3>1 DEF Moved, o, s
  <2>4. CASE op = "text"
    <3> DEFINE m == <<u[o + 3]>>
    <3>1. o + 3 \in 1 .. Len(u)
      BY <1>1, <1>2
    <3>2. u[o + 3] \in Cell /\ u[o + 3] = Unmask(Payload(h + 1, 1)) /\ Kept = 0 /\ o = 0
      BY <1>2, <1>3, <2>4, <3>1 DEF p
    <3>3. m \in Seq(Cell) /\ Len(m) = Kept + 1 /\ \A k \in 1 .. Len(m) : m[k] = Unmask(Payload(h + 1, k))
      BY <3>2
    <3>4. heard' = Append(heard, m)
      BY <1>5, <1>9, <2>4
    <3> HIDE DEF m
    <3> QED
      BY <1>8, <1>9, <2>2, <2>3, <2>4, <3>2, <3>3, <3>4 DEF Outcome
  <2>5. CASE op # "text"
    <3>1. heard' = heard /\ Kept' = Kept
      BY <1>5, <1>9, <2>2, <2>5 DEF Kept, o
    <3>2. ~Speaks(fr[1])
      BY <1>6, <1>9, <2>5
    <3>3. After(fr[1]) = <<Len(heard') + 1, Kept' + 1>>
      BY <1>6, <3>1, <3>2 DEF After, h
    <3>4. Kept' <= Kept + 1
      BY <1>1, <3>1 DEF Kept, o
    <3>5. \A j \in 2 .. o : t[j] = s[j]
      <4> SUFFICES ASSUME NEW j \in 2 .. o PROVE t[j] = s[j]
        OBVIOUS
      <4>1. j \in 1 .. o /\ j \in 1 .. Len(s) /\ j # o + 3
        BY <1>1
      <4> QED
        BY <1>2, <2>1, <4>1
    <3>6. Fragments(c'.recv, c'.ofs, Len(heard') + 1)
      BY <1>1, <2>2, <3>1, <3>5 DEF Fragments, h
    <3> QED
      BY <1>4, <2>3, <3>1, <3>3, <3>4, <3>6 DEF Outcome, HeardNext, Caught, h
  <2> QED
    BY <2>4, <2>5
<1>10. CASE ~fin /\ op # "cont"
  <2> DEFINE q == o + 1
             t == Del(u, q, 1)
  <2>1. q \in Nat /\ q + 1 <= Len(u) /\ op = "text" /\ o = 0 /\ Kept = 0
    BY <1>1, <1>2, <1>3, <1>6, <1>10
  <2> HIDE DEF q
  <2>2. /\ t \in Seq(Cell) /\ Len(t) = Len(s) - 1
        /\ \A i \in q + 1 .. Len(s) - 1 : t[i] = u[i + 1]
    <3> DEFINE x == 1
               d == Del(u, q, x)
    <3>1. q + x <= Len(u) /\ x \in Nat /\ x = 1 /\ t = d
      BY <2>1
    <3>0. u \in Seq(Cell) /\ q \in Nat
      BY <1>2, <2>1
    <3> HIDE DEF x
    <3>2. /\ d \in Seq(Cell) /\ Len(d) = Len(u) - x
          /\ \A i \in 1 .. q : d[i] = u[i]
          /\ \A i \in q + 1 .. Len(u) - x : d[i] = u[i + x]
      BY <3>0, <3>1, DelCells
    <3> HIDE DEF d, t
    <3> QED
      BY <1>2, <3>1, <3>2
  <2> HIDE DEF t
  <2>3. c'.recv = t /\ c'.ofs = 2 /\ heard' = heard
    BY <1>5, <1>10, <2>1 DEF t, q
  <2>4. \A i \in 2 .. Len(s) - 1 : t[i] = u[i + 1]
    BY <2>1, <2>2 DEF q
  <2>5. Moved(1)
    <3>1. ASSUME NEW i \in 1 .. Len(t), i > 2 PROVE t[i] = s[i + 1]
      <4>1. i \in 2 .. Len(s) - 1 /\ i + 1 \in 1 .. Len(s) /\ i + 1 # o + 3
        BY <1>1, <2>1, <2>2, <3>1
      <4> QED
        BY <1>2, <2>4, <4>1
    <3>2. 2 + 1 = c.ofs + 3
      BY <2>1 DEF o
    <3> QED
      BY <2>2, <2>3, <3>1, <3>2 DEF Moved, s
  <2>6. t[2] = Unmask(Payload(h + 1, 1))
    <3>1. 2 \in 2 .. Len(s) - 1 /\ 2 + 1 = o + 3
      BY <1>1, <2>1
    <3> QED
      BY <1>3, <2>1, <2>4, <3>1 DEF p
  <2>7. Kept' = 1
    BY <2>3 DEF Kept
  <2>8. After(fr[1]) = <<Len(heard') + 1, Kept' + 1>>
    BY <1>6, <1>10, <2>1, <2>3, <2>7 DEF After, h
  <2>9. Fragments(c'.recv, c'.ofs, Len(heard') + 1)
    <3>1. \A j \in 2 .. 2 : j = 2 /\ j - 1 = 1
      OBVIOUS
    <3> QED
      BY <2>3, <2>6, <3>1 DEF Fragments, h
  <2> QED
    BY <1>4, <2>1, <2>3, <2>5, <2>7, <2>8, <2>9 DEF Outcome, HeardNext, Caught, h
<1>11. CASE ~fin /\ op = "cont"
  <2>1. c'.recv = b /\ c'.ofs = o + 1 /\ heard' = heard /\ o >= 2 /\ Kept = o - 1
    BY <1>3, <1>5, <1>11
  <2>2. Moved(2)
    <3>1. ASSUME NEW i \in 1 .. Len(b), i > o + 1 PROVE b[i] = s[i + 2]
      <4>1. i \in o + 1 .. Len(s) - 2 /\ i + 2 \in 1 .. Len(s) /\ i + 2 # o + 3
        BY <1>1, <1>7, <3>1
      <4> QED
        BY <1>2, <1>7, <4>1
    <3>2. o + 1 + 2 = c.ofs + 3 /\ o + 1 \in Nat
      BY <1>1 DEF o
    <3> QED
      BY <1>7, <2>1, <3>1, <3>2 DEF Moved, s
  <2>3. \A j \in 2 .. o + 1 : b[j] = Unmask(Payload(h + 1, j - 1))
    <3> SUFFICES ASSUME NEW j \in 2 .. o + 1 PROVE b[j] = Unmask(Payload(h + 1, j - 1))
      OBVIOUS
    <3>1. CASE j \in 2 .. o
      <4>1. b[j] = s[j]
        BY <1>1, <1>2, <1>7, <3>1
      <4> QED
        BY <1>1, <3>1, <4>1
    <3>2. CASE j = o + 1
      <4>1. o + 1 \in o + 1 .. Len(s) - 2 /\ o + 1 + 2 = o + 3 /\ j - 1 = Kept + 1
        BY <1>1, <2>1, <3>2
      <4>2. b[o + 1] = u[o + 3]
        BY <1>7, <4>1
      <4> QED
        BY <1>3, <1>11, <3>2, <4>1, <4>2 DEF p
    <3> QED
      BY <1>1, <3>1, <3>2
  <2>4. Kept' = o /\ Kept + 1 = o /\ o + 1 # 1
    BY <1>1, <2>1 DEF Kept
  <2>5. After(fr[1]) = <<Len(heard') + 1, Kept' + 1>>
    <3>1. After(fr[1]) = <<h + 1, Kept + 1 + 1>>
      BY <1>6, <1>11 DEF After
    <3> QED
      BY <2>1, <2>4, <3>1 DEF h
  <2>6. Fragments(c'.recv, c'.ofs, Len(heard') + 1)
    BY <2>1, <2>3, <2>4 DEF Fragments, h
  <2>7. Kept' <= Kept + 1
    BY <1>1, <2>4
  <2> QED
    BY <1>4, <2>1, <2>2, <2>5, <2>6, <2>7 DEF Outcome, HeardNext, Caught, h
<1>12. CASE fin /\ op = "cont"
  <2> DEFINE z == 0
             q == o + 1
             t == Del(b, z, q)
             m == SubSeq(b, 2, q)
  <2>1. c'.recv = t /\ c'.ofs = 0 /\ heard' = Append(heard, m) /\ o >= 2 /\ Kept = o - 1
    BY <1>3, <1>5, <1>12
  <2>2. z \in Nat /\ q \in Nat /\ z + q <= Len(b) /\ z = 0
    BY <1>1, <1>7
  <2>3. m \in Seq(Cell) /\ Len(m) = o /\ \A k \in 1 .. o : m[k] = b[k + 1]
    <3>1. 2 \in 1 .. Len(b) + 1 /\ q <= Len(b) /\ q - 2 + 1 = o /\ q >= 2
      BY <1>1, <1>7, <2>1
    <3> QED
      BY <1>1, <1>7, <3>1
  <2> HIDE DEF z, m
  <2>4. /\ t \in Seq(Cell) /\ Len(t) = Len(b) - q
        /\ \A i \in z + 1 .. Len(b) - q : t[i] = b[i + q]
    <3> HIDE DEF q
    <3> QED
      BY <1>7, <2>2, DelCells
  <2> HIDE DEF t
  <2>5. Moved(o + 3)
    <3>1. ASSUME NEW i \in 1 .. Len(t), i > 0 PROVE t[i] = s[i + (o + 3)]
      <4>1. /\ i \in z + 1 .. Len(b) - q /\ i + q \in o + 1 .. Len(s) - 2
            /\ i + q + 2 = i + (o + 3) /\ i + (o + 3) \in 1 .. Len(s) /\ i + (o + 3) # o + 3
        BY <1>1, <1>7, <2>2, <2>4, <3>1
      <4>2. t[i] = b[i + q] /\ b[i + q] = u[i + q + 2]
        BY <1>7, <2>4, <4>1
      <4> QED
        BY <1>2, <4>1, <4>2
    <3>2. Len(t) = Len(s) - (o + 3) /\ 0 + (o + 3) = o + 3 /\ o + 3 \in Nat
      BY <1>1, <1>7, <2>4
    <3> QED
      BY <2>1, <3>1, <3>2 DEF Moved, s, o
  <2>6. \A k \in 1 .. Len(m) : m[k] = Unmask(Payload(h + 1, k))
    <3> SUFFICES ASSUME NEW k \in 1 .. o PROVE b[k + 1] = Unmask(Payload(h + 1, k))
      BY <2>3
    <3>1. CASE k < o
      <4>1. k + 1 \in 2 .. o /\ k + 1 \in 1 .. o /\ k + 1 \in 1 .. Len(s) /\ k + 1 # o + 3 /\ (k + 1) - 1 = k
        BY <1>1, <3>1
      <4> QED
        BY <1>1, <1>2, <1>7, <4>1
    <3>2. CASE k = o
      <4>1. o + 1 \in o + 1 .. Len(s) - 2 /\ o + 1 + 2 = o + 3 /\ k = Kept + 1
        BY <1>1, <2>1, <3>2
      <4>2. b[o + 1] = u[o + 3]
        BY <1>7, <4>1
      <4> QED
        BY <1>3, <1>12, <3>2, <4>1, <4>2 DEF p
    <3> QED
      BY <1>1, <3>1, <3>2
  <2>7. Len(m) = Kept + 1
    BY <1>1, <2>1, <2>3
  <2> QED
    BY <1>8, <1>12, <2>1, <2>3, <2>5, <2>6, <2>7 DEF Outcome
<1> QED
  BY <1>6, <1>9, <1>10, <1>11, <1>12

\* Without its first, the frames begin three cells later.
LEMMA FramesTail ==
  ASSUME NEW s, NEW b \in Nat, NEW fr \in Seq(Frame), Frames(s, b, fr), Len(fr) # 0
  PROVE  /\ Tail(fr) \in Seq(Frame) /\ Len(Tail(fr)) = Len(fr) - 1
         /\ \A f \in 1 .. Len(fr) - 1 : Tail(fr)[f] = fr[f + 1]
         /\ Frames(s, b + 3, Tail(fr))
<1> DEFINE g == Tail(fr)
           n == Len(fr)
<1>1. n \in Nat /\ n # 0 /\ g \in Seq(Frame) /\ Len(g) = n - 1 /\ \A f \in 1 .. n - 1 : g[f] = fr[f + 1]
  OBVIOUS
<1>2. /\ Len(s) = b + 3 * n
      /\ \A f \in 1 .. n :
           /\ s[b + 3 * f - 2] = [what |-> "flags", fin |-> fr[f].fin, op |-> fr[f].op]
           /\ s[b + 3 * f - 1] = [what |-> "length", n |-> 1]
           /\ s[b + 3 * f] = Data(fr[f])
  BY DEF Frames
<1> HIDE DEF g, n
<1>3. Len(s) = b + 3 + 3 * Len(g)
  BY <1>1, <1>2
<1>4. ASSUME NEW f \in 1 .. Len(g)
      PROVE  /\ s[b + 3 + 3 * f - 2] = [what |-> "flags", fin |-> g[f].fin, op |-> g[f].op]
             /\ s[b + 3 + 3 * f - 1] = [what |-> "length", n |-> 1]
             /\ s[b + 3 + 3 * f] = Data(g[f])
  <2> DEFINE e == f + 1
  <2>e. e \in 1 .. n /\ f \in Nat /\ f \in 1 .. n - 1
    BY <1>1
  <2>2. g[f] = fr[e]
    BY <1>1, <2>e
  <2>f. 3 * e = 3 + 3 * f /\ 3 * f \in Nat
    BY <2>e
  <2>1. /\ e \in 1 .. n /\ b + 3 * e - 2 = b + 3 + 3 * f - 2
        /\ b + 3 * e - 1 = b + 3 + 3 * f - 1 /\ b + 3 * e = b + 3 + 3 * f
    BY <2>e, <2>f
  <2> HIDE DEF e
  <2> QED
    BY <1>2, <2>1, <2>2
<1> QED
  BY <1>1, <1>3, <1>4 DEF Frames, g, n

\* What is to be said at a frame is the same when an earlier one is gone.
LEMMA PositionTail ==
  ASSUME NEW fr \in Seq(Frame), Len(fr) # 0, NEW f \in Nat, f # 0
  PROVE  Position(Tail(fr), f) = Position(fr, f + 1)
<1>1. /\ Len(fr) \in Nat /\ Tail(fr) \in Seq(Frame) /\ Len(Tail(fr)) = Len(fr) - 1
      /\ \A i \in 1 .. Len(fr) - 1 : Tail(fr)[i] = fr[i + 1]
  OBVIOUS
<1>2. f \in DOMAIN Tail(fr) <=> f + 1 \in DOMAIN fr
  BY <1>1
<1>3. f \in DOMAIN Tail(fr) => Tail(fr)[f] = fr[f + 1]
  BY <1>1
<1> QED
  BY <1>2, <1>3 DEF Position

\* What is no reply does not come between the replies.
LEMMA OthersOrdered ==
  ASSUME NEW o \in Seq(Sent), NEW y \in Seq(Sent), NEW asked, Ordered(o, asked), NoReply(y)
  PROVE  Ordered(o \o y, asked)
<1> DEFINE a == Len(o)
           b == Len(y)
           s == o \o y
<1>1. /\ a \in Nat /\ b \in Nat /\ s \in Seq(Sent) /\ Len(s) = a + b
      /\ \A i \in 1 .. a : s[i] = o[i]
      /\ \A i \in a + 1 .. a + b : s[i] = y[i - a]
  BY SentCells
<1>2. DOMAIN s = 1 .. a + b /\ DOMAIN o = 1 .. a
  BY <1>1
<1>3. \A j \in 1 .. b : ~IsReply(y[j])
  BY DEF NoReply
<1> HIDE DEF s, a, b
<1> SUFFICES ASSUME NEW i \in 1 .. a + b, IsReply(s[i])
             PROVE  /\ s[i].re \in DOMAIN asked
                    /\ s[i].end <=> s[i].part = IF asked[s[i].re] = "file" THEN FileSize ELSE 0
                    /\ IF i = 1 THEN s[i].re = 1 /\ s[i].part = 0
                       ELSE IsReply(s[i - 1]) /\ Continues(s[i - 1], s[i])
  BY <1>2 DEF Ordered, s
<1>4. i \in 1 .. a
  <2> SUFFICES ASSUME i > a PROVE FALSE
    BY <1>1
  <2>1. i \in a + 1 .. a + b /\ i - a \in 1 .. b
    BY <1>1
  <2>2. s[i] = y[i - a]
    BY <1>1, <2>1
  <2> QED
    BY <1>3, <2>1, <2>2
<1>5. s[i] = o[i] /\ (i # 1 => s[i - 1] = o[i - 1])
  <2>1. i # 1 => i - 1 \in 1 .. a
    BY <1>1, <1>4
  <2> QED
    BY <1>1, <1>4, <2>1
<1> QED
  BY <1>2, <1>4, <1>5 DEF Ordered

\* What was beyond the frame is beyond the new offset.
LEMMA MovedStream ==
  ASSUME IInv, IInv', NEW x, Moved(x), wire' = wire
  PROVE  /\ Len(Stream') = Len(Stream) - x /\ Len(Stream) \in Nat
         /\ \A i \in 1 .. Len(Stream') : i > c'.ofs => Stream'[i] = Stream[i + x]
<1> DEFINE s == c.recv
           t == c'.recv
           p == c'.ofs
           o == c.ofs
<1>1. /\ s \in Seq(Cell) /\ t \in Seq(Cell) /\ wire \in Seq(Cell) /\ p \in Nat /\ o \in Nat
      /\ x \in Nat /\ Len(t) = Len(s) - x /\ p <= Len(t) /\ p + x >= o
      /\ \A i \in 1 .. Len(t) : i > p => t[i] = s[i + x]
  <2>1. s \in Seq(Cell) /\ t \in Seq(Cell) /\ wire \in Seq(Cell) /\ o \in Nat /\ p <= Len(t)
    BY DEF IInv, Typed, Conn
  <2>2. /\ p \in Nat /\ x \in Nat /\ Len(t) = Len(s) - x /\ p + x = o + 3
        /\ \A i \in 1 .. Len(t) : i > p => t[i] = s[i + x]
    BY DEF Moved
  <2> HIDE DEF s, t, p, o
  <2> QED
    BY <2>1, <2>2
<1>2. Stream = s \o wire /\ Stream' = t \o wire
  BY DEF Stream
<1> HIDE DEF s, t, p, o
<1>3. /\ Len(t \o wire) = Len(s \o wire) - x
      /\ \A i \in DOMAIN (t \o wire) :
           i > p => i + x \in DOMAIN (s \o wire) /\ i + x > o /\ (t \o wire)[i] = (s \o wire)[i + x]
      /\ Framed(s \o wire, o) => Framed(t \o wire, p)
  BY <1>1, StreamShift
<1>4. /\ Len(s \o wire) \in Nat /\ DOMAIN (t \o wire) = 1 .. Len(t \o wire)
  BY <1>1, StreamCells
<1> QED
  BY <1>2, <1>3, <1>4 DEF p

\* mg_ws_cb processes a frame, whole message, fragment or control frame.
LEMMA FrameKeeps == IInv /\ IInv' /\ JInv /\ WsFrame => JInv'
<1> SUFFICES ASSUME IInv, IInv', JInv, WsFrame PROVE JInv'
  OBVIOUS
<1>1. /\ loop = "ws" /\ FrameAt(c.recv, c.ofs) /\ ProcessFrame
      /\ UNCHANGED <<at, loop, parsed, session, wire, client>>
      /\ Typed /\ Typed' /\ c \in Conn /\ client \in Client
      /\ Requesting /\ Framing /\ Speaking /\ Closed /\ Polite
  BY DEF WsFrame, IInv, Typed, JInv
<1>2. /\ ~c.is_closing /\ at # "gone" /\ parsed = 0 /\ c.pfn = "ws" /\ c.ofs # 1
      /\ Owed = 0 /\ Done \in Nat /\ client.frames > 0
  BY <1>1, FrameFound
<1>r. Replying
  BY <1>2 DEF JInv, Adrift
<1>3. PICK fr : Taken(fr)
  BY <1>1, FrameFound
<1>4. (\E n : Moved(n)) /\ HeardNext /\ Caught(fr[1])
  BY <1>1, <1>3, FrameOutcome DEF Outcome
<1>5. PICK x : Moved(x)
  BY <1>4
<1>6. /\ c'.pfn = c.pfn /\ c'.is_resp = c.is_resp
      /\ c'.is_closing = c.is_closing /\ c'.failed = c.failed /\ c'.re = c.re
      /\ Beyond(c.send, c'.send)
  BY <1>1, <1>3, FrameEffect DEF Taken
<1>7. \A id : Whole(id)' <=> Whole(id)
  BY <1>1 DEF Whole
<1>d. Done' = Done /\ Owed' = 0 /\ ~Unframed'
  BY <1>1, <1>2, <1>6 DEF Done, Owed, Unframed
<1>8. Replying'
  <2>1. PICK y \in Seq(Sent) : c'.send = c.send \o y /\ NoReply(y)
    BY <1>6 DEF Beyond
  <2>2. client.got \in Seq(Sent) /\ c.send \in Seq(Sent) /\ Output \in Seq(Sent)
    BY <1>1, OutputType
  <2>3. Output' = Output \o y
    <3>1. (client.got \o c.send) \o y = client.got \o (c.send \o y)
      BY <2>1, <2>2, SentAssociative
    <3> QED
      BY <1>1, <2>1, <3>1 DEF Output
  <2>4. Ordered(Output, client.asked)
    BY <1>r DEF Replying
  <2> HIDE DEF Output
  <2>5. Ordered(Output \o y, client.asked)
    BY <2>1, <2>2, <2>4, OthersOrdered
  <2>6. Ordered(Output', client'.asked)
    BY <1>1, <2>3, <2>5
  <2>7. Ordered(Output', client'.asked) => Ordered(Output, client.asked)'
    BY DEF Ordered
  <2>8. c.is_resp <=> c.pfn = "static"
    BY <1>r DEF Replying
  <2> QED
    BY <1>1, <1>2, <1>6, <1>d, <2>6, <2>7, <2>8 DEF Replying
<1>10. /\ fr \in Seq(Frame) /\ Len(fr) # 0 /\ fr[1] \in Frame
       /\ Frames(Stream, c.ofs, fr) /\ InStep(fr) /\ Kept + Len(fr) <= client.frames
  BY <1>3 DEF Taken
<1> DEFINE g == Tail(fr)
           o == c.ofs
           p == c'.ofs
<1>11. /\ o \in Nat /\ p \in Nat /\ x \in Nat /\ p + x = o + 3
       /\ client.frames \in Nat
  BY <1>1, <1>5 DEF Conn, Client, Moved
<1>12. /\ g \in Seq(Frame) /\ Len(g) = Len(fr) - 1
       /\ \A f \in 1 .. Len(fr) - 1 : g[f] = fr[f + 1]
       /\ Frames(Stream, o + 3, g)
  <2> HIDE DEF o
  <2> QED
    BY <1>10, <1>11, FramesTail DEF o
<1>13. Frames(Stream', p, g)
  <2> DEFINE s == Stream
             t == Stream'
             b == o + 3
  <2>m. Len(t) = Len(s) - x /\ \A i \in 1 .. Len(t) : i > p => t[i] = s[i + x]
    <3>1. IInv /\ IInv' /\ wire' = wire
      BY <1>1
    <3> QED
      BY <1>5, <3>1, MovedStream
  <2>b. b \in Nat /\ b = p + x
    <3> HIDE DEF o, p
    <3> QED
      BY <1>11
  <2> HIDE DEF s, t, b, g, p
  <2>1. /\ Len(t) = Len(s) - x /\ b \in Nat /\ b = p + x /\ Frames(s, b, g)
        /\ \A i \in 1 .. Len(t) : i > p => t[i] = s[i + x]
    BY <1>12, <2>m, <2>b DEF s, b
  <2>2. Frames(t, p, g)
    BY <1>11, <1>12, <2>1, FramesDrop
  <2> QED
    BY <2>2 DEF t
<1>9. Requesting'
  <2>1. Asks("upgrade")' <=> Asks("upgrade")
    BY <1>1 DEF Asks
  <2>2. Upgrading => Upgrading'
    BY <1>1, <1>2, <1>6, <1>d, <2>1 DEF Upgrading
  <2>3. Len(client.asked) \in Nat /\ Len(client.asked) = Done
    <3>1. Len(client.asked) \in Nat
      BY <1>1 DEF Client
    <3> QED
      BY <1>2, <3>1 DEF Owed
  <2>4. p <= Len(Stream')
    <3>1. Len(Stream') = p + 3 * Len(g) /\ Len(g) \in Nat
      BY <1>12, <1>13 DEF Frames
    <3> HIDE DEF g, p
    <3>2. p \in Nat
      BY <1>11
    <3> QED
      BY <3>1, <3>2
  <2>5. Requests(Stream', p, client.asked, Done)
    <3> DEFINE a == Len(client.asked)
    <3>1. a \in Nat /\ a = Done
      BY <2>3
    <3> HIDE DEF a, p
    <3>2. p + 2 * (a - Done) = p /\ 1 .. a - Done = {}
      BY <1>11, <3>1
    <3> QED
      BY <2>4, <3>2 DEF Requests, a
  <2>6. parsed' + c'.ofs = p
    BY <1>1, <1>2, <1>11
  <2>7. Done' <= Len(client'.asked)
    BY <1>1, <1>d, <2>3
  <2> QED
    BY <1>1, <1>d, <2>1, <2>2, <2>5, <2>6, <2>7 DEF Requesting
<1>14. \A f : Position(g, f)' = Position(g, f)
  BY <1>1 DEF Position
<1>15. Len(fr) \in Nat /\ \A f \in Nat : f # 0 => Position(g, f) = Position(fr, f + 1)
  BY <1>10, PositionTail
<1>m. Len(g) \in Nat /\ \A f \in 1 .. Len(g) : f \in 1 .. Len(fr) - 1 /\ f + 1 \in 1 .. Len(fr)
  <2> DEFINE n == Len(fr)
             m == Len(g)
  <2>1. n \in Nat /\ n # 0 /\ m = n - 1
    BY <1>10, <1>12, <1>15
  <2> HIDE DEF g, n, m
  <2>2. m \in Nat /\ \A f \in 1 .. m : f \in 1 .. n - 1 /\ f + 1 \in 1 .. n
    BY <2>1
  <2> QED
    BY <2>2 DEF n, m
<1> HIDE DEF g
<1>16. After(fr[1]) = <<Len(heard') + 1, Kept' + 1>> /\ Kept' <= Kept + 1
  BY <1>4 DEF Caught
<1>17. InStep(g)'
  <2>1. Position(g, 1)' = <<Len(heard') + 1, Kept' + 1>>
    <3>1. 1 \in 1 .. Len(fr)
      BY <1>10, <1>15
    <3>2. Position(fr, 1 + 1) = After(fr[1])
      BY <1>10, <3>1 DEF InStep
    <3>3. Position(g, 1) = Position(fr, 1 + 1)
      BY <1>15
    <3> QED
      BY <1>14, <1>16, <3>2, <3>3
  <2>2. ASSUME NEW f \in 1 .. Len(g)
        PROVE  /\ Position(g, f + 1)' = After(g[f])
               /\ g[f].op = "text" <=> Speaks(g[f]) /\ g[f].k = 1
               /\ ~Speaks(g[f]) => g[f].fin
               /\ Speaks(g[f]) /\ g[f].fin =>
                    g[f].msg <= Len(client.said) /\ g[f].k = Len(client.said[g[f].msg])
    <3> DEFINE e == f + 1
    <3>1. e \in 1 .. Len(fr) /\ e \in Nat /\ e # 0 /\ g[f] = fr[e]
      <4>1. f \in 1 .. Len(fr) - 1 /\ e \in 1 .. Len(fr)
        BY <1>m
      <4> QED
        BY <1>12, <4>1
    <3> HIDE DEF e
    <3>2. Position(g, e) = Position(fr, e + 1)
      BY <1>15, <3>1
    <3>3. /\ Position(fr, e + 1) = After(fr[e])
          /\ fr[e].op = "text" <=> Speaks(fr[e]) /\ fr[e].k = 1
          /\ ~Speaks(fr[e]) => fr[e].fin
          /\ Speaks(fr[e]) /\ fr[e].fin =>
               fr[e].msg <= Len(client.said) /\ fr[e].k = Len(client.said[fr[e].msg])
      BY <1>10, <3>1 DEF InStep
    <3>4. Position(g, e)' = Position(g, e)
      BY <1>14
    <3>5. Position(g, f + 1)' = Position(g, e)'
      BY DEF e
    <3> QED
      BY <3>1, <3>2, <3>3, <3>4, <3>5
  <2> QED
    BY <1>1, <2>1, <2>2 DEF InStep
<1>18. Kept' + Len(g) <= client'.frames
  <2>1. Kept \in Nat /\ Kept' \in Nat
    BY <1>11 DEF Kept
  <2> DEFINE a == Kept
             b == Kept'
             m == Len(fr)
             n == Len(g)
  <2>2. a \in Nat /\ b \in Nat /\ m \in Nat /\ n = m - 1 /\ b <= a + 1 /\ a + m <= client.frames
    BY <1>10, <1>12, <1>15, <1>16, <2>1
  <2> HIDE DEF a, b, m, n
  <2>3. b + n <= client.frames
    BY <1>11, <2>2
  <2> QED
    BY <1>1, <2>3 DEF b, n
<1>19. Framing'
  <2>1. FramesFrom' = p
    BY <1>1, <1>2, <1>d, <1>11 DEF FramesFrom
  <2>2. /\ c'.ofs # 1
        /\ \A j \in 2 .. c'.ofs : c'.recv[j] = Unmask(Payload(Len(heard') + 1, j - 1))
    BY <1>4 DEF Caught, Fragments
  <2> QED
    BY <1>12, <1>13, <1>17, <1>18, <2>1, <2>2 DEF Framing
<1>20. Speaking'
  <2>1. heard' \in Seq(Seq(Cell)) /\ Len(heard') <= Len(client.said)
    BY <1>4 DEF Caught
  <2> QED
    BY <1>1, <2>1 DEF Speaking, Spoken
<1>21. Closed'
  BY <1>1, <1>2, <1>6 DEF Closed
<1>22. Polite'
  BY <1>1, <1>2, <1>6, <1>7 DEF Polite
<1> QED
  BY <1>8, <1>9, <1>19, <1>20, <1>21, <1>22 DEF JInv

(***************************************************************************)
(* What the client sends                                                   *)
(***************************************************************************)
\* The requests stay where they are when something comes after them.
LEMMA RequestsStay ==
  ASSUME NEW s, NEW t, NEW b \in Nat, NEW asked \in Seq(Request), NEW n \in Nat,
         Requests(s, b, asked, n), Len(s) \in Nat, Len(t) \in Nat, Len(t) >= Len(s),
         \A i \in 1 .. Len(s) : t[i] = s[i]
  PROVE  Requests(t, b, asked, n)
<1> DEFINE a == Len(asked)
           q == Len(s)
           r == Len(t)
<1>1. /\ a \in Nat /\ q \in Nat /\ r \in Nat /\ r >= q /\ b + 2 * (a - n) <= q
      /\ \A m \in 1 .. a - n :
           s[b + 2 * m - 1] = RequestCell(asked, n + m, 1) /\ s[b + 2 * m] = RequestCell(asked, n + m, 2)
  BY DEF Requests
<1> HIDE DEF a, q, r
<1>2. b + 2 * (a - n) <= r
  BY <1>1
<1>3. ASSUME NEW m \in 1 .. a - n
      PROVE  t[b + 2 * m - 1] = s[b + 2 * m - 1] /\ t[b + 2 * m] = s[b + 2 * m]
  <2>1. b + 2 * m - 1 \in 1 .. q /\ b + 2 * m \in 1 .. q
    BY <1>1
  <2> QED
    BY <2>1 DEF q
<1> QED
  BY <1>1, <1>2, <1>3 DEF Requests, a, r

\* One more request comes right after the others.
LEMMA RequestsGrow ==
  ASSUME NEW s, NEW t, NEW b \in Nat, NEW asked \in Seq(Request), NEW n \in Nat,
         NEW kind \in Request, n <= Len(asked),
         Requests(s, b, asked, n), Len(s) = b + 2 * (Len(asked) - n), Len(t) = Len(s) + 2,
         \A i \in 1 .. Len(s) : t[i] = s[i],
         t[Len(s) + 1] = [what |-> "request", kind |-> kind, id |-> Len(asked) + 1, part |-> 1],
         t[Len(s) + 2] = [what |-> "request", kind |-> kind, id |-> Len(asked) + 1, part |-> 2]
  PROVE  Requests(t, b, Append(asked, kind), n)
<1> DEFINE a == Len(asked)
           q == Len(s)
           r == Len(t)
           w == Append(asked, kind)
<1>1. /\ a \in Nat /\ q = b + 2 * (a - n) /\ r = q + 2 /\ n <= a
      /\ \A m \in 1 .. a - n :
           s[b + 2 * m - 1] = RequestCell(asked, n + m, 1) /\ s[b + 2 * m] = RequestCell(asked, n + m, 2)
  BY DEF Requests
<1>2. Len(w) = a + 1 /\ w[a + 1] = kind /\ \A i \in 1 .. a : w[i] = asked[i]
  OBVIOUS
<1>3. /\ \A i \in 1 .. q : t[i] = s[i]
      /\ t[q + 1] = [what |-> "request", kind |-> kind, id |-> a + 1, part |-> 1]
      /\ t[q + 2] = [what |-> "request", kind |-> kind, id |-> a + 1, part |-> 2]
  OBVIOUS
<1> HIDE DEF a, q, r, w
<1>4. b + 2 * ((a + 1) - n) <= r
  BY <1>1
<1>5. ASSUME NEW m \in 1 .. (a + 1) - n
      PROVE  t[b + 2 * m - 1] = RequestCell(w, n + m, 1) /\ t[b + 2 * m] = RequestCell(w, n + m, 2)
  <2>1. CASE m \in 1 .. a - n
    <3>1. b + 2 * m - 1 \in 1 .. q /\ b + 2 * m \in 1 .. q /\ n + m \in 1 .. a
      <4>1. a \in Nat /\ q = b + 2 * (a - n) /\ n <= a
        BY <1>1
      <4>2. m \in Nat /\ m >= 1 /\ m <= a - n
        BY <2>1, <4>1
      <4> DEFINE e == 2 * m
                 k == 2 * (a - n)
      <4>3. e \in Nat /\ k \in Nat /\ e >= 2 /\ e <= k /\ q = b + k
        BY <4>1, <4>2
      <4>4. n + m \in 1 .. a
        BY <4>1, <4>2
      <4> HIDE DEF e, k
      <4>5. b + e - 1 \in 1 .. q /\ b + e \in 1 .. q
        BY <4>3
      <4> QED
        BY <4>4, <4>5 DEF e
    <3>2. RequestCell(w, n + m, 1) = RequestCell(asked, n + m, 1)
          /\ RequestCell(w, n + m, 2) = RequestCell(asked, n + m, 2)
      BY <1>2, <3>1 DEF RequestCell
    <3> QED
      BY <1>1, <1>3, <2>1, <3>1, <3>2
  <2>2. CASE m = (a + 1) - n
    <3>1. b + 2 * m - 1 = q + 1 /\ b + 2 * m = q + 2 /\ n + m = a + 1
      BY <1>1, <2>2
    <3>2. /\ RequestCell(w, a + 1, 1) = [what |-> "request", kind |-> kind, id |-> a + 1, part |-> 1]
          /\ RequestCell(w, a + 1, 2) = [what |-> "request", kind |-> kind, id |-> a + 1, part |-> 2]
      BY <1>2 DEF RequestCell
    <3> QED
      BY <1>3, <3>1, <3>2
  <2> QED
    BY <1>1, <2>1, <2>2
<1> QED
  BY <1>2, <1>4, <1>5 DEF Requests, r, w

\* The client sends a request, behind those that have no reply yet.
LEMMA AskKeeps ==
  ASSUME NEW kind \in Request
  PROVE  IInv /\ IInv' /\ JInv /\ Ask(kind) => JInv'
<1> SUFFICES ASSUME IInv, IInv', JInv, Ask(kind) PROVE JInv'
  OBVIOUS
<1> DEFINE id    == Len(client.asked) + 1
           x     == RequestCells(kind, id)
           asked == Append(client.asked, kind)
<1>1. /\ client.frames = 0 /\ wire' = wire \o x
      /\ \A i \in DOMAIN client.asked : client.asked[i] = "upgrade" => ~Whole(i)
      /\ client' = [client EXCEPT !.asked = asked, !.early = Early]
      /\ UNCHANGED <<c, at, loop, parsed, session, heard>>
      /\ Typed /\ Typed' /\ Placed /\ client \in Client
      /\ Requesting /\ Framing /\ Speaking /\ Closed /\ Polite
  BY DEF Ask, IInv, Typed, Client, JInv
<1>2. client.asked \in Seq(Request) /\ id \in Nat /\ Len(client.asked) \in Nat
  BY <1>1 DEF Client
<1>3. /\ asked \in Seq(Request) /\ Len(asked) = id /\ asked[id] = kind
      /\ \A i \in 1 .. Len(client.asked) : asked[i] = client.asked[i]
  BY <1>2
<1>4. /\ x \in Seq(Cell) /\ Len(x) = 2
      /\ x[1] = [what |-> "request", kind |-> kind, id |-> id, part |-> 1]
      /\ x[2] = [what |-> "request", kind |-> kind, id |-> id, part |-> 2]
  <2> DEFINE cell(part) == [what |-> "request", kind |-> kind, id |-> id, part |-> part]
  <2>1. \A part \in 1 .. 2 : cell(part) \in Cell
    BY <1>2 DEF Cell
  <2>2. x = [part \in 1 .. 2 |-> cell(part)]
    BY DEF RequestCells
  <2> HIDE DEF cell
  <2>3. [part \in 1 .. 2 |-> cell(part)] \in Seq(Cell) /\ Len([part \in 1 .. 2 |-> cell(part)]) = 2
    BY <2>1
  <2>4. x[1] = cell(1) /\ x[2] = cell(2)
    BY <2>2
  <2> QED
    BY <2>2, <2>3, <2>4 DEF cell
<1> HIDE DEF x, asked
<1>5. /\ client'.asked = asked /\ client'.got = client.got /\ client'.early = Early
      /\ client'.frames = client.frames /\ client'.said = client.said /\ client'.saying = client.saying
      /\ client' \in Client
  BY <1>1, <1>2 DEF Client, IInv, Typed
<1>6. /\ Len(Stream') = Len(Stream) + 2 /\ Len(Stream) \in Nat
      /\ \A i \in 1 .. Len(Stream) : Stream'[i] = Stream[i]
      /\ Stream'[Len(Stream) + 1] = x[1] /\ Stream'[Len(Stream) + 2] = x[2]
  <2> DEFINE L == Len(Stream)
             t == Stream'
  <2>1. /\ Stream \in Seq(Cell) /\ Len(t) = L + Len(x)
        /\ \A i \in 1 .. L : t[i] = Stream[i]
        /\ \A i \in L + 1 .. L + Len(x) : t[i] = x[i - L]
    BY <1>1, <1>4, <1>5, StreamGrows
  <2>2. L \in Nat
    BY <2>1
  <2> HIDE DEF L, t
  <2>3. /\ L + 1 \in L + 1 .. L + Len(x) /\ L + 2 \in L + 1 .. L + Len(x)
        /\ (L + 1) - L = 1 /\ (L + 2) - L = 2
    BY <1>4, <2>2
  <2>4. t[L + 1] = x[1] /\ t[L + 2] = x[2]
    BY <2>1, <2>3
  <2> QED
    BY <1>4, <2>1, <2>2, <2>4 DEF L, t
<1>7. ~Over => c.ofs = 0
  <2> SUFFICES ASSUME ~Over PROVE c.ofs = 0
    OBVIOUS
  <2>1. PICK fr \in Seq(Frame) : Kept + Len(fr) <= client.frames
    BY <1>1 DEF Framing
  <2>2. c.ofs \in Nat /\ c.ofs # 1
    BY <1>1 DEF Framing, Typed, Conn
  <2> QED
    BY <1>1, <2>1, <2>2 DEF Kept
<1>8. Output' = Output /\ (\A i : Whole(i)' <=> Whole(i)) /\ (Over => Over') /\ Done' = Done
  <2>1. client.early => client'.early
    BY <1>5 DEF Early
  <2>2. Output' = Output /\ Done' = Done /\ \A i : Whole(i)' <=> Whole(i)
    BY <1>1, <1>5 DEF Output, Whole, Done
  <2>3. Over => Over'
    BY <1>1, <2>1 DEF Over
  <2> QED
    BY <2>2, <2>3
<1>u. ~client'.early =>
        /\ ~client.early /\ c.pfn # "ws" /\ ~Asks("upgrade") /\ Upgrading /\ ~Over
        /\ \A i \in DOMAIN client.asked : Whole(i)
  <2>1. ~client'.early => ~client.early /\ \A i \in DOMAIN client.asked : Whole(i)
    BY <1>5 DEF Early
  <2>2. ~client'.early => ~Asks("upgrade") /\ Upgrading
    BY <1>1, <2>1 DEF Asks, Requesting
  <2> QED
    BY <2>1, <2>2 DEF Upgrading, Over
<1>a. Adrift => Adrift'
  BY <1>1, <1>5 DEF Adrift, Early
<1>9. ASSUME Replying PROVE Replying'
  <2>1. \A i \in DOMAIN client.asked : i \in DOMAIN client'.asked /\ client'.asked[i] = client.asked[i]
    <3>1. DOMAIN client.asked = 1 .. Len(client.asked) /\ DOMAIN asked = 1 .. id
      BY <1>2, <1>3
    <3>2. \A i \in 1 .. Len(client.asked) : i \in 1 .. id
      BY <1>2
    <3> HIDE DEF id
    <3> QED
      BY <1>3, <1>5, <3>1, <3>2
  <2>2. c.pfn = "static" /\ c.left = 0 => c'.send # <<>>
    BY <1>1, <1>9 DEF Replying
  <2>3. Unframed
    BY <1>1 DEF Unframed
  <2> QED
    BY <1>1, <1>u, <1>8, <1>9, <2>1, <2>2, <2>3, SameReplies
<1>10. Done \in Nat
  BY <1>1, DoneType
<1>11. ~Over => Len(Stream) = parsed + 2 * (Len(client.asked) - Done)
  <2>1. ~Over => Len(Stream) = FramesFrom
    BY <1>1, NoFrames
  <2>2. parsed \in Nat
    BY <1>1 DEF Typed
  <2> QED
    BY <1>2, <1>7, <1>10, <2>1, <2>2 DEF FramesFrom, Owed
<1>12. Requesting'
  <2>1. ASSUME ~client'.early PROVE \A i \in DOMAIN asked : asked[i] = "upgrade" => i = Len(asked)
    <3> SUFFICES ASSUME NEW i \in 1 .. id, asked[i] = "upgrade", i # id PROVE FALSE
      BY <1>2, <1>3
    <3>1. i \in 1 .. Len(client.asked) /\ i \in DOMAIN client.asked
      BY <1>2
    <3> HIDE DEF id
    <3>2. client.asked[i] = "upgrade"
      BY <1>3, <3>1
    <3> QED
      BY <1>u, <2>1, <3>1, <3>2 DEF Asks
  <2>2. ASSUME ~Over
        PROVE  Done < Len(asked) /\ Requests(Stream', parsed, asked, Done)
    <3>0. parsed \in Nat /\ parsed + c.ofs = parsed
      BY <1>1, <1>7, <2>2 DEF Typed
    <3>1. /\ Done <= Len(client.asked) /\ Requests(Stream, parsed, client.asked, Done)
          /\ Len(Stream) = parsed + 2 * (Len(client.asked) - Done) /\ parsed \in Nat
      BY <1>1, <1>11, <2>2, <3>0 DEF Requesting
    <3>2. Done < Len(asked)
      BY <1>2, <1>3, <1>10, <3>1
    <3> DEFINE s == Stream
               t == Stream'
               n == Len(client.asked)
    <3>r. /\ Requests(s, parsed, client.asked, Done) /\ parsed \in Nat
          /\ Len(s) = parsed + 2 * (Len(client.asked) - Done) /\ Done <= Len(client.asked)
      BY <3>1
    <3>t. /\ Len(t) = Len(s) + 2 /\ \A i \in 1 .. Len(s) : t[i] = s[i]
          /\ t[Len(s) + 1] = [what |-> "request", kind |-> kind, id |-> n + 1, part |-> 1]
          /\ t[Len(s) + 2] = [what |-> "request", kind |-> kind, id |-> n + 1, part |-> 2]
      BY <1>4, <1>6
    <3> HIDE DEF s, t
    <3>3. Requests(t, parsed, Append(client.asked, kind), Done)
      BY <1>2, <1>10, <3>r, <3>t, RequestsGrow
    <3> QED
      BY <3>2, <3>3 DEF t, asked
  <2>3. ~(client'.frames > 0)
    BY <1>1, <1>5
  <2>4. ASSUME ~client'.early PROVE Upgrading'
    <3>1. c'.pfn # "ws" /\ ~Over
      BY <1>1, <1>u, <2>4
    <3>2. Owed' > 0
      BY <1>2, <1>3, <1>5, <1>8, <1>10, <2>2, <3>1 DEF Owed
    <3> QED
      BY <1>5, <2>1, <2>4, <3>1, <3>2 DEF Upgrading
  <2>5. ASSUME ~Over'
        PROVE  /\ Done' <= Len(client'.asked) /\ c'.ofs = 0
               /\ Requests(Stream, parsed + c.ofs, client.asked, Done)'
    <3>1. ~Over /\ c'.ofs = 0 /\ parsed \in Nat
      BY <1>1, <1>7, <1>8, <2>5 DEF Typed
    <3>2. parsed' + c'.ofs = parsed
      BY <1>1, <3>1
    <3>3. Done < Len(asked) /\ Requests(Stream', parsed, asked, Done) /\ Len(asked) \in Nat
      BY <1>2, <1>3, <2>2, <3>1
    <3> QED
      BY <1>5, <1>8, <1>10, <3>1, <3>2, <3>3
  <2> QED
    BY <2>3, <2>4, <2>5 DEF Requesting
<1>13. Framing'
  <2> SUFFICES ASSUME ~Over' PROVE Framing'
    BY DEF Framing
  <2>1. PICK fr \in Seq(Frame) :
          Frames(Stream, FramesFrom, fr) /\ InStep(fr) /\ Kept + Len(fr) <= client.frames
    BY <1>1, <1>8 DEF Framing
  <2>2. ~Over
    BY <1>8
  <2> DEFINE n == Len(fr)
             k == Kept
  <2>3. n \in Nat /\ k \in Nat
    BY <1>1 DEF Kept, Typed, Conn
  <2> HIDE DEF n, k
  <2>4. k + n <= 0
    BY <1>1, <2>1 DEF n, k
  <2>5. n = 0
    BY <2>3, <2>4
  <2>6. FramesFrom' = parsed + 2 * (Len(asked) - Done)
    <3>1. parsed' + c'.ofs = parsed /\ Owed' = Len(asked) - Done
      BY <1>1, <1>5, <1>7, <1>8, <2>2 DEF Owed, Typed
    <3> QED
      BY <3>1 DEF FramesFrom
  <2>7. FramesFrom' = Len(Stream')
    <3> DEFINE a == Len(client.asked)
               d == Done
               L == Len(Stream)
               p == parsed
    <3>1. a \in Nat /\ d \in Nat /\ L = p + 2 * (a - d) /\ p \in Nat
      BY <1>1, <1>2, <1>10, <1>11, <2>2 DEF Typed
    <3>2. Len(asked) = a + 1 /\ Len(Stream') = L + 2
      BY <1>3, <1>6
    <3> HIDE DEF a, d, L, p
    <3>3. p + 2 * ((a + 1) - d) = L + 2
      BY <3>1
    <3> QED
      BY <2>6, <3>2, <3>3 DEF d, p
  <2>8. Frames(Stream', FramesFrom', fr)
    <3> DEFINE t == Stream'
               q == FramesFrom'
    <3>1. Len(t) = q + 3 * Len(fr) /\ 1 .. Len(fr) = {}
      <4>1. Len(t) \in Nat /\ Len(t) = q /\ Len(fr) = 0
        BY <1>6, <2>5, <2>7 DEF n
      <4> HIDE DEF t, q
      <4> QED
        BY <4>1
    <3> HIDE DEF t, q
    <3>2. Frames(t, q, fr)
      BY <3>1 DEF Frames
    <3> QED
      BY <3>2 DEF t, q
  <2>9. Kept' = Kept /\ \A f : Position(fr, f)' = Position(fr, f)
    BY <1>1, <1>5 DEF Position, Kept
  <2>10. InStep(fr)'
    BY <1>1, <1>5, <2>1, <2>9 DEF InStep
  <2>11. c.ofs # 1 /\ \A j \in 2 .. c.ofs : c.recv[j] = Unmask(Payload(Len(heard) + 1, j - 1))
    BY <1>1, <2>2 DEF Framing
  <2> QED
    BY <1>1, <1>5, <2>1, <2>8, <2>9, <2>10, <2>11 DEF Framing
<1>14. Speaking'
  BY <1>1, <1>5, SameSpeech
<1>15. Closed'
  BY <1>1, <1>8 DEF Closed
<1>16. Polite'
  <2>1. ASSUME ~client'.early
        PROVE  ~client.early /\ \A i \in 1 .. Len(client.asked) : Whole(i)
    <3>1. ~Early
      BY <1>5, <2>1
    <3>2. 1 .. Len(client.asked) = DOMAIN client.asked
      BY <1>2
    <3> QED
      BY <3>1, <3>2 DEF Early
  <2>2. ASSUME ~client'.early, NEW i \in DOMAIN asked, i < Len(asked) \/ client'.frames > 0
        PROVE  Whole(i)'
    <3>1. i \in 1 .. Len(client.asked)
      BY <1>1, <1>2, <1>3, <1>5, <2>2
    <3> QED
      BY <1>8, <2>1, <2>2, <3>1
  <2>3. ASSUME ~client'.early
        PROVE  /\ c'.pfn = "http" /\ loop' = "none" => ~Complete(c'.recv, 0)
               /\ c'.pfn = "ws" /\ loop' = "none" /\ ~c'.is_closing => ~FrameAt(c'.recv, c'.ofs)
               /\ ~c'.failed
               /\ session'.created = IF c'.pfn = "ws" THEN 1 ELSE 0
               /\ ~session'.stale
               /\ at' = "gone" =>
                    /\ session'.deleted = session'.created
                    /\ loop' = "http" => c'.pfn = "http" /\ ~Complete(c'.recv, parsed')
    <3>1. ~client.early
      BY <2>1, <2>3
    <3> QED
      BY <1>1, <3>1 DEF Polite
  <2> QED
    BY <1>5, <2>2, <2>3 DEF Polite
<1> QED
  BY <1>a, <1>9, <1>12, <1>13, <1>14, <1>15, <1>16 DEF JInv

\* Where the cells of a frame that ends e cells after b are.
LEMMA InFrame ==
  ASSUME NEW b \in Nat, NEW e \in Nat, NEW m \in Nat, e >= 3, e <= m
  PROVE  b + e - 2 \in 1 .. b + m /\ b + e - 1 \in 1 .. b + m /\ b + e \in 1 .. b + m
OBVIOUS

\* One more frame comes right after the others.
LEMMA FramesGrow ==
  ASSUME NEW s, NEW t, NEW b \in Nat, NEW fr \in Seq(Frame), NEW y \in Frame,
         Frames(s, b, fr), Len(t) = Len(s) + 3, \A i \in 1 .. Len(s) : t[i] = s[i],
         t[Len(s) + 1] = [what |-> "flags", fin |-> y.fin, op |-> y.op],
         t[Len(s) + 2] = [what |-> "length", n |-> 1],
         t[Len(s) + 3] = Data(y)
  PROVE  Frames(t, b, Append(fr, y))
<1> DEFINE n == Len(fr)
           q == Len(s)
           r == Len(t)
           g == Append(fr, y)
<1>1. n \in Nat /\ q = b + 3 * n /\ r = q + 3
  BY DEF Frames
<1>2. /\ \A f \in 1 .. n :
           /\ s[b + 3 * f - 2] = [what |-> "flags", fin |-> fr[f].fin, op |-> fr[f].op]
           /\ s[b + 3 * f - 1] = [what |-> "length", n |-> 1]
           /\ s[b + 3 * f] = Data(fr[f])
      /\ \A i \in 1 .. q : t[i] = s[i]
      /\ t[q + 1] = [what |-> "flags", fin |-> y.fin, op |-> y.op]
      /\ t[q + 2] = [what |-> "length", n |-> 1]
      /\ t[q + 3] = Data(y)
  BY DEF Frames
<1>3. Len(g) = n + 1 /\ g[n + 1] = y /\ \A f \in 1 .. n : g[f] = fr[f]
  OBVIOUS
<1> HIDE DEF n, q, r, g
<1>4. r = b + 3 * (n + 1)
  BY <1>1
<1>5. ASSUME NEW f \in 1 .. n + 1
      PROVE  /\ t[b + 3 * f - 2] = [what |-> "flags", fin |-> g[f].fin, op |-> g[f].op]
             /\ t[b + 3 * f - 1] = [what |-> "length", n |-> 1]
             /\ t[b + 3 * f] = Data(g[f])
  <2>1. CASE f \in 1 .. n
    <3> DEFINE e == 3 * f
               m == 3 * n
    <3>e. e \in Nat /\ e >= 3 /\ e <= m /\ m \in Nat /\ q = b + m
      BY <1>1, <2>1
    <3> HIDE DEF e, m
    <3>f. b + e - 2 \in 1 .. q /\ b + e - 1 \in 1 .. q /\ b + e \in 1 .. q
      BY <3>e, InFrame
    <3>1. b + 3 * f - 2 \in 1 .. q /\ b + 3 * f - 1 \in 1 .. q /\ b + 3 * f \in 1 .. q
      BY <3>f DEF e
    <3> QED
      BY <1>2, <1>3, <2>1, <3>1
  <2>2. CASE f = n + 1
    <3>1. b + 3 * f - 2 = q + 1 /\ b + 3 * f - 1 = q + 2 /\ b + 3 * f = q + 3
      BY <1>1, <2>2
    <3> QED
      BY <1>2, <1>3, <2>2, <3>1
  <2> QED
    BY <1>1, <2>1, <2>2
<1> QED
  BY <1>3, <1>4, <1>5 DEF Frames, g, r

\* The client sends the frame y, and says what is to be said next.
Uttered(y) ==
  /\ y \in Frame /\ SendFrame(y.fin, y.op, <<Data(y)>>)
  /\ y.msg = Len(client.said) + 1 /\ y.k = Len(client.saying) + 1
  /\ After(y) = <<Len(client'.said) + 1, Len(client'.saying) + 1>>
  /\ y.op = "text" <=> Speaks(y) /\ y.k = 1
  /\ ~Speaks(y) => y.fin
  /\ Speaks(y) /\ y.fin => y.msg <= Len(client'.said) /\ y.k = Len(client'.said[y.msg])
  /\ Len(client.said) <= Len(client'.said)
  /\ \A m \in 1 .. Len(client.said) : client'.said[m] = client.said[m]

\* A frame that says what is to be said now keeps the frames in step.
LEMMA InStepGrows ==
  ASSUME IInv, IInv', NEW fr \in Seq(Frame), InStep(fr), NEW y, Uttered(y)
  PROVE  InStep(Append(fr, y))'
<1> DEFINE n == Len(fr)
           g == Append(fr, y)
           h == Len(client.said)
           i == Len(client'.said)
<1>1. /\ y \in Frame /\ c' = c /\ heard' = heard
      /\ y.msg = h + 1 /\ y.k = Len(client.saying) + 1
      /\ After(y) = <<i + 1, Len(client'.saying) + 1>>
      /\ y.op = "text" <=> Speaks(y) /\ y.k = 1
      /\ ~Speaks(y) => y.fin
      /\ Speaks(y) /\ y.fin => y.msg <= i /\ y.k = Len(client'.said[y.msg])
      /\ h <= i /\ \A m \in 1 .. h : client'.said[m] = client.said[m]
  BY DEF Uttered, SendFrame
<1>2. h \in Nat /\ i \in Nat
  <2>1. client \in Client /\ client' \in Client
    BY DEF IInv, Typed
  <2>2. client.said \in Seq(Seq(Cell)) /\ client'.said \in Seq(Seq(Cell))
    BY <2>1 DEF Client
  <2> QED
    BY <2>2
<1>3. /\ n \in Nat /\ g \in Seq(Frame) /\ Len(g) = n + 1 /\ DOMAIN g = 1 .. n + 1
      /\ DOMAIN fr = 1 .. n /\ g[n + 1] = y /\ \A f \in 1 .. n : g[f] = fr[f] /\ fr[f] \in Frame
  BY <1>1
<1>4. /\ Position(fr, 1) = <<Len(heard) + 1, Kept + 1>>
      /\ \A f \in 1 .. n :
           /\ Position(fr, f + 1) = After(fr[f])
           /\ fr[f].op = "text" <=> Speaks(fr[f]) /\ fr[f].k = 1
           /\ ~Speaks(fr[f]) => fr[f].fin
           /\ Speaks(fr[f]) /\ fr[f].fin =>
                fr[f].msg <= h /\ fr[f].k = Len(client.said[fr[f].msg])
  BY DEF InStep
<1>5. Kept' = Kept
  BY <1>1 DEF Kept
<1> HIDE DEF n, g
<1>6. \A f \in 1 .. n + 1 : Position(g, f)' = Position(fr, f)
  <2> SUFFICES ASSUME NEW f \in 1 .. n + 1 PROVE Position(g, f)' = Position(fr, f)
    OBVIOUS
  <2>1. Position(g, f)' = <<g[f].msg, g[f].k>>
    BY <1>3 DEF Position
  <2>2. CASE f \in 1 .. n
    BY <1>3, <2>1, <2>2 DEF Position
  <2>3. CASE f = n + 1
    <3>1. f \notin DOMAIN fr
      BY <1>3, <2>3
    <3> QED
      BY <1>1, <1>3, <2>1, <2>3, <3>1 DEF Position
  <2> QED
    BY <1>3, <2>2, <2>3
<1>7. Position(g, n + 2)' = After(y)
  <2>1. n + 2 \notin DOMAIN g
    BY <1>3
  <2> QED
    BY <1>1, <2>1 DEF Position
<1>8. Position(g, 1)' = <<Len(heard') + 1, Kept' + 1>>
  <2>1. 1 \in 1 .. n + 1
    BY <1>3
  <2> QED
    BY <1>1, <1>4, <1>5, <1>6, <2>1
<1>9. ASSUME NEW f \in 1 .. n + 1
      PROVE  /\ Position(g, f + 1)' = After(g[f])
             /\ g[f].op = "text" <=> Speaks(g[f]) /\ g[f].k = 1
             /\ ~Speaks(g[f]) => g[f].fin
             /\ Speaks(g[f]) /\ g[f].fin => g[f].msg <= i /\ g[f].k = Len(client'.said[g[f].msg])
  <2>1. CASE f \in 1 .. n
    <3>1. g[f] = fr[f] /\ fr[f] \in Frame /\ f + 1 \in 1 .. n + 1
      BY <1>3, <2>1
    <3>2. Position(g, f + 1)' = Position(fr, f + 1)
      <4> DEFINE e == f + 1
      <4>1. e \in 1 .. n + 1
        BY <3>1
      <4> HIDE DEF e
      <4>2. Position(g, e)' = Position(fr, e)
        BY <1>6, <4>1
      <4> QED
        BY <4>2 DEF e
    <3>3. Speaks(fr[f]) /\ fr[f].fin => fr[f].msg <= i /\ fr[f].k = Len(client'.said[fr[f].msg])
      <4> SUFFICES ASSUME Speaks(fr[f]), fr[f].fin
                   PROVE  fr[f].msg <= i /\ fr[f].k = Len(client'.said[fr[f].msg])
        OBVIOUS
      <4>1. fr[f].msg <= h /\ fr[f].k = Len(client.said[fr[f].msg]) /\ fr[f].msg \in Nat \ {0}
        BY <1>4, <2>1, <3>1 DEF Frame
      <4>2. fr[f].msg \in 1 .. h /\ fr[f].msg <= i
        BY <1>1, <1>2, <4>1
      <4>3. client'.said[fr[f].msg] = client.said[fr[f].msg]
        BY <1>1, <4>2
      <4> QED
        BY <4>1, <4>2, <4>3
    <3> QED
      BY <1>4, <2>1, <3>1, <3>2, <3>3
  <2>2. CASE f = n + 1
    <3>1. g[f] = y /\ f + 1 = n + 2
      BY <1>3, <2>2
    <3> QED
      BY <1>1, <1>7, <3>1
  <2> QED
    BY <1>3, <2>1, <2>2
<1> QED
  BY <1>1, <1>3, <1>8, <1>9 DEF InStep, g

\* A frame that the client sends.
LEMMA UtteredKeeps ==
  ASSUME IInv, IInv', JInv, Speaking', NEW y, Uttered(y),
         client'.asked = client.asked, client'.got = client.got,
         client'.frames = client.frames + 1, client'.early = Early
  PROVE  JInv'
<1> DEFINE f == [what |-> "flags", fin |-> y.fin, op |-> y.op]
           l == [what |-> "length", n |-> 1]
           x == FrameCells(y.fin, y.op, <<Data(y)>>)
<1>1. /\ Asks("upgrade") /\ wire' = wire \o x /\ y \in Frame
      /\ UNCHANGED <<c, at, loop, parsed, session, heard>>
      /\ Typed /\ Typed' /\ Placed /\ client \in Client /\ client' \in Client
      /\ Requesting /\ Framing /\ Speaking /\ Closed /\ Polite
  BY DEF Uttered, SendFrame, IInv, Typed, JInv
<1>2. client.asked \in Seq(Request) /\ Len(client.asked) \in Nat /\ client.frames \in Nat
  BY <1>1 DEF Client
<1>3. x \in Seq(Cell) /\ Len(x) = 3 /\ x[1] = f /\ x[2] = l /\ x[3] = Data(y)
  <2> DEFINE d == Data(y)
             u == <<f, l>>
             z == <<d>>
  <2>1. f \in Cell /\ l \in Cell /\ d \in Cell
    BY <1>1 DEF Cell, Payload, Data, Frame
  <2>2. x = u \o z
    BY DEF FrameCells
  <2> HIDE DEF f, l, d
  <2>3. u \in Seq(Cell) /\ z \in Seq(Cell) /\ Len(u) = 2 /\ Len(z) = 1 /\ u[1] = f /\ u[2] = l /\ z[1] = d
    BY <2>1
  <2> HIDE DEF x, u, z
  <2>4. /\ u \o z \in Seq(Cell) /\ Len(u \o z) = Len(u) + Len(z)
        /\ \A i \in 1 .. Len(u) : (u \o z)[i] = u[i]
        /\ \A i \in Len(u) + 1 .. Len(u) + Len(z) : (u \o z)[i] = z[i - Len(u)]
    BY <2>3, StreamCells
  <2>5. x[1] = u[1] /\ x[2] = u[2] /\ x[3] = z[1] /\ Len(x) = 3
    BY <2>2, <2>3, <2>4
  <2> QED
    BY <2>2, <2>3, <2>4, <2>5 DEF d
<1> HIDE DEF x
<1>4. /\ Len(Stream') = Len(Stream) + 3 /\ Len(Stream) \in Nat
      /\ \A i \in 1 .. Len(Stream) : Stream'[i] = Stream[i]
      /\ Stream'[Len(Stream) + 1] = f /\ Stream'[Len(Stream) + 2] = l
      /\ Stream'[Len(Stream) + 3] = Data(y)
  <2> DEFINE L == Len(Stream)
             t == Stream'
  <2>1. /\ Stream \in Seq(Cell) /\ Len(t) = L + Len(x)
        /\ \A i \in 1 .. L : t[i] = Stream[i]
        /\ \A i \in L + 1 .. L + Len(x) : t[i] = x[i - L]
    BY <1>1, <1>3, StreamGrows
  <2>2. L \in Nat
    BY <2>1
  <2> HIDE DEF L, t, f, l
  <2>3. /\ L + 1 \in L + 1 .. L + Len(x) /\ L + 2 \in L + 1 .. L + Len(x) /\ L + 3 \in L + 1 .. L + Len(x)
        /\ (L + 1) - L = 1 /\ (L + 2) - L = 2 /\ (L + 3) - L = 3
    BY <1>3, <2>2
  <2>4. t[L + 1] = x[1] /\ t[L + 2] = x[2] /\ t[L + 3] = x[3]
    BY <2>1, <2>3
  <2> QED
    BY <1>3, <2>1, <2>2, <2>4 DEF L, t
<1>5. /\ Output' = Output /\ (\A i : Whole(i)' <=> Whole(i)) /\ Asks("upgrade")'
      /\ Done' = Done /\ Owed' = Owed
  BY <1>1 DEF Output, Whole, Asks, Done, Owed
<1>e. client.early => client'.early
  BY DEF Early
<1>o. Over => Over'
  BY <1>1, <1>e DEF Over
<1>a. Adrift => Adrift'
  BY <1>1, <1>e DEF Adrift
<1>6. ASSUME Replying PROVE Replying'
  <2>1. c'.pfn = "static" /\ c'.left = 0 => c'.send # <<>>
    BY <1>1, <1>6 DEF Replying
  <2>2. ~client'.early /\ c.pfn = "ws" /\ loop = "http" => ~Whole(Len(client.asked))'
    <3>1. ~client.early /\ c.pfn = "ws" /\ loop = "http" => ~Whole(Len(client.asked))
      BY <1>1, <1>6 DEF Replying
    <3> QED
      BY <1>e, <3>1 DEF Whole
  <2>3. Unframed' => Unframed
    <3> DEFINE n == client.frames
    <3>1. client'.frames = n + 1 /\ n \in Nat
      BY <1>2
    <3> HIDE DEF n
    <3>2. client'.frames # 0
      BY <3>1
    <3>3. Unframed' => c'.pfn # "ws" \/ Owed' > 0
      BY <3>2 DEF Unframed
    <3> QED
      BY <1>1, <1>5, <3>3 DEF Unframed
  <2> QED
    BY <1>1, <1>5, <1>6, <2>1, <2>2, <2>3, SameReplies
<1>7. Requesting'
  <2>1. ASSUME ~Over
        PROVE  Requests(Stream', parsed + c.ofs, client.asked, Done)
    <3> DEFINE s == Stream
               t == Stream'
               b == parsed + c.ofs
    <3>1. Requests(s, b, client.asked, Done) /\ b \in Nat /\ Done \in Nat
      BY <1>1, <2>1, DoneType DEF Requesting, Typed, Conn
    <3>2. Len(s) \in Nat /\ Len(t) \in Nat /\ Len(t) >= Len(s) /\ \A i \in 1 .. Len(s) : t[i] = s[i]
      BY <1>4
    <3> HIDE DEF s, t, b
    <3>3. Requests(t, b, client.asked, Done)
      BY <1>2, <3>1, <3>2, RequestsStay
    <3> QED
      BY <3>3 DEF t, b
  <2>2. ~client'.early => Upgrading'
    <3>1. ~client'.early => Upgrading
      BY <1>1, <1>e DEF Requesting
    <3> QED
      BY <1>1, <1>5, <3>1 DEF Upgrading
  <2>3. ASSUME ~Over' PROVE Done' <= Len(client'.asked) /\ (Owed' > 0 => c'.ofs = 0)
    BY <1>1, <1>5, <1>o, <2>3 DEF Requesting
  <2> QED
    BY <1>1, <1>5, <1>o, <2>1, <2>2, <2>3 DEF Requesting
<1>8. Framing'
  <2> SUFFICES ASSUME ~Over' PROVE Framing'
    BY DEF Framing
  <2>1. PICK fr \in Seq(Frame) :
          Frames(Stream, FramesFrom, fr) /\ InStep(fr) /\ Kept + Len(fr) <= client.frames
    BY <1>1, <1>o DEF Framing
  <2> DEFINE g == Append(fr, y)
  <2>2. g \in Seq(Frame) /\ Len(g) = Len(fr) + 1 /\ Len(fr) \in Nat
    BY <1>1
  <2>3. FramesFrom' = FramesFrom /\ Kept' = Kept /\ Kept \in Nat
    BY <1>1, <1>5 DEF FramesFrom, Kept, Typed, Conn
  <2>4. FramesFrom \in Nat
    <3>1. Done \in Nat /\ Done <= Len(client.asked)
      BY <1>1, <1>o, DoneType DEF Requesting
    <3>2. Owed \in Nat /\ parsed \in Nat /\ c.ofs \in Nat
      BY <1>1, <1>2, <3>1 DEF Owed, Typed, Conn
    <3> QED
      BY <3>2 DEF FramesFrom
  <2>5. Frames(Stream', FramesFrom', g)
    <3> DEFINE s == Stream
               t == Stream'
               b == FramesFrom
    <3>1. /\ Len(t) = Len(s) + 3 /\ \A i \in 1 .. Len(s) : t[i] = s[i]
          /\ t[Len(s) + 1] = [what |-> "flags", fin |-> y.fin, op |-> y.op]
          /\ t[Len(s) + 2] = [what |-> "length", n |-> 1]
          /\ t[Len(s) + 3] = Data(y)
      BY <1>4
    <3>2. Frames(s, b, fr) /\ b \in Nat
      BY <2>1, <2>4
    <3> HIDE DEF s, t, b
    <3>3. Frames(t, b, Append(fr, y))
      BY <1>1, <3>1, <3>2, FramesGrow
    <3> QED
      BY <2>3, <3>3 DEF t, b
  <2>6. InStep(g)'
    BY <2>1, InStepGrows
  <2>7. Kept' + Len(g) <= client'.frames
    <3> DEFINE k == Kept
               n == Len(fr)
    <3>1. k \in Nat /\ n \in Nat /\ k + n <= client.frames
      BY <2>1, <2>2, <2>3
    <3> HIDE DEF k, n
    <3>2. k + (n + 1) <= client.frames + 1
      BY <1>2, <3>1
    <3> QED
      BY <2>2, <2>3, <3>2 DEF k, n
  <2>8. c.ofs # 1 /\ \A j \in 2 .. c.ofs : c.recv[j] = Unmask(Payload(Len(heard) + 1, j - 1))
    BY <1>1, <1>o DEF Framing
  <2> HIDE DEF g
  <2> QED
    BY <1>1, <2>2, <2>5, <2>6, <2>7, <2>8 DEF Framing
<1>9. Closed'
  BY <1>1, <1>5 DEF Closed
<1>10. Polite'
  <2>1. ASSUME ~client'.early
        PROVE  ~client.early /\ \A i \in DOMAIN client.asked : Whole(i)
    BY <2>1 DEF Early
  <2>2. ASSUME ~client'.early, NEW i \in DOMAIN client'.asked
        PROVE  Whole(i)'
    BY <1>5, <2>1, <2>2
  <2>3. ASSUME ~client'.early
        PROVE  /\ c'.pfn = "http" /\ loop' = "none" => ~Complete(c'.recv, 0)
               /\ c'.pfn = "ws" /\ loop' = "none" /\ ~c'.is_closing => ~FrameAt(c'.recv, c'.ofs)
               /\ ~c'.failed
               /\ session'.created = IF c'.pfn = "ws" THEN 1 ELSE 0
               /\ ~session'.stale
               /\ at' = "gone" =>
                    /\ session'.deleted = session'.created
                    /\ loop' = "http" => c'.pfn = "http" /\ ~Complete(c'.recv, parsed')
    <3>1. ~client.early
      BY <2>1, <2>3
    <3> QED
      BY <1>1, <3>1 DEF Polite
  <2> QED
    BY <2>2, <2>3 DEF Polite
<1> QED
  BY <1>a, <1>6, <1>7, <1>8, <1>9, <1>10 DEF JInv

\* The client sends a message or a fragment of one.
LEMMA SayKeeps ==
  ASSUME NEW fin \in BOOLEAN
  PROVE  IInv /\ IInv' /\ JInv /\ Say(fin) => JInv'
<1> SUFFICES ASSUME IInv, IInv', JInv, Say(fin) PROVE JInv'
  OBVIOUS
<1> DEFINE m      == Len(client.said) + 1
           k      == Len(client.saying) + 1
           cell   == Payload(m, k)
           all    == Append(client.saying, Unmask(cell))
           saying == IF fin THEN <<>> ELSE all
           said   == IF fin THEN Append(client.said, all) ELSE client.said
           frames == client.frames + 1
           op     == IF client.saying = <<>> THEN "text" ELSE "cont"
           y      == [fin |-> fin, op |-> op, msg |-> m, k |-> k]
           d      == [client EXCEPT !.frames = frames, !.early = Early]
<1>1. /\ client \in Client /\ m \in Nat /\ k \in Nat /\ m # 0 /\ k # 0
      /\ client.saying \in Seq(Cell) /\ client.said \in Seq(Seq(Cell))
      /\ client.frames \in Nat /\ frames \in Nat /\ Early \in BOOLEAN /\ Speaking
  <2>1. client \in Client /\ Speaking
    BY DEF IInv, Typed, JInv
  <2>2. client.saying \in Seq(Cell) /\ client.said \in Seq(Seq(Cell)) /\ client.frames \in Nat
    BY <2>1 DEF Client
  <2>3. Early \in BOOLEAN
    BY <2>1 DEF Early, Client
  <2> QED
    BY <2>1, <2>2, <2>3
<1>2. /\ SendFrame(fin, op, <<cell>>)
      /\ client' = [client EXCEPT !.frames = frames, !.early = Early, !.saying = saying, !.said = said]
  BY <1>1 DEF Say, Client
<1>3. Unmask(cell) \in Cell
  <2>1. cell \in Cell
    BY <1>1 DEF Payload, Cell
  <2> QED
    BY <2>1, UnmaskCell
<1>4. /\ all \in Seq(Cell) /\ Len(all) = k /\ all[k] = Unmask(cell)
      /\ \A i \in 1 .. Len(client.saying) : all[i] = client.saying[i]
  BY <1>1, <1>3, AppendProperties
<1>5. op = "text" <=> k = 1
  BY <1>1
<1> HIDE DEF all
<1>6. saying \in Seq(Cell) /\ said \in Seq(Seq(Cell))
  <2>1. Append(client.said, all) \in Seq(Seq(Cell))
    BY <1>1, <1>4, AppendProperties
  <2>2. <<>> \in Seq(Cell)
    OBVIOUS
  <2> QED
    BY <1>1, <1>4, <2>1, <2>2
<1>7. /\ fin => /\ Len(said) = m /\ said[m] = all /\ Len(saying) = 0 /\ saying = <<>>
                /\ \A i \in 1 .. Len(client.said) : said[i] = client.said[i]
      /\ ~fin => said = client.said /\ saying = all
  BY <1>1, <1>4, AppendProperties
<1> HIDE DEF saying, said, frames
<1>8. d \in Client /\ d.asked = client.asked /\ d.got = client.got /\ d.frames = frames /\ d.early = Early
  BY <1>1 DEF Client
<1>9. client' = [d EXCEPT !.saying = saying, !.said = said]
  BY <1>1, <1>2 DEF Client
<1> HIDE DEF d
<1>10. /\ client'.asked = client.asked /\ client'.got = client.got
       /\ client'.frames = client.frames + 1 /\ client'.early = Early
       /\ client'.said = said /\ client'.saying = saying
  BY <1>6, <1>8, <1>9 DEF Client, frames
<1>11. Spoken(m, all)
  <2>1. \A i \in 1 .. Len(client.saying) : client.saying[i] = Unmask(Payload(m, i))
    BY <1>1 DEF Speaking, Spoken
  <2>2. ASSUME NEW i \in 1 .. k PROVE all[i] = Unmask(Payload(m, i))
    <3>1. i \in 1 .. Len(client.saying) \/ i = k
      BY <1>1
    <3> QED
      BY <1>4, <2>1, <3>1
  <2>3. DOMAIN all = 1 .. k
    BY <1>4
  <2> HIDE DEF k, m, cell
  <2> QED
    BY <2>2, <2>3 DEF Spoken
<1>12. Len(client.said) <= Len(said) /\ \A i \in 1 .. Len(client.said) : said[i] = client.said[i]
  BY <1>1, <1>7
<1>13. client.frames < MaxFrames /\ heard' = heard
  BY <1>2 DEF SendFrame
<1>14. /\ heard \in Seq(Seq(Cell)) /\ Len(heard) <= Len(client.said)
       /\ \A i \in 1 .. Len(client.said) : Spoken(i, client.said[i])
       /\ Len(client.said) + Len(client.saying) <= client.frames
  <2>1. DOMAIN client.said = 1 .. Len(client.said)
    BY <1>1
  <2> QED
    BY <1>1, <2>1 DEF Speaking
<1>15. Len(said) \in Nat /\ Len(client.said) \in Nat /\ Len(client.saying) \in Nat /\ Len(heard) \in Nat
  BY <1>1, <1>6, <1>14
<1>16. Speaking'
  <2>1. Len(heard) <= Len(said)
    BY <1>12, <1>14, <1>15
  <2>2. \A i \in 1 .. Len(said) : Spoken(i, said[i])
    <3>1. CASE fin
      <4>1. \A i \in 1 .. Len(said) : i \in 1 .. Len(client.said) \/ i = m
        BY <1>7, <1>15, <3>1
      <4>2. Spoken(m, said[m])
        BY <1>7, <1>11, <3>1
      <4> HIDE DEF m
      <4> QED
        BY <1>12, <1>14, <4>1, <4>2
    <3>2. CASE ~fin
      BY <1>7, <1>14, <3>2
    <3> QED
      BY <3>1, <3>2
  <2>3. Spoken(Len(said) + 1, saying)
    <3>1. CASE fin
      BY <1>7, <3>1 DEF Spoken
    <3>2. CASE ~fin
      BY <1>7, <1>11, <3>2
    <3> QED
      BY <3>1, <3>2
  <2>4. Len(said) + Len(saying) <= client.frames + 1
    <3> DEFINE a == Len(client.said)
               b == Len(client.saying)
               e == Len(said)
               f == Len(saying)
               n == client.frames
    <3>1. /\ a \in Nat /\ b \in Nat /\ e \in Nat /\ n \in Nat /\ a + b <= n
          /\ \/ e = a + 1 /\ f = 0
             \/ e = a /\ f = b + 1
      BY <1>1, <1>4, <1>7, <1>14, <1>15
    <3> HIDE DEF a, b, e, f, n
    <3>2. e + f <= n + 1
      BY <3>1
    <3> QED
      BY <3>2 DEF e, f, n
  <2>5. client.frames + 1 <= MaxFrames /\ DOMAIN said = 1 .. Len(said)
    BY <1>1, <1>6, <1>13, SizeAssumption
  <2> QED
    BY <1>10, <1>13, <1>14, <2>1, <2>2, <2>3, <2>4, <2>5 DEF Speaking
<1>17. Uttered(y)
  <2>1. y \in Frame /\ Speaks(y) /\ Data(y) = cell /\ y.msg = m /\ y.k = k /\ y.fin = fin /\ y.op = op
    BY <1>1 DEF Frame, Speaks, Data
  <2>2. After(y) = <<Len(said) + 1, Len(saying) + 1>>
    <3>1. CASE fin
      BY <1>7, <2>1, <3>1 DEF After
    <3>2. CASE ~fin
      BY <1>4, <1>7, <2>1, <3>2 DEF After
    <3> QED
      BY <3>1, <3>2
  <2>3. fin => m <= Len(said) /\ k = Len(said[m])
    BY <1>4, <1>7, <1>15
  <2> HIDE DEF y, op
  <2>4. SendFrame(y.fin, y.op, <<Data(y)>>)
    BY <1>2, <2>1
  <2> QED
    BY <1>5, <1>10, <1>12, <2>1, <2>2, <2>3, <2>4 DEF Uttered
<1> HIDE DEF y
<1> QED
  BY <1>10, <1>16, <1>17, UtteredKeeps

\* The client sends a PING or a CLOSE, between fragments too.
LEMMA ControlKeeps ==
  ASSUME NEW op \in {"ping", "close"}
  PROVE  IInv /\ IInv' /\ JInv /\ Control(op) => JInv'
<1> SUFFICES ASSUME IInv, IInv', JInv, Control(op) PROVE JInv'
  OBVIOUS
<1> DEFINE m      == Len(client.said) + 1
           k      == Len(client.saying) + 1
           frames == client.frames + 1
           bye    == (op = "close")
           y      == [fin |-> TRUE, op |-> op, msg |-> m, k |-> k]
           d      == [client EXCEPT !.frames = frames, !.early = Early]
<1>1. /\ client \in Client /\ m \in Nat /\ k \in Nat /\ m # 0 /\ k # 0
      /\ client.frames \in Nat /\ frames \in Nat /\ Early \in BOOLEAN /\ bye \in BOOLEAN /\ Speaking
      /\ Len(client.said) \in Nat /\ Len(client.saying) \in Nat
  <2>1. client \in Client /\ Speaking
    BY DEF IInv, Typed, JInv
  <2>2. client.saying \in Seq(Cell) /\ client.said \in Seq(Seq(Cell)) /\ client.frames \in Nat
    BY <2>1 DEF Client
  <2>3. Early \in BOOLEAN /\ bye \in BOOLEAN
    BY <2>1 DEF Early, Client
  <2> QED
    BY <2>1, <2>2, <2>3
<1>2. /\ SendFrame(TRUE, op, <<Payload(0, 0)>>)
      /\ client' = [client EXCEPT !.frames = frames, !.early = Early, !.bye = bye]
  BY <1>1 DEF Control, Client
<1> HIDE DEF frames, bye
<1>3. /\ d \in Client /\ d.asked = client.asked /\ d.got = client.got /\ d.frames = frames
      /\ d.early = Early /\ d.said = client.said /\ d.saying = client.saying
  BY <1>1 DEF Client
<1>4. client' = [d EXCEPT !.bye = bye]
  BY <1>1, <1>2 DEF Client
<1> HIDE DEF d
<1>5. /\ client'.asked = client.asked /\ client'.got = client.got
      /\ client'.frames = client.frames + 1 /\ client'.early = Early
      /\ client'.said = client.said /\ client'.saying = client.saying
  BY <1>3, <1>4 DEF Client, frames
<1>6. client.frames < MaxFrames /\ heard' = heard
  BY <1>2 DEF SendFrame
<1>7. Speaking'
  <2>1. client.frames + 1 <= MaxFrames
    BY <1>1, <1>6, SizeAssumption
  <2>2. /\ heard \in Seq(Seq(Cell)) /\ Len(heard) <= Len(client.said)
        /\ \A i \in DOMAIN client.said : Spoken(i, client.said[i])
        /\ Spoken(Len(client.said) + 1, client.saying)
        /\ Len(client.said) + Len(client.saying) <= client.frames
    BY <1>1 DEF Speaking
  <2>3. Len(client.said) + Len(client.saying) <= client.frames + 1
    <3> DEFINE a == Len(client.said)
               b == Len(client.saying)
               n == client.frames
    <3>1. a \in Nat /\ b \in Nat /\ n \in Nat /\ a + b <= n
      BY <1>1, <2>2
    <3> HIDE DEF a, b, n
    <3>2. a + b <= n + 1
      BY <3>1
    <3> QED
      BY <3>2 DEF a, b, n
  <2> QED
    BY <1>5, <1>6, <2>1, <2>2, <2>3 DEF Speaking
<1>8. Uttered(y)
  <2>1. /\ y \in Frame /\ ~Speaks(y) /\ Data(y) = Payload(0, 0)
        /\ y.msg = m /\ y.k = k /\ y.fin = TRUE /\ y.op = op /\ op # "text"
    BY <1>1 DEF Frame, Speaks, Data
  <2>2. After(y) = <<m, k>>
    BY <2>1 DEF After
  <2> HIDE DEF y
  <2>3. SendFrame(y.fin, y.op, <<Data(y)>>)
    BY <1>2, <2>1
  <2> QED
    BY <1>1, <1>5, <2>1, <2>2, <2>3 DEF Uttered
<1> HIDE DEF y
<1> QED
  BY <1>5, <1>7, <1>8, UtteredKeeps

(***************************************************************************)
(* The invariant holds                                                     *)
(***************************************************************************)
LEMMA InitJInv == Init => JInv
<1> SUFFICES ASSUME Init PROVE JInv
  OBVIOUS
<1>1. /\ c.recv = <<>> /\ c.send = <<>> /\ c.ofs = 0 /\ c.pfn = "http" /\ c.is_resp = FALSE
      /\ c.is_closing = FALSE /\ c.failed = FALSE /\ c.re = 0
      /\ at = "poll" /\ loop = "none" /\ parsed = 0 /\ heard = <<>> /\ wire = <<>>
      /\ session.created = 0 /\ session.deleted = 0 /\ session.stale = FALSE
  BY DEF Init
<1>2. /\ client.asked = <<>> /\ client.got = <<>> /\ client.said = <<>> /\ client.saying = <<>>
      /\ client.frames = 0 /\ client.early = FALSE
  BY DEF Init
<1>3. Output = <<>> /\ Stream = <<>> /\ DOMAIN Output = {} /\ Len(Stream) = 0 /\ Done = 0
  <2>1. <<>> \o <<>> = <<>>
    OBVIOUS
  <2> QED
    BY <1>1, <1>2, <2>1 DEF Output, Stream, Done
<1>4. ~Asks("upgrade") /\ DOMAIN client.asked = {} /\ Len(client.asked) = 0 /\ Owed = 0
  BY <1>2, <1>3 DEF Asks, Owed
<1>5. Replying
  BY <1>1, <1>3 DEF Replying, Ordered
<1>6. Requesting
  BY <1>1, <1>2, <1>3, <1>4 DEF Requesting, Upgrading, Requests
<1>7. Framing
  <2> DEFINE fr == <<>>
  <2>1. fr \in Seq(Frame) /\ Len(fr) = 0 /\ DOMAIN fr = {} /\ 1 .. Len(fr) = {}
    OBVIOUS
  <2>2. FramesFrom = 0 /\ Kept = 0
    BY <1>1, <1>4 DEF FramesFrom, Kept
  <2> HIDE DEF fr
  <2>3. Frames(Stream, FramesFrom, fr)
    BY <1>3, <2>1, <2>2 DEF Frames
  <2>4. InStep(fr)
    <3>1. Position(fr, 1) = <<Len(heard) + 1, Kept + 1>>
      BY <1>1, <1>2, <2>1, <2>2 DEF Position
    <3> QED
      BY <2>1, <3>1 DEF InStep
  <2>5. Kept + Len(fr) <= client.frames
    BY <1>2, <2>1, <2>2
  <2>6. /\ c.ofs # 1
        /\ \A j \in 2 .. c.ofs : c.recv[j] = Unmask(Payload(Len(heard) + 1, j - 1))
    BY <1>1
  <2>7. \E g \in Seq(Frame) :
          Frames(Stream, FramesFrom, g) /\ InStep(g) /\ Kept + Len(g) <= client.frames
    BY <2>1, <2>3, <2>4, <2>5
  <2> QED
    BY <2>6, <2>7 DEF Framing
<1>8. Speaking
  <2>1. <<>> \in Seq(Seq(Cell)) /\ Len(<<>>) = 0 /\ DOMAIN <<>> = {}
    OBVIOUS
  <2>2. 0 <= MaxFrames
    BY SizeAssumption
  <2> QED
    BY <1>1, <1>2, <2>1, <2>2 DEF Speaking, Spoken
<1>9. Closed
  BY <1>1 DEF Closed
<1>10. Polite
  <2>1. ~Complete(c.recv, 0)
    BY <1>1 DEF Complete
  <2> QED
    BY <1>1, <1>4, <2>1 DEF Polite
<1> QED
  BY <1>5, <1>6, <1>7, <1>8, <1>9, <1>10 DEF JInv

\* Every step keeps the invariant.
LEMMA StepJInv == IInv /\ IInv' /\ JInv /\ [Next]_vars => JInv'
<1> SUFFICES ASSUME IInv, IInv', JInv, [Next]_vars PROVE JInv'
  OBVIOUS
<1>1. CASE UNCHANGED vars
  <2>1. /\ UNCHANGED <<c, at, loop, parsed, session, heard, wire, client>>
        /\ Typed /\ Typed'
        /\ Requesting /\ Framing /\ Speaking /\ Closed /\ Polite
    BY <1>1 DEF vars, IInv, JInv
  <2>2. Output' = Output /\ (\A id : Whole(id)' <=> Whole(id)) /\ Stream' = Stream
    BY <2>1 DEF Output, Whole, Stream
  <2>3. ASSUME Replying PROVE Replying'
    <3>1. c'.pfn = "static" /\ c'.left = 0 => c'.send # <<>>
      BY <2>1, <2>3 DEF Replying
    <3>2. ~client'.early /\ c.pfn = "ws" /\ loop = "http" => ~Whole(Len(client.asked))'
      <4>1. ~client.early /\ c.pfn = "ws" /\ loop = "http" => ~Whole(Len(client.asked))
        BY <2>3 DEF Replying
      <4> QED
        BY <2>1, <4>1 DEF Whole
    <3>3. Unframed' => Unframed
      BY <2>1 DEF Unframed, Owed, Done
    <3> QED
      BY <2>1, <2>2, <2>3, <3>1, <3>2, <3>3, SameReplies
  <2>4. (Adrift => Adrift') /\ (Over => Over') /\ Done' = Done
    BY <2>1 DEF Adrift, Over, Done
  <2>5. Requesting' /\ Framing'
    BY <2>1, <2>2, <2>3, <2>4, SameRequests
  <2>6. Speaking'
    BY <2>1, SameSpeech
  <2>7. Closed'
    BY <2>1, <2>4 DEF Closed
  <2>8. Polite'
    BY <2>1, <2>2 DEF Polite
  <2> QED
    BY <2>3, <2>4, <2>5, <2>6, <2>7, <2>8 DEF JInv
<1>2. CASE ServerStep
  BY <1>2, PollKeeps, ReadKeeps, WriteKeeps, EndKeeps, MessageKeeps, GarbledKeeps, DoneKeeps,
     FrameKeeps, WsGarbledKeeps, WsDoneKeeps DEF ServerStep
<1>3. CASE ClientStep
  BY <1>3, AskKeeps, SayKeeps, ControlKeeps, HangUpKeeps DEF ClientStep
<1> QED
  BY <1>1, <1>2, <1>3 DEF Next

\* The invariant holds in every state.
LEMMA OrderHolds == Spec => [](IInv /\ JInv)
<1>1. Init => IInv /\ JInv
  BY InitIInv, InitJInv
<1>2. IInv /\ JInv /\ [Next]_vars => (IInv /\ JInv)'
  BY StepIInv, StepJInv
<1> QED
  BY <1>1, <1>2, PTL DEF Spec

(***************************************************************************)
(* The theorems                                                            *)
(***************************************************************************)
\* However a client pipelines its requests, and whatever cuts TCP makes in
\* them and in the replies: static_cb and http_cb never let a reply begin
\* before the one before it has ended (mongoose.c: is_resp, restore_http_cb).
THEOREM RepliesOrdered == Spec => []RepliesInOrder
<1>1. JInv => RepliesInOrder
  <2> SUFFICES ASSUME JInv, at # "gone" PROVE RepliesInOrder
    BY DEF RepliesInOrder
  <2>1. Ordered(Output, client.asked)
    BY DEF JInv, Adrift, Replying
  <2> QED
    BY <2>1, OrderedIsRepliesInOrder
<1> QED
  BY <1>1, OrderHolds, PTL

\* No parser loses its place in the buffer, and the buffer does not fill up
\* (read_conn, http_cb: mg_error), as long as the client waits for its replies.
THEOREM PoliteServed == Spec => []NeverRefused
<1>1. JInv => NeverRefused
  BY DEF JInv, Polite, NeverRefused
<1> QED
  BY <1>1, OrderHolds, PTL

\* The session of such a client goes with its connection: what http_cb finds
\* after SessionManager::fn has had MG_EV_CLOSE is no upgrade.
THEOREM SessionsTaken == Spec => []SessionTaken
<1>1. JInv => SessionTaken
  BY DEF JInv, Polite, SessionTaken
<1> QED
  BY <1>1, OrderHolds, PTL

\* No event of such a client is handled with the m_ctx of its deleted Session
\* (mgws.cpp:72-75): what MG_EV_CLOSE finds in the buffer of a websocket is not
\* http_cb's.
THEOREM ContextsAlive == Spec => []ContextAlive
<1>1. JInv => ContextAlive
  BY DEF JInv, Polite, ContextAlive
<1> QED
  BY <1>1, OrderHolds, PTL

(***************************************************************************)
(* The channel                                                             *)
(***************************************************************************)
ToHear(said, h) == SubSeq(said, h + 1, Len(said))

\* What is still to be heard is the end of what is said.
LEMMA ToHearCells ==
  ASSUME NEW said \in Seq(Seq(Cell)), NEW h \in Nat, h <= Len(said)
  PROVE  /\ ToHear(said, h) \in Seq(Seq(Cell)) /\ Len(ToHear(said, h)) = Len(said) - h
         /\ \A i \in 1 .. Len(said) - h : ToHear(said, h)[i] = said[h + i]
<1> DEFINE s == SubSeq(said, h + 1, Len(said))
<1>1. s \in Seq(Seq(Cell)) /\ Len(s) = Len(said) - h
  BY SMTT(30)
<1>2. \A i \in 1 .. Len(said) - h : s[i] = said[h + i]
  BY SMTT(30)
<1> QED
  BY <1>1, <1>2 DEF ToHear

\* Hearing the next message takes the first of those to be heard.
LEMMA HearOne ==
  ASSUME NEW said \in Seq(Seq(Cell)), NEW h \in Nat, h < Len(said)
  PROVE  /\ ToHear(said, h) # <<>> /\ Head(ToHear(said, h)) = said[h + 1]
         /\ ToHear(said, h + 1) = Tail(ToHear(said, h))
<1> DEFINE n == Len(said)
           k == h + 1
           s == ToHear(said, h)
           t == ToHear(said, k)
<1>0. n \in Nat /\ h < n
  OBVIOUS
<1> HIDE DEF n
<1>1. n \in Nat /\ h < n /\ k \in Nat /\ k <= n /\ k = h + 1
  BY <1>0
<1> HIDE DEF k
<1>2. /\ s \in Seq(Seq(Cell)) /\ Len(s) = n - h
      /\ \A i \in 1 .. n - h : s[i] = said[h + i]
  <2>1. h <= Len(said)
    BY <1>1 DEF n
  <2> HIDE DEF s
  <2>2. /\ ToHear(said, h) \in Seq(Seq(Cell)) /\ Len(ToHear(said, h)) = Len(said) - h
        /\ \A i \in 1 .. Len(said) - h : ToHear(said, h)[i] = said[h + i]
    BY <2>1, ToHearCells
  <2> QED
    BY <2>2 DEF s, n
<1>8. /\ t \in Seq(Seq(Cell)) /\ Len(t) = n - k
      /\ \A i \in 1 .. n - k : t[i] = said[k + i]
  <2>1. k \in Nat /\ k <= Len(said)
    BY <1>1 DEF n
  <2> HIDE DEF t
  <2>2. /\ ToHear(said, k) \in Seq(Seq(Cell)) /\ Len(ToHear(said, k)) = Len(said) - k
        /\ \A i \in 1 .. Len(said) - k : ToHear(said, k)[i] = said[k + i]
    BY <2>1, ToHearCells
  <2> QED
    BY <2>2 DEF t, n
<1> HIDE DEF s, t
<1>9. n - k = n - h - 1
  BY <1>1
<1>3. /\ t \in Seq(Seq(Cell)) /\ Len(t) = n - h - 1
      /\ \A i \in 1 .. n - h - 1 : t[i] = said[h + 1 + i]
  BY <1>1, <1>8, <1>9
<1>4. n - h \in Nat /\ n - h > 0
  BY <1>1 DEF n
<1>5. s # <<>> /\ Head(s) = said[h + 1]
  <2>1. Len(s) # 0 /\ 1 \in 1 .. n - h
    BY <1>1, <1>2, <1>4
  <2> QED
    BY <1>2, <2>1
<1>6. t = Tail(s)
  <2>1. Tail(s) \in Seq(Seq(Cell)) /\ Len(Tail(s)) = n - h - 1 /\ \A i \in 1 .. n - h - 1 : Tail(s)[i] = s[i + 1]
    BY <1>1, <1>2, <1>4, <1>5, SMTT(30)
  <2>2. ASSUME NEW i \in 1 .. n - h - 1 PROVE t[i] = Tail(s)[i]
    <3>1. i + 1 \in 1 .. n - h /\ h + (i + 1) = h + 1 + i
      BY <1>1, <1>4
    <3>2. s[i + 1] = said[h + (i + 1)]
      BY <1>2, <3>1
    <3> QED
      BY <1>3, <2>1, <3>1, <3>2
  <2> QED
    BY <1>3, <2>1, <2>2, SeqEqual
<1> QED
  BY <1>1, <1>5, <1>6 DEF s, t

\* Saying a message puts it behind those to be heard.
LEMMA SayOne ==
  ASSUME NEW said \in Seq(Seq(Cell)), NEW h \in Nat, h <= Len(said), NEW m \in Seq(Cell)
  PROVE  ToHear(Append(said, m), h) = Append(ToHear(said, h), m)
<1> DEFINE n == Len(said)
           w == Append(said, m)
           s == SubSeq(said, h + 1, n)
           t == SubSeq(w, h + 1, Len(w))
           u == Append(s, m)
<1>1. n \in Nat /\ h <= n
  OBVIOUS
<1>2. /\ w \in Seq(Seq(Cell)) /\ Len(w) = n + 1 /\ w[n + 1] = m
      /\ \A i \in 1 .. n : w[i] = said[i]
  OBVIOUS
<1>3. /\ s \in Seq(Seq(Cell)) /\ Len(s) = n - h
      /\ \A i \in 1 .. n - h : s[i] = said[h + i]
  OBVIOUS
<1> HIDE DEF n, w, s
<1>4. /\ t \in Seq(Seq(Cell)) /\ Len(t) = n + 1 - h
      /\ \A i \in 1 .. n + 1 - h : t[i] = w[h + i]
  <2> DEFINE N == Len(w)
             v == SubSeq(w, h + 1, N)
  <2>1. w \in Seq(Seq(Cell)) /\ N \in Nat /\ h <= N /\ N = n + 1
    BY <1>1, <1>2
  <2>2. v \in Seq(Seq(Cell)) /\ Len(v) = N - h /\ \A i \in 1 .. N - h : v[i] = w[h + i]
    BY <2>1
  <2>3. t = v
    OBVIOUS
  <2> HIDE DEF v, t, N
  <2>4. N - h = n + 1 - h
    BY <1>1, <2>1
  <2>5. /\ t \in Seq(Seq(Cell)) /\ Len(t) = N - h /\ \A i \in 1 .. N - h : t[i] = w[h + i]
    BY <2>2, <2>3
  <2> HIDE DEF N
  <2> QED
    BY <2>4, <2>5
<1>5. /\ u \in Seq(Seq(Cell)) /\ Len(u) = n - h + 1 /\ u[n - h + 1] = m
      /\ \A i \in 1 .. n - h : u[i] = s[i]
  <2>1. /\ u \in Seq(Seq(Cell)) /\ Len(u) = Len(s) + 1 /\ u[Len(s) + 1] = m
        /\ \A i \in 1 .. Len(s) : u[i] = s[i]
    BY <1>3, AppendProperties
  <2> HIDE DEF u
  <2> QED
    BY <1>3, <2>1
<1> HIDE DEF t, u
<1>6. ASSUME NEW i \in 1 .. n + 1 - h PROVE t[i] = u[i]
  <2>1. CASE i \in 1 .. n - h
    <3>1. h + i \in 1 .. n
      BY <1>1, <2>1
    <3> QED
      BY <1>2, <1>3, <1>4, <1>5, <2>1, <3>1
  <2>2. CASE i = n - h + 1
    <3>1. h + i = n + 1
      BY <1>1, <2>2
    <3> QED
      BY <1>2, <1>4, <1>5, <2>2, <3>1
  <2> QED
    BY <1>1, <2>1, <2>2
<1>7. t = u
  <2>1. Len(t) = Len(u)
    BY <1>1, <1>4, <1>5
  <2>2. \A i \in 1 .. Len(t) : t[i] = u[i]
    BY <1>4, <1>6
  <2> QED
    BY <1>4, <1>5, <2>1, <2>2, SeqEqual
<1> QED
  BY <1>7 DEF ToHear, t, u, w, s, n

\* static_cb neither closes a connection nor opens it again.
LEMMA HandledCloses ==
  ASSUME NEW d \in Conn
  PROVE  Handled(d).is_closing = d.is_closing
<1>1. CASE d.pfn = "static"
  <2>1. StaticCb(d).is_closing = d.is_closing
    BY <1>1, StaticCbShape DEF Conn
  <2> QED
    BY <1>1, <2>1 DEF Handled
<1>2. CASE d.pfn # "static"
  BY <1>2 DEF Handled
<1> QED
  BY <1>1, <1>2

\* No connection that is closing is opened again.
LEMMA ClosingStays == IInv /\ JInv /\ Next => (c.is_closing => c'.is_closing)
<1> SUFFICES ASSUME IInv, JInv, Next, c.is_closing PROVE c'.is_closing
  OBVIOUS
<1>1. c \in Conn
  BY DEF IInv, Typed
<1>2. ASSUME Poll PROVE c'.is_closing
  BY <1>1, <1>2, HandledCloses DEF Poll
<1>3. ASSUME Read PROVE c'.is_closing
  BY <1>1, <1>3 DEF Read
<1>4. ASSUME Write PROVE c'.is_closing
  <2>1. ASSUME NEW n \in 1 .. Len(c.send), c' = Handled([c EXCEPT !.send = Del(@, 0, n)])
        PROVE  c'.is_closing
    <3> DEFINE s == Del(c.send, 0, n)
               d == [c EXCEPT !.send = s]
    <3>1. c.send \in Seq(Sent) /\ client.got \in Seq(Sent)
      BY <1>1, OutputType DEF IInv, Conn
    <3>2. s \in Seq(Sent)
      BY <3>1, WriteCells
    <3>3. c' = Handled(d)
      BY <2>1
    <3> HIDE DEF s
    <3>4. d \in Conn /\ d.is_closing = c.is_closing
      BY <1>1, <3>2 DEF Conn
    <3> HIDE DEF d
    <3> QED
      BY <3>3, <3>4, HandledCloses
  <2> QED
    BY <1>1, <1>4, <2>1 DEF Write, Conn
<1>5. ASSUME End PROVE c'.is_closing
  BY <1>1, <1>5 DEF End, Conn
<1>6. ASSUME HttpMessage PROVE c'.is_closing
  BY <1>6, MessageCloses
<1>7. ASSUME HttpGarbled PROVE c'.is_closing
  BY <1>1, <1>7 DEF HttpGarbled, Fail, Conn
<1>8. ASSUME HttpDone PROVE c'.is_closing
  BY <1>1, <1>8 DEF HttpDone, Conn
<1>9. ASSUME WsFrame PROVE c'.is_closing
  BY <1>9, FrameFound DEF WsFrame
<1>10. ASSUME WsDone PROVE c'.is_closing
  BY <1>10 DEF WsDone
<1>11. ASSUME WsGarbled PROVE c'.is_closing
  BY <1>1, <1>11 DEF WsGarbled, Fail, Conn
<1>12. ASSUME ClientStep PROVE c'.is_closing
  BY <1>12 DEF ClientStep, Ask, Say, Control, SendFrame, HangUp
<1> QED
  BY <1>2, <1>3, <1>4, <1>5, <1>6, <1>7, <1>8, <1>9, <1>10, <1>11, <1>12 DEF Next, ServerStep

LastHeard == IF heard = <<>> THEN <<>> ELSE heard[Len(heard)]

\* What neither says a message nor hears one closes the connection at most.
LEMMA SilentStep ==
  ASSUME IInv, IInv', heard' = heard, client'.said = client.said, c.is_closing => c'.is_closing
  PROVE  [Channel!Next]_(Channel!vars)
<1> DEFINE o  == ToHear(client.said, Len(heard))
           oo == ToHear(client'.said, Len(heard'))
<1>1. oo = o /\ LastHeard' = LastHeard
  BY DEF LastHeard
<1>2. c.is_closing \in BOOLEAN /\ c'.is_closing \in BOOLEAN
  BY DEF IInv, Typed, Conn
<1>3. CASE c'.is_closing = c.is_closing
  BY <1>1, <1>3 DEF Channel!vars, ToHear, LastHeard
<1>4. CASE c'.is_closing = TRUE
  <2>1. Channel!Close
    BY <1>1, <1>4 DEF Channel!Close, ToHear, LastHeard
  <2> QED
    BY <2>1 DEF Channel!Next
<1> QED
  BY <1>2, <1>3, <1>4

\* The message that a frame completes is the one that was to be heard next.
LEMMA FrameHears ==
  ASSUME IInv, IInv', JInv, WsFrame
  PROVE  [Channel!Next]_(Channel!vars)
<1>1. /\ loop = "ws" /\ FrameAt(c.recv, c.ofs) /\ ProcessFrame /\ client' = client
  BY DEF WsFrame
<1>2. ~c.is_closing /\ c \in Conn /\ c' \in Conn
  BY <1>1, FrameFound DEF IInv, Typed
<1>3. PICK fr : Taken(fr)
  BY <1>1, FrameFound
<1>4. HeardNext
  BY <1>1, <1>3, FrameOutcome DEF Outcome
<1>5. c'.is_closing = c.is_closing
  BY <1>1, <1>3, FrameEffect DEF Taken
<1>6. CASE heard' = heard
  BY <1>1, <1>5, <1>6, SilentStep
<1>7. CASE Len(heard) < Len(client.said) /\ heard' = Append(heard, client.said[Len(heard) + 1])
  <2> DEFINE h == Len(heard)
             m == client.said[h + 1]
             o == ToHear(client.said, h)
  <2>1. heard \in Seq(Seq(Cell)) /\ client.said \in Seq(Seq(Cell)) /\ h \in Nat /\ h < Len(client.said)
    BY <1>7 DEF JInv, Speaking, IInv, Typed, Client
  <2>2. m \in Seq(Cell)
    <3>1. h + 1 \in 1 .. Len(client.said)
      BY <2>1
    <3> QED
      BY <2>1, <3>1
  <2>3. heard' # <<>> /\ Len(heard') = h + 1 /\ heard'[h + 1] = m
    <3> HIDE DEF m
    <3>1. heard' = Append(heard, m)
      BY <1>7 DEF m
    <3>2. /\ Append(heard, m) # <<>> /\ Len(Append(heard, m)) = h + 1
          /\ Append(heard, m)[h + 1] = m
      BY <2>1, <2>2, AppendProperties
    <3> QED
      BY <3>1, <3>2
  <2>4. o # <<>> /\ Head(o) = m /\ ToHear(client.said, h + 1) = Tail(o)
    <3> HIDE DEF h
    <3> QED
      BY <2>1, HearOne
  <2>5. LastHeard' = Head(o)
    BY <2>3, <2>4 DEF LastHeard
  <2>6. ToHear(client'.said, Len(heard')) = Tail(o)
    BY <1>1, <2>3, <2>4
  <2>7. Channel!Hear
    BY <1>2, <1>5, <2>4, <2>5, <2>6 DEF Channel!Hear, ToHear, LastHeard
  <2> QED
    BY <2>7 DEF Channel!Next
<1> QED
  BY <1>4, <1>6, <1>7 DEF HeardNext

\* The last frame of a message says it.
LEMMA SayTells ==
  ASSUME NEW fin \in BOOLEAN, IInv, IInv', JInv, JInv', Say(fin)
  PROVE  [Channel!Next]_(Channel!vars)
<1> DEFINE m    == Len(client.said) + 1
           k    == Len(client.saying) + 1
           all  == Append(client.saying, Unmask(Payload(m, k)))
           said == IF fin THEN Append(client.said, all) ELSE client.said
<1>1. /\ client \in Client /\ client' \in Client /\ heard' = heard /\ c' = c
      /\ client.frames < MaxFrames
  BY DEF Say, SendFrame, IInv, Typed
<1>2. /\ client.saying \in Seq(Cell) /\ client.said \in Seq(Seq(Cell)) /\ client.frames \in Nat
      /\ m \in Nat /\ k \in Nat /\ m >= 1 /\ k >= 1
  BY <1>1 DEF Client
<1>3. client'.said = said
  BY <1>1 DEF Say, Client
<1>4. CASE ~fin
  <2>1. client'.said = client.said
    BY <1>3, <1>4
  <2> QED
    BY <1>1, <2>1, SilentStep
<1>5. CASE fin
  <2>1. client'.said = Append(client.said, all)
    BY <1>3, <1>5
  <2>2. all \in Seq(Cell) /\ Len(all) = k
    <3>1. Payload(m, k) \in Cell
      BY <1>2 DEF Payload, Cell
    <3>2. Unmask(Payload(m, k)) \in Cell
      BY <3>1, UnmaskCell
    <3> QED
      BY <1>2, <3>2, AppendProperties
  <2> HIDE DEF all
  <2>3. /\ Append(client.said, all)[m] = all /\ m \in DOMAIN Append(client.said, all)
    BY <1>2, <2>2, AppendProperties
  <2>4. Spoken(m, all)
    <3>1. \A i \in DOMAIN client'.said : Spoken(i, client'.said[i])
      BY DEF JInv, Speaking
    <3> HIDE DEF m
    <3> QED
      BY <2>1, <2>3, <3>1
  <2>5. all = [i \in 1 .. k |-> Unmask(Payload(m, i))]
    <3>1. all = [i \in 1 .. k |-> all[i]]
      BY <2>2
    <3>2. \A i \in 1 .. k : all[i] = Unmask(Payload(m, i))
      BY <2>2, <2>4 DEF Spoken
    <3> HIDE DEF m, k
    <3> QED
      BY <3>1, <3>2
  <2>6. m \in 1 .. MaxFrames /\ k \in 1 .. MaxFrames
    <3> DEFINE a == Len(client.said)
               b == Len(client.saying)
    <3>1. /\ a \in Nat /\ b \in Nat /\ a + b <= client.frames /\ MaxFrames \in Nat
          /\ client.frames \in Nat /\ client.frames < MaxFrames /\ m = a + 1 /\ k = b + 1
      <4>1. a + b <= client.frames
        BY DEF JInv, Speaking
      <4>2. a \in Nat /\ b \in Nat
        BY <1>2
      <4>3. MaxFrames \in Nat
        BY SizeAssumption
      <4> QED
        BY <1>1, <1>2, <4>1, <4>2, <4>3
    <3> HIDE DEF a, b, m, k
    <3> QED
      BY <3>1
  <2> DEFINE o == ToHear(client.said, Len(heard))
  <2>7. ToHear(client'.said, Len(heard')) = Append(o, all)
    <3> DEFINE h == Len(heard)
    <3>1. h \in Nat /\ h <= Len(client.said)
      BY DEF JInv, Speaking
    <3> HIDE DEF h
    <3>2. ToHear(Append(client.said, all), h) = Append(ToHear(client.said, h), all)
      BY <1>2, <2>2, <3>1, SayOne
    <3> QED
      BY <1>1, <2>1, <3>2 DEF h
  <2>8. LastHeard' = LastHeard
    BY <1>1 DEF LastHeard
  <2> HIDE DEF m, k
  <2>9. all \in {[i \in 1 .. parts |-> Unmask(Payload(msg, i))] : msg, parts \in 1 .. MaxFrames}
    BY <2>5, <2>6
  <2>10. Channel!Say(all)
    BY <1>1, <2>7, <2>8 DEF Channel!Say, ToHear, LastHeard
  <2> QED
    BY <2>9, <2>10 DEF Channel!Next
<1> QED
  BY <1>4, <1>5

\* Every step is a message said, a message heard, the close, or nothing to the
\* channel.
LEMMA ChannelStep ==
  IInv /\ IInv' /\ JInv /\ JInv' /\ [Next]_vars => [Channel!Next]_(Channel!vars)
<1> SUFFICES ASSUME IInv, IInv', JInv, JInv', [Next]_vars
             PROVE  [Channel!Next]_(Channel!vars)
  OBVIOUS
<1>1. CASE UNCHANGED vars
  BY <1>1, SilentStep DEF vars
<1>2. CASE ServerStep /\ ~WsFrame
  <2>1. heard' = heard /\ client'.said = client.said
    <3>1. client \in Client
      BY DEF IInv, Typed
    <3> QED
      BY <1>2, <3>1 DEF ServerStep, Poll, Read, Write, End, HttpMessage, HttpGarbled, HttpDone,
              WsGarbled, WsDone, Client
  <2>2. c.is_closing => c'.is_closing
    BY <1>2, ClosingStays DEF Next
  <2> QED
    BY <2>1, <2>2, SilentStep
<1>3. CASE WsFrame
  BY <1>3, FrameHears
<1>4. ASSUME NEW kind \in Request, Ask(kind) PROVE [Channel!Next]_(Channel!vars)
  <2>1. client'.said = client.said /\ heard' = heard /\ c' = c
    BY <1>4 DEF Ask, IInv, Typed, Client
  <2> QED
    BY <2>1, SilentStep
<1>5. ASSUME NEW fin \in BOOLEAN, Say(fin) PROVE [Channel!Next]_(Channel!vars)
  BY <1>5, SayTells
<1>6. ASSUME NEW op \in {"ping", "close"}, Control(op) PROVE [Channel!Next]_(Channel!vars)
  <2>1. client'.said = client.said /\ heard' = heard /\ c' = c
    BY <1>6 DEF Control, SendFrame, IInv, Typed, Client
  <2> QED
    BY <2>1, SilentStep
<1>7. CASE HangUp
  <2>1. client'.said = client.said /\ heard' = heard /\ c' = c
    BY <1>7 DEF HangUp, IInv, Typed, Client
  <2> QED
    BY <2>1, SilentStep
<1> QED
  BY <1>1, <1>2, <1>3, <1>4, <1>5, <1>6, <1>7 DEF Next, ServerStep, ClientStep

\* Wherever frames and fragments are cut, and whatever control frames come
\* between them, the session hears every message of its client whole, once and
\* in order, until its connection closes (mongoose.c:8435, mg_ws_cb).
THEOREM ChannelImplemented == Spec => ImplementsChannel
<1>1. Init => Channel!Init
  <2> SUFFICES ASSUME Init PROVE Channel!Init
    OBVIOUS
  <2>1. heard = <<>> /\ client.said = <<>> /\ c.is_closing = FALSE
    BY DEF Init
  <2>2. SubSeq(<<>>, Len(<<>>) + 1, Len(<<>>)) = <<>>
    OBVIOUS
  <2> QED
    BY <2>1, <2>2 DEF Channel!Init
<1>2. IInv /\ JInv /\ IInv' /\ JInv' /\ [Next]_vars => [Channel!Next]_(Channel!vars)
  BY ChannelStep
<1>3. Spec => [][Channel!Next]_(Channel!vars)
  BY <1>2, OrderHolds, PTL DEF Spec
<1> QED
  BY <1>1, <1>3, PTL DEF ImplementsChannel, Channel!Spec, Spec
=============================================================================
