---------------------------- MODULE ConnStreamProofs ----------------------------
(***************************************************************************)
(* For files, buffers and clients of any size, waiting or early: every     *)
(* offset into the buffers stays inside them, whatever cuts TCP makes.     *)
(*                                                                         *)
(* What counts is the stream, the buffer and what is on its way to it:     *)
(* reading moves cells inside the stream, and every loop takes some away   *)
(* from its beginning.                                                     *)
(***************************************************************************)
EXTENDS ConnStream, SequenceTheorems, TLAPS

(***************************************************************************)
(* Types                                                                   *)
(***************************************************************************)
Cell ==
  [what : {"request"}, kind : Request, id : Nat, part : {1, 2}]
    \cup [what : {"flags"}, fin : BOOLEAN, op : {"text", "cont", "ping", "close"}]
    \cup [what : {"length"}, n : Nat]
    \cup [what : {"data"}, msg : Nat, k : Nat, masked : BOOLEAN]

Sent == [re : Nat, part : Nat, end : BOOLEAN] \cup [pong : Seq(Cell)] \cup [close : Seq(Cell)]

Conn ==
  [recv : Seq(Cell), send : Seq(Sent), ofs : Nat, pfn : {"http", "static", "ws"},
   left : 0 .. FileSize, re : Nat, is_resp : BOOLEAN, is_websocket : BOOLEAN,
   is_draining : BOOLEAN, is_closing : BOOLEAN, failed : BOOLEAN]

Client ==
  [asked : Seq(Request), got : Seq(Sent), early : BOOLEAN, saying : Seq(Cell),
   said : Seq(Seq(Cell)), frames : Nat, bye : BOOLEAN, hungup : BOOLEAN]

Typed ==
  /\ c \in Conn
  /\ wire \in Seq(Cell)
  /\ client \in Client
  /\ at \in {"poll", "read", "write", "end", "gone"}
  /\ loop \in {"none", "http", "ws"}
  /\ parsed \in 0 .. Len(c.recv)
  /\ c.ofs <= Len(c.recv)
  /\ session \in [created : Nat, deleted : Nat, stale : BOOLEAN]

(***************************************************************************)
(* The invariant                                                           *)
(***************************************************************************)
\* Only the HTTP parser has an offset of its own, only the websocket parser one
\* that lasts, and a file is streamed only while a response is generated.
Placed ==
  /\ loop # "http" => parsed = 0
  /\ c.pfn # "ws" \/ loop = "http" => c.ofs = 0
  /\ loop = "ws" => c.pfn = "ws"
  /\ c.pfn = "static" => c.is_resp

Stream == c.recv \o wire

\* The first cell of a request.
Starts(cell) == cell.what = "request" /\ cell.part = 1

\* Beyond the offset, the first byte of a frame is followed by its length.
Framed(s, ofs) ==
  \A i \in DOMAIN s :
     i > ofs /\ s[i].what = "flags" => i + 1 \in DOMAIN s /\ s[i + 1].what = "length"

\* A session is deleted by the close alone, and at most one.
Deleting ==
  /\ at # "gone" => session.deleted = 0
  /\ session.deleted <= session.created

IInv == Typed /\ Placed /\ Framed(Stream, c.ofs) /\ Deleting

(***************************************************************************)
(* What the handlers do to a connection                                    *)
(***************************************************************************)
LEMMA StaticCbType ==
  ASSUME NEW d \in Conn, d.pfn = "static", d.is_resp
  PROVE  /\ StaticCb(d) \in Conn
         /\ StaticCb(d).recv = d.recv /\ StaticCb(d).ofs = d.ofs
         /\ \/ StaticCb(d).pfn = "static" /\ StaticCb(d).is_resp
            \/ StaticCb(d).pfn = "http"
<1> DEFINE room  == SendSize - Len(d.send)
           space == IF room > d.left THEN d.left ELSE room
           more  == Pieces(d, space)
<1>1. room \in Int /\ d.left \in 0 .. FileSize /\ d.re \in Nat /\ FileSize \in Nat
  BY SizeAssumption DEF Conn
<1>2. CASE room <= 0
  BY <1>2 DEF StaticCb
<1>3. CASE room > 0 /\ space = 0
  BY <1>3 DEF StaticCb, Conn
<1>4. CASE room > 0 /\ space # 0
  <2>1. space \in Nat /\ space <= d.left
    BY <1>1, <1>4
  <2>2. \A i \in 1 .. space : Reply(d.re, FileSize - d.left + i, i = d.left) \in Sent
    BY <1>1 DEF Reply, Sent
  <2>3. more \in Seq(Sent)
    BY <2>1, <2>2 DEF Pieces
  <2>4. d.send \o more \in Seq(Sent)
    BY <2>3 DEF Conn
  <2>5. d.left - space \in 0 .. FileSize
    BY <1>1, <2>1
  <2>6. StaticCb(d) = [d EXCEPT !.send = d.send \o more, !.left = d.left - space]
    BY <1>1, <1>4 DEF StaticCb, Send, Conn
  <2> HIDE DEF more, space, room
  <2> QED
    BY <2>4, <2>5, <2>6 DEF Conn
<1> QED
  BY <1>1, <1>2, <1>3, <1>4

\* static_cb, or nothing, leaves the connection well typed and the receive
\* buffer alone.
LEMMA HandledType ==
  ASSUME NEW d \in Conn, d.pfn = "static" => d.is_resp
  PROVE  /\ Handled(d) \in Conn
         /\ Handled(d).recv = d.recv /\ Handled(d).ofs = d.ofs
         /\ Handled(d).pfn = "static" => Handled(d).is_resp
         /\ Handled(d).pfn = "ws" => d.pfn = "ws"
BY StaticCbType DEF Handled

\* So does serving a request, which may put the offset back.
LEMMA ServedType ==
  ASSUME NEW d \in Conn, d.pfn # "static", NEW kind \in Request, NEW id \in Nat
  PROVE  /\ Served(d, kind, id) \in Conn
         /\ Served(d, kind, id).recv = d.recv
         /\ Served(d, kind, id).ofs \in {0, d.ofs}
         /\ Served(d, kind, id).pfn = "static" => Served(d, kind, id).is_resp
         /\ Served(d, kind, id).pfn = "ws" => kind = "upgrade" \/ d.pfn = "ws"
<1>1. \A end \in BOOLEAN : d.send \o <<Reply(id, 0, end)>> \in Seq(Sent)
  BY DEF Reply, Sent, Conn
<1> DEFINE s(end) == d.send \o <<Reply(id, 0, end)>>
<1>2. s(TRUE) \in Seq(Sent) /\ s(FALSE) \in Seq(Sent)
  BY <1>1
<1>3. CASE kind = "missing"
  <2>1. Served(d, kind, id) = [d EXCEPT !.send = s(TRUE), !.is_resp = FALSE, !.re = id]
    BY <1>3 DEF Served, HttpReply, Send, Conn
  <2> HIDE DEF s
  <2> QED
    BY <1>2, <2>1, <1>3 DEF Conn
<1>4. CASE kind = "file"
  <2>1. Served(d, kind, id) =
          [d EXCEPT !.send = s(FALSE), !.is_resp = TRUE, !.pfn = "static", !.left = FileSize, !.re = id]
    BY <1>4 DEF Served, ServeFile, Send, Conn
  <2> HIDE DEF s
  <2>2. Served(d, kind, id) \in Conn
    <3>1. FileSize \in 0 .. FileSize
      BY SizeAssumption
    <3>2. [d EXCEPT !.send = s(FALSE), !.is_resp = TRUE, !.left = FileSize, !.re = id] \in Conn
      BY <1>2, <3>1 DEF Conn
    <3> QED
      BY <3>2, <2>1 DEF Conn
  <2>3. /\ Served(d, kind, id).recv = d.recv /\ Served(d, kind, id).ofs = d.ofs
        /\ Served(d, kind, id).pfn = "static" /\ Served(d, kind, id).is_resp
    BY <2>1 DEF Conn
  <2> QED
    BY <2>2, <2>3
<1>5. CASE kind = "head"
  <2>1. Served(d, kind, id) =
          [d EXCEPT !.send = s(TRUE), !.is_resp = FALSE, !.is_draining = TRUE, !.re = id]
    BY <1>5 DEF Served, ServeHead, Send, Conn
  <2> HIDE DEF s
  <2>2. Served(d, kind, id) \in Conn
    <3> DEFINE e == [d EXCEPT !.send = s(TRUE), !.is_resp = FALSE]
    <3>1. e \in Conn
      BY <1>2 DEF Conn
    <3>2. Served(d, kind, id) = [e EXCEPT !.is_draining = TRUE, !.re = id]
      BY <2>1 DEF Conn
    <3> HIDE DEF e
    <3> QED
      BY <3>1, <3>2 DEF Conn
  <2>3. /\ Served(d, kind, id).recv = d.recv /\ Served(d, kind, id).ofs = d.ofs
        /\ Served(d, kind, id).pfn = d.pfn
    BY <2>1 DEF Conn
  <2> QED
    BY <2>2, <2>3
<1>6. CASE kind = "upgrade"
  <2>1. Served(d, kind, id) =
          [d EXCEPT !.send = s(TRUE), !.is_resp = FALSE, !.pfn = "ws", !.ofs = 0, !.is_websocket = TRUE, !.re = id]
    BY <1>6 DEF Served, Upgrade, Send, Conn
  <2> HIDE DEF s
  <2>2. Served(d, kind, id) \in Conn
    <3> DEFINE e == [d EXCEPT !.send = s(TRUE), !.is_resp = FALSE, !.pfn = "ws"]
               f == [e EXCEPT !.ofs = 0]
    <3>1. e \in Conn
      BY <1>2 DEF Conn
    <3>2. Served(d, kind, id) = [f EXCEPT !.is_websocket = TRUE, !.re = id]
      BY <2>1 DEF Conn
    <3> HIDE DEF e
    <3>3. f \in Conn
      BY <3>1 DEF Conn
    <3> HIDE DEF f
    <3> QED
      BY <3>2, <3>3 DEF Conn
  <2>3. /\ Served(d, kind, id).recv = d.recv /\ Served(d, kind, id).ofs = 0
        /\ Served(d, kind, id).pfn = "ws"
    BY <2>1 DEF Conn
  <2> QED
    BY <2>2, <2>3, <1>6
<1> QED
  BY <1>3, <1>4, <1>5, <1>6 DEF Request

\* Unmasking changes no cell but those of a payload.
LEMMA UnmaskCell ==
  ASSUME NEW x \in Cell
  PROVE  /\ Unmask(x) \in Cell
         /\ Unmask(x).what = x.what
         /\ Starts(Unmask(x)) <=> Starts(x)
<1>1. CASE x \in [what : {"data"}, msg : Nat, k : Nat, masked : BOOLEAN]
  BY <1>1 DEF Unmask, Cell, Starts
<1>2. CASE x \notin [what : {"data"}, msg : Nat, k : Nat, masked : BOOLEAN]
  <2>1. "masked" \notin DOMAIN x
    BY <1>2 DEF Cell
  <2>2. Unmask(x) = x
    BY <1>2, <2>1 DEF Unmask, Cell
  <2> QED
    BY <2>2
<1> QED
  BY <1>1, <1>2

(***************************************************************************)
(* What the loops do to the stream                                         *)
(***************************************************************************)
\* mg_iobuf_del takes the cells between away and keeps the others.
LEMMA DelCells ==
  ASSUME NEW s \in Seq(Cell), NEW o \in Nat, NEW n \in Nat, o + n <= Len(s)
  PROVE  /\ Del(s, o, n) \in Seq(Cell)
         /\ Len(Del(s, o, n)) = Len(s) - n
         /\ \A i \in 1 .. o : Del(s, o, n)[i] = s[i]
         /\ \A i \in o + 1 .. Len(s) - n : Del(s, o, n)[i] = s[i + n]
<1> DEFINE front == SubSeq(s, 1, o)
           back  == SubSeq(s, o + n + 1, Len(s))
<1>1. /\ front \in Seq(Cell) /\ Len(front) = o
      /\ \A i \in 1 .. o : front[i] = s[i]
  OBVIOUS
<1>2. /\ back \in Seq(Cell) /\ Len(back) = Len(s) - (o + n)
      /\ \A i \in 1 .. Len(s) - (o + n) : back[i] = s[o + n + i]
  OBVIOUS
<1>3. Del(s, o, n) = front \o back
  BY DEF Del
<1> HIDE DEF front, back
<1>4. /\ front \o back \in Seq(Cell) /\ Len(front \o back) = Len(s) - n
      /\ \A i \in 1 .. o : (front \o back)[i] = front[i]
      /\ \A i \in o + 1 .. Len(s) - n : (front \o back)[i] = back[i - o]
  BY <1>1, <1>2
<1>5. ASSUME NEW i \in o + 1 .. Len(s) - n PROVE back[i - o] = s[i + n]
  <2>1. i - o \in 1 .. Len(s) - (o + n) /\ o + n + (i - o) = i + n
    OBVIOUS
  <2> QED
    BY <2>1, <1>2
<1> QED
  BY <1>1, <1>3, <1>4, <1>5

\* Where the cells of the stream come from.
LEMMA StreamCells ==
  ASSUME NEW s \in Seq(Cell), NEW w \in Seq(Cell)
  PROVE  /\ s \o w \in Seq(Cell) /\ Len(s \o w) = Len(s) + Len(w)
         /\ \A i \in 1 .. Len(s) : (s \o w)[i] = s[i]
         /\ \A i \in Len(s) + 1 .. Len(s) + Len(w) : (s \o w)[i] = w[i - Len(s)]
OBVIOUS

\* Buffer, what is read, and what is still on its way.
LEMMA CellsAssociative ==
  ASSUME NEW s \in Seq(Cell), NEW v \in Seq(Cell), NEW w \in Seq(Cell)
  PROVE  (s \o v) \o w = s \o (v \o w)
BY ConcatAssociative

\* An index beyond the first of two pieces, when the first loses d cells.
LEMMA ShiftPast ==
  ASSUME NEW a \in Nat, NEW b \in Nat, NEW d \in Nat, NEW k \in Nat, b = a - d,
         NEW i \in b + 1 .. b + k
  PROVE  i + d \in a + 1 .. a + k /\ (i + d) - a = i - b
OBVIOUS

\* When cells are taken from the buffer, what is beyond the new offset was
\* beyond the old one, and is as it was.
LEMMA StreamShift ==
  ASSUME NEW s \in Seq(Cell), NEW t \in Seq(Cell), NEW w \in Seq(Cell),
         NEW d \in Nat, NEW o \in Nat, NEW p \in Nat,
         Len(t) = Len(s) - d, p <= Len(t), p + d >= o,
         \A i \in 1 .. Len(t) : i > p => t[i] = s[i + d]
  PROVE  /\ Len(t \o w) = Len(s \o w) - d
         /\ \A i \in DOMAIN (t \o w) :
              i > p => i + d \in DOMAIN (s \o w) /\ i + d > o /\ (t \o w)[i] = (s \o w)[i + d]
         /\ Framed(s \o w, o) => Framed(t \o w, p)
<1> DEFINE S == s \o w
           T == t \o w
           a == Len(s)
           b == Len(t)
           k == Len(w)
<1>1. /\ S \in Seq(Cell) /\ Len(S) = a + k /\ T \in Seq(Cell) /\ Len(T) = b + k
      /\ \A i \in 1 .. a : S[i] = s[i]
      /\ \A i \in 1 .. b : T[i] = t[i]
      /\ \A i \in a + 1 .. a + k : S[i] = w[i - a]
      /\ \A i \in b + 1 .. b + k : T[i] = w[i - b]
  BY StreamCells
<1>2. a \in Nat /\ b \in Nat /\ k \in Nat /\ b = a - d
  OBVIOUS
<1>3. DOMAIN T = 1 .. b + k /\ DOMAIN S = 1 .. a + k
  BY <1>1
<1>s. \A i \in 1 .. b : i > p => t[i] = s[i + d]
  OBVIOUS
<1> HIDE DEF S, T, a, b, k
<1>4. ASSUME NEW i \in DOMAIN T, i > p PROVE i + d \in DOMAIN S /\ i + d > o /\ T[i] = S[i + d]
  <2>1. i \in 1 .. b + k /\ i + d \in 1 .. a + k /\ i + d > o
    BY <1>2, <1>3, <1>4
  <2>2. CASE i \in 1 .. b
    <3>1. i + d \in 1 .. a
      BY <1>2, <2>2
    <3> QED
      BY <1>1, <1>3, <1>4, <1>s, <2>1, <2>2, <3>1
  <2>3. CASE i \in b + 1 .. b + k
    <3>0. i + d \in a + 1 .. a + k /\ (i + d) - a = i - b
      BY <1>2, <2>3, ShiftPast
    <3>1. PICK j \in a + 1 .. a + k : j = i + d /\ j - a = i - b
      BY <3>0
    <3>2. T[i] = w[i - b]
      BY <1>1, <2>3
    <3>3. S[j] = w[j - a]
      BY <1>1
    <3> QED
      BY <1>3, <2>1, <3>1, <3>2, <3>3
  <2> QED
    BY <2>1, <2>2, <2>3, <1>2
<1>5. ASSUME Framed(S, o) PROVE Framed(T, p)
  <2> SUFFICES ASSUME NEW i \in DOMAIN T, i > p, T[i].what = "flags"
               PROVE  i + 1 \in DOMAIN T /\ T[i + 1].what = "length"
    BY DEF Framed
  <2>1. i + d + 1 \in DOMAIN S /\ S[i + d + 1].what = "length"
    BY <1>4, <1>5 DEF Framed
  <2>2. i \in Nat /\ i + 1 \in 1 .. b + k /\ i + 1 > p /\ i + 1 + d = i + d + 1
    BY <2>1, <1>2, <1>3
  <2>3. i + 1 \in DOMAIN T /\ T[i + 1] = S[i + 1 + d]
    BY <2>2, <1>3, <1>4
  <2> QED
    BY <2>1, <2>2, <2>3
<1>6. Len(T) = Len(S) - d
  BY <1>1, <1>2
<1> QED
  BY <1>4, <1>5, <1>6 DEF S, T

(***************************************************************************)
(* A frame                                                                 *)
(***************************************************************************)
\* The frame at the offset has a length, and a payload in the buffer.
LEMMA FrameShape ==
  ASSUME IInv, FrameAt(c.recv, c.ofs)
  PROVE  /\ c.recv[c.ofs + 2].n \in Nat
         /\ c.ofs + 2 + c.recv[c.ofs + 2].n <= Len(c.recv)
<1> DEFINE k == c.ofs + 1
<1>1. c.recv \in Seq(Cell) /\ c.ofs \in Nat /\ wire \in Seq(Cell) /\ c.ofs + 2 <= Len(c.recv)
  BY DEF IInv, Typed, Conn, FrameAt
<1>2. k \in 1 .. Len(c.recv) /\ k + 1 \in 1 .. Len(c.recv) /\ k > c.ofs /\ k + 1 = c.ofs + 2
  BY <1>1
<1>3. Stream[k] = c.recv[k] /\ Stream[k + 1] = c.recv[k + 1] /\ k \in DOMAIN Stream
  BY <1>1, <1>2, StreamCells DEF Stream
<1>4. c.recv[k + 1].what = "length"
  BY <1>2, <1>3 DEF IInv, Framed, FrameAt
<1>5. c.recv[k + 1] \in Cell
  BY <1>1, <1>2
<1>6. c.recv[k + 1].n \in Nat
  BY <1>4, <1>5 DEF Cell
<1> QED
  BY <1>2, <1>6 DEF FrameAt

\* Unmasking the payload keeps all other cells, and the kind of each.
LEMMA UnmaskedCells ==
  ASSUME c \in Conn, NEW n \in Nat, n = c.recv[c.ofs + 2].n, c.ofs + 2 + n <= Len(c.recv)
  PROVE  /\ Unmasked(c) \in Seq(Cell) /\ Len(Unmasked(c)) = Len(c.recv)
         /\ \A i \in 1 .. Len(c.recv) :
              /\ Starts(Unmasked(c)[i]) <=> Starts(c.recv[i])
              /\ i > c.ofs + 2 + n => Unmasked(c)[i] = c.recv[i]
<1>1. c.recv \in Seq(Cell) /\ c.ofs \in Nat /\ Len(c.recv) \in Nat
  BY DEF Conn
<1>2. Unmasked(c) = [i \in 1 .. Len(c.recv) |->
                       IF i \in c.ofs + 3 .. c.ofs + 2 + n THEN Unmask(c.recv[i]) ELSE c.recv[i]]
  BY DEF Unmasked
<1>3. \A i \in 1 .. Len(c.recv) : c.recv[i] \in Cell
  BY <1>1
<1>4. \A i \in 1 .. Len(c.recv) : Unmasked(c)[i] \in Cell
  BY <1>2, <1>3, UnmaskCell
<1>5. Unmasked(c) \in Seq(Cell) /\ Len(Unmasked(c)) = Len(c.recv)
  <2> DEFINE f(i) == IF i \in c.ofs + 3 .. c.ofs + 2 + n THEN Unmask(c.recv[i]) ELSE c.recv[i]
  <2>1. \A i \in 1 .. Len(c.recv) : f(i) \in Cell
    BY <1>3, UnmaskCell
  <2> HIDE DEF f
  <2>2. [i \in 1 .. Len(c.recv) |-> f(i)] \in Seq(Cell)
    BY <1>1, <2>1
  <2> QED
    BY <1>1, <1>2, <2>2 DEF f
<1>6. \A i \in 1 .. Len(c.recv) : Starts(Unmasked(c)[i]) <=> Starts(c.recv[i])
  BY <1>2, <1>3, UnmaskCell
<1>7. \A i \in 1 .. Len(c.recv) : i > c.ofs + 2 + n => Unmasked(c)[i] = c.recv[i]
  <2> SUFFICES ASSUME NEW i \in 1 .. Len(c.recv), i > c.ofs + 2 + n
               PROVE  Unmasked(c)[i] = c.recv[i]
    OBVIOUS
  <2>1. i \notin c.ofs + 3 .. c.ofs + 2 + n
    BY <1>1
  <2> QED
    BY <1>2, <2>1
<1> QED
  BY <1>5, <1>6, <1>7

\* What a control frame does leaves the buffer alone.
LEMMA ControlledType ==
  ASSUME NEW d \in Conn, NEW op, NEW data \in Seq(Cell)
  PROVE  /\ Controlled(d, op, data) \in Conn
         /\ Controlled(d, op, data).recv = d.recv
         /\ Controlled(d, op, data).ofs = d.ofs
         /\ Controlled(d, op, data).pfn = d.pfn
<1>1. CASE op = "ping"
  <2>1. [pong |-> data] \in Sent
    BY DEF Sent
  <2>2. d.send \o <<[pong |-> data]>> \in Seq(Sent)
    BY <2>1 DEF Conn
  <2> QED
    BY <1>1, <2>2 DEF Controlled, Send, Conn
<1>2. CASE op = "close"
  <2>1. [close |-> data] \in Sent
    BY DEF Sent
  <2> DEFINE sent == d.send \o <<[close |-> data]>>
  <2>2. sent \in Seq(Sent)
    BY <2>1 DEF Conn
  <2>3. Controlled(d, op, data) = [d EXCEPT !.send = sent, !.is_draining = TRUE]
    BY <1>2 DEF Controlled, Send, Conn
  <2> HIDE DEF sent
  <2> QED
    BY <2>2, <2>3 DEF Conn
<1>3. CASE op \notin {"ping", "close"}
  BY <1>3 DEF Controlled
<1> QED
  BY <1>1, <1>2, <1>3

\* A cell that is not deleted was there.
LEMMA DelKeeps ==
  ASSUME NEW s \in Seq(Cell), NEW o \in Nat, NEW n \in Nat, o + n <= Len(s),
         NEW i \in 1 .. Len(Del(s, o, n))
  PROVE  \E k \in 1 .. Len(s) : Del(s, o, n)[i] = s[k]
<1>1. Len(Del(s, o, n)) = Len(s) - n /\ Len(s) \in Nat
  BY DelCells
<1>2. CASE i <= o
  <2>1. i \in 1 .. o /\ i \in 1 .. Len(s)
    BY <1>1, <1>2
  <2> QED
    BY <2>1, DelCells
<1>3. CASE i > o
  <2>1. i \in o + 1 .. Len(s) - n
    BY <1>1, <1>3
  <2>2. i + n \in 1 .. Len(s)
    BY <1>1, <2>1
  <2>3. Del(s, o, n)[i] = s[i + n]
    BY <2>1, DelCells
  <2> QED
    BY <2>2, <2>3
<1> QED
  BY <1>1, <1>2, <1>3

\* Of a fragment, its header is taken away, or a part of it.
LEMMA StrippedCells ==
  ASSUME NEW d \in Conn, NEW op, NEW n \in Nat, d.ofs + 2 + n <= Len(d.recv)
  PROVE  LET s == Stripped(d, op, n)
         IN  /\ s \in Conn /\ s.pfn = d.pfn
             /\ \E x \in {1, 2} :
                  /\ Len(s.recv) = Len(d.recv) - x /\ s.ofs + x = d.ofs + n + 2
                  /\ \A i \in 1 .. Len(s.recv) : i > s.ofs => s.recv[i] = d.recv[i + x]
             /\ \A i \in 1 .. Len(s.recv) : \E k \in 1 .. Len(d.recv) : s.recv[i] = d.recv[k]
<1>1. d.ofs \in Nat /\ d.recv \in Seq(Cell) /\ Len(d.recv) \in Nat
  BY DEF Conn
<1>2. PICK x \in {1, 2}, p \in Nat :
        /\ Stripped(d, op, n) = [d EXCEPT !.recv = Del(d.recv, p, x), !.ofs = p + n]
        /\ p + x = d.ofs + 2
  <2>1. CASE op = "cont"
    <3>1. Stripped(d, op, n) = [d EXCEPT !.recv = Del(d.recv, d.ofs, 2), !.ofs = d.ofs + n]
      BY <2>1 DEF Stripped, Conn
    <3> QED
      BY <1>1, <3>1
  <2>2. CASE op # "cont"
    <3> DEFINE p == d.ofs + 1
    <3>1. p \in Nat /\ p + 1 = d.ofs + 2 /\ d.ofs + n + 1 = p + n
      BY <1>1
    <3>2. Stripped(d, op, n) = [d EXCEPT !.recv = Del(d.recv, p, 1), !.ofs = d.ofs + n + 1]
      BY <2>2 DEF Stripped, Conn
    <3> HIDE DEF p
    <3>3. Stripped(d, op, n) = [d EXCEPT !.recv = Del(d.recv, p, 1), !.ofs = p + n]
      BY <3>1, <3>2
    <3> QED
      BY <3>1, <3>3
  <2> QED
    BY <2>1, <2>2
<1> DEFINE q == p + n
           r == Del(d.recv, p, x)
<1>3. /\ x \in Nat /\ q \in Nat /\ p + x <= Len(d.recv)
      /\ q >= p /\ q + x = d.ofs + n + 2
  <2>1. p + x = d.ofs + 2
    BY <1>2
  <2> QED
    BY <1>1, <2>1
<1>4. /\ r \in Seq(Cell) /\ Len(r) = Len(d.recv) - x
      /\ \A i \in p + 1 .. Len(d.recv) - x : r[i] = d.recv[i + x]
  <2> DEFINE b == d.recv
  <2>1. b \in Seq(Cell) /\ p \in Nat /\ x \in Nat /\ p + x <= Len(b)
    BY <1>1, <1>3
  <2> HIDE DEF b
  <2>2. /\ Del(b, p, x) \in Seq(Cell) /\ Len(Del(b, p, x)) = Len(b) - x
        /\ \A i \in 1 .. p : Del(b, p, x)[i] = b[i]
        /\ \A i \in p + 1 .. Len(b) - x : Del(b, p, x)[i] = b[i + x]
    BY <2>1, DelCells
  <2> QED
    BY <2>2 DEF b
<1>5. \A i \in 1 .. Len(r) : \E k \in 1 .. Len(d.recv) : r[i] = d.recv[k]
  BY <1>1, <1>3, DelKeeps
<1>s. Stripped(d, op, n) = [d EXCEPT !.recv = r, !.ofs = q]
  BY <1>2
<1> HIDE DEF q, r
<1>6. ASSUME NEW i \in 1 .. Len(r), i > q PROVE r[i] = d.recv[i + x]
  <2>1. i \in p + 1 .. Len(d.recv) - x
    BY <1>1, <1>3, <1>4, <1>6
  <2> QED
    BY <2>1, <1>4
<1>7. [d EXCEPT !.recv = r, !.ofs = q] \in Conn
  BY <1>3, <1>4 DEF Conn
<1>8. /\ Stripped(d, op, n).recv = r /\ Stripped(d, op, n).ofs = q
      /\ Stripped(d, op, n).pfn = d.pfn
  BY <1>s DEF Conn
<1> QED
  BY <1>s, <1>3, <1>4, <1>5, <1>6, <1>7, <1>8

\* A cell beyond the a-th, when x cells were taken away before the q-th.
LEMMA PlaceBefore ==
  ASSUME NEW i \in Nat, NEW j \in Nat, NEW x \in Nat, NEW a \in Nat,
         NEW m \in Nat, NEW l \in Nat, NEW q \in Nat,
         m = l - x, a + x = q, j = i + a, j <= m, j > a
  PROVE  j + x <= l /\ j + x > q /\ j + x = i + (a + x)
OBVIOUS

\* A frame, whatever its kind: some cells are taken away, those beyond the
\* offset stay as they are, and none becomes a request.
LEMMA FrameTaken ==
  ASSUME IInv, FrameAt(c.recv, c.ofs), ProcessFrame
  PROVE  /\ c' \in Conn /\ c'.pfn = c.pfn
         /\ \E x \in Nat :
              /\ Len(c'.recv) = Len(c.recv) - x
              /\ c'.ofs <= Len(c'.recv) /\ c'.ofs + x >= c.ofs
              /\ \A i \in 1 .. Len(c'.recv) : i > c'.ofs => c'.recv[i] = c.recv[i + x]
         /\ \A i \in 1 .. Len(c'.recv) :
              \E k \in 1 .. Len(c.recv) : Starts(c'.recv[i]) <=> Starts(c.recv[k])
<1> DEFINE o    == c.ofs
           op   == c.recv[o + 1].op
           fin  == c.recv[o + 1].fin
           n    == c.recv[o + 2].n
           u    == Unmasked(c)
           data == SubSeq(u, o + 3, o + 2 + n)
           e    == [c EXCEPT !.recv = u]
           d    == Controlled(e, op, data)
           s    == Stripped(d, op, n)
<1>1. c \in Conn /\ o \in Nat /\ n \in Nat /\ o + 2 + n <= Len(c.recv) /\ Len(c.recv) \in Nat
  BY FrameShape DEF IInv, Typed, Conn
<1>2. /\ u \in Seq(Cell) /\ Len(u) = Len(c.recv)
      /\ \A i \in 1 .. Len(c.recv) :
           /\ Starts(u[i]) <=> Starts(c.recv[i])
           /\ i > o + 2 + n => u[i] = c.recv[i]
  BY <1>1, UnmaskedCells
<1>3. e \in Conn /\ e.recv = u /\ e.ofs = o /\ e.pfn = c.pfn
  BY <1>1, <1>2 DEF Conn
<1>4. data \in Seq(Cell)
  BY <1>1, <1>2
<1> HIDE DEF u, data, e
<1>5. d \in Conn /\ d.recv = u /\ d.ofs = o /\ d.pfn = c.pfn
  BY <1>3, <1>4, ControlledType
<1>6. IF fin /\ op # "cont" THEN c' = [d EXCEPT !.recv = Del(@, d.ofs, n + 2)]
      ELSE IF ~fin THEN c' = s
      ELSE c' = [s EXCEPT !.recv = Del(@, 0, s.ofs), !.ofs = 0]
  BY DEF ProcessFrame, e, u, data
<1> HIDE DEF d, n, o, op, fin
<1>f. n \in Nat /\ d.ofs + 2 + n <= Len(d.recv)
  BY <1>1, <1>2, <1>5
<1>7. /\ s \in Conn /\ s.pfn = c.pfn
      /\ \A i \in 1 .. Len(s.recv) : \E k \in 1 .. Len(u) : s.recv[i] = u[k]
  BY <1>5, <1>f, StrippedCells
<1>8. PICK x \in {1, 2} :
        /\ Len(s.recv) = Len(u) - x /\ s.ofs + x = o + n + 2
        /\ \A i \in 1 .. Len(s.recv) : i > s.ofs => s.recv[i] = u[i + x]
  BY <1>5, <1>f, StrippedCells
<1> HIDE DEF s
<1>t. s.recv \in Seq(Cell) /\ s.ofs \in Nat
  BY <1>7 DEF Conn
<1>l. Len(s.recv) = Len(c.recv) - x /\ s.ofs + x = o + n + 2 /\ s.ofs <= Len(s.recv)
  <2>1. Len(s.recv) = Len(c.recv) - x /\ s.ofs + x = o + n + 2
    BY <1>2, <1>8
  <2> QED
    BY <1>1, <1>t, <2>1
<1>9. CASE fin /\ op # "cont"
  <2> DEFINE r == Del(u, o, n + 2)
  <2>1. c' = [d EXCEPT !.recv = r]
    BY <1>5, <1>6, <1>9
  <2>2. n + 2 \in Nat /\ o + (n + 2) <= Len(u)
    BY <1>1, <1>2
  <2>3. /\ r \in Seq(Cell) /\ Len(r) = Len(u) - (n + 2)
        /\ \A i \in o + 1 .. Len(u) - (n + 2) : r[i] = u[i + (n + 2)]
    BY <1>1, <1>2, <2>2, DelCells
  <2>4. \A i \in 1 .. Len(r) : \E k \in 1 .. Len(u) : r[i] = u[k]
    BY <1>1, <1>2, <2>2, DelKeeps
  <2> HIDE DEF r
  <2>5. c' \in Conn /\ c'.recv = r /\ c'.ofs = o /\ c'.pfn = c.pfn
    BY <2>1, <2>3, <1>5 DEF Conn
  <2>6. ASSUME NEW i \in 1 .. Len(r), i > o PROVE r[i] = c.recv[i + (n + 2)]
    <3>1. i \in o + 1 .. Len(u) - (n + 2)
      BY <1>1, <2>3, <2>6
    <3>2. PICK k \in 1 .. Len(c.recv) : k = i + (n + 2) /\ k > o + 2 + n
      BY <1>1, <1>2, <3>1
    <3>3. u[k] = c.recv[k]
      BY <1>2, <3>2
    <3> QED
      BY <2>3, <3>1, <3>2, <3>3
  <2>7. Len(r) = Len(c.recv) - (n + 2) /\ o <= Len(r) /\ o + (n + 2) >= o
    BY <1>1, <1>2, <2>2, <2>3
  <2> QED
    BY <1>2, <2>2, <2>4, <2>5, <2>6, <2>7 DEF o
<1>10. CASE ~fin
  <2>1. c' = s
    BY <1>6, <1>10
  <2>2. ASSUME NEW i \in 1 .. Len(s.recv), i > s.ofs PROVE s.recv[i] = c.recv[i + x]
    <3> DEFINE k == i + x
    <3>1. k \in 1 .. Len(c.recv) /\ k > o + 2 + n
      BY <1>1, <1>l, <1>t, <2>2
    <3>2. s.recv[i] = u[k]
      BY <1>8, <2>2
    <3> HIDE DEF k
    <3>3. u[k] = c.recv[k]
      BY <1>2, <3>1
    <3> QED
      BY <3>2, <3>3 DEF k
  <2>3. Len(s.recv) = Len(c.recv) - x /\ s.ofs <= Len(s.recv) /\ s.ofs + x >= o /\ x \in Nat
    BY <1>1, <1>l, <1>t
  <2> QED
    BY <1>2, <1>7, <2>1, <2>2, <2>3 DEF o
<1>11. CASE fin /\ op = "cont"
  <2> DEFINE r == Del(s.recv, 0, s.ofs)
             y == s.ofs + x
  <2>1. c' = [s EXCEPT !.recv = r, !.ofs = 0]
    BY <1>6, <1>11
  <2>2. 0 \in Nat /\ 0 + s.ofs <= Len(s.recv) /\ y \in Nat /\ y = o + n + 2 /\ Len(s.recv) \in Nat
    <3>1. Len(s.recv) \in Nat
      BY <1>t
    <3>2. y \in Nat /\ y = o + n + 2
      BY <1>l, <1>t
    <3>3. 0 + s.ofs = s.ofs
      BY <1>t
    <3> HIDE DEF y
    <3> QED
      BY <1>l, <3>1, <3>2, <3>3
  <2>3. /\ r \in Seq(Cell) /\ Len(r) = Len(s.recv) - s.ofs
        /\ \A i \in 0 + 1 .. Len(s.recv) - s.ofs : r[i] = s.recv[i + s.ofs]
    BY <1>t, <2>2, DelCells
  <2>4. \A i \in 1 .. Len(r) : \E k \in 1 .. Len(s.recv) : r[i] = s.recv[k]
    BY <1>t, <2>2, DelKeeps
  <2> HIDE DEF r
  <2>5. c' \in Conn /\ c'.recv = r /\ c'.ofs = 0 /\ c'.pfn = c.pfn
    BY <2>1, <2>3, <1>7 DEF Conn
  <2>6. ASSUME NEW i \in 1 .. Len(r) PROVE r[i] = c.recv[i + y]
    <3>1. i \in 0 + 1 .. Len(s.recv) - s.ofs
      BY <2>3
    <3>2. PICK j \in 1 .. Len(s.recv) : j = i + s.ofs /\ j > s.ofs
      BY <1>t, <3>1
    <3>a. j \in Nat /\ j + x <= Len(c.recv) /\ j + x > o + n + 2 /\ j + x = i + y
      <4> DEFINE a == s.ofs
                 m == Len(s.recv)
                 l == Len(c.recv)
                 q == o + n + 2
      <4>1. i \in Nat /\ j \in Nat /\ j <= m /\ m \in Nat
        BY <1>t
      <4>2. /\ x \in Nat /\ a \in Nat /\ l \in Nat /\ q \in Nat
            /\ m = l - x /\ a + x = q /\ j = i + a /\ j > a
        BY <1>1, <1>l, <1>t, <3>2
      <4> HIDE DEF a, m, l, q
      <4>3. j + x <= l /\ j + x > q /\ j + x = i + (a + x)
        BY <4>1, <4>2, PlaceBefore
      <4> QED
        BY <4>1, <4>2, <4>3 DEF a, l, q
    <3>3. PICK k \in 1 .. Len(c.recv) : k = j + x /\ k = i + y /\ k > o + 2 + n
      BY <1>1, <3>a
    <3>4. u[k] = c.recv[k]
      BY <1>2, <3>3
    <3>5. r[i] = s.recv[j] /\ s.recv[j] = u[k]
      BY <1>8, <2>3, <3>1, <3>2, <3>3
    <3> QED
      BY <3>3, <3>4, <3>5
  <2>7. Len(r) = Len(c.recv) - y /\ 0 <= Len(r) /\ 0 + y >= o /\ y \in Nat
    <3>1. /\ Len(s.recv) = Len(c.recv) - x /\ s.ofs \in Nat /\ s.ofs <= Len(s.recv)
          /\ Len(r) = Len(s.recv) - s.ofs
      BY <1>l, <1>t, <2>3
    <3> QED
      BY <3>1, <2>2, <1>1
  <2>8. \A i \in 1 .. Len(r) : \E k \in 1 .. Len(c.recv) : Starts(r[i]) <=> Starts(c.recv[k])
    <3> SUFFICES ASSUME NEW i \in 1 .. Len(r)
                 PROVE  \E k \in 1 .. Len(c.recv) : Starts(r[i]) <=> Starts(c.recv[k])
      OBVIOUS
    <3>1. PICK j \in 1 .. Len(s.recv) : r[i] = s.recv[j]
      BY <2>4
    <3>2. PICK k \in 1 .. Len(u) : s.recv[j] = u[k]
      BY <1>7
    <3>3. k \in 1 .. Len(c.recv) /\ (Starts(u[k]) <=> Starts(c.recv[k]))
      BY <1>2
    <3> QED
      BY <3>1, <3>2, <3>3
  <2> HIDE DEF y
  <2> QED
    BY <2>5, <2>6, <2>7, <2>8 DEF o
<1> QED
  BY <1>9, <1>10, <1>11

(***************************************************************************)
(* The steps that leave the stream alone                                   *)
(***************************************************************************)
\* An event counts no session.
LEMMA NotifiedType ==
  ASSUME session \in [created : Nat, deleted : Nat, stale : BOOLEAN]
  PROVE  /\ Notified(session) \in [created : Nat, deleted : Nat, stale : BOOLEAN]
         /\ Notified(session).created = session.created
         /\ Notified(session).deleted = session.deleted
BY DEF Notified

\* What such a step has to keep.
LEMMA Quiet ==
  ASSUME IInv, Typed', Placed',
         Stream' = Stream, c'.ofs = c.ofs,
         at' # "gone" => session'.deleted = 0,
         session'.deleted <= session'.created
  PROVE  IInv'
<1>1. Framed(Stream, c.ofs)'
  BY DEF IInv, Framed
<1> QED
  BY <1>1 DEF IInv, Deleting

\* Reading moves cells from one part of the stream to the other.
LEMMA ReadCells ==
  ASSUME NEW s \in Seq(Cell), NEW w \in Seq(Cell), NEW n \in 1 .. Len(w)
  PROVE  /\ s \o SubSeq(w, 1, n) \in Seq(Cell) /\ SubSeq(w, n + 1, Len(w)) \in Seq(Cell)
         /\ Len(s \o SubSeq(w, 1, n)) = Len(s) + n
         /\ (s \o SubSeq(w, 1, n)) \o SubSeq(w, n + 1, Len(w)) = s \o w
<1> DEFINE front == SubSeq(w, 1, n)
           back  == SubSeq(w, n + 1, Len(w))
<1>1. front \in Seq(Cell) /\ Len(front) = n
  OBVIOUS
<1>2. back \in Seq(Cell)
  OBVIOUS
<1>3. front \o back = w
  <2>1. 1 \in 1 .. Len(w) + 1 /\ n \in 1 - 1 .. Len(w) /\ Len(w) \in n .. Len(w)
    OBVIOUS
  <2>2. SubSeq(w, 1, n) \o SubSeq(w, n + 1, Len(w)) = SubSeq(w, 1, Len(w))
    BY <2>1, ConcatAdjacentSubSeq
  <2> QED
    BY <2>2, SubSeqFull
<1> HIDE DEF front, back
<1>4. (s \o front) \o back = s \o (front \o back)
  <2>1. s \in Seq(Cell) /\ front \in Seq(Cell) /\ back \in Seq(Cell)
    BY <1>1, <1>2
  <2> QED
    BY <2>1, CellsAssociative
<1>5. s \o front \in Seq(Cell) /\ Len(s \o front) = Len(s) + n
  BY <1>1, ConcatProperties
<1> QED
  BY <1>1, <1>2, <1>3, <1>4, <1>5 DEF front, back

\* MG_EV_POLL.
LEMMA PollStep == IInv /\ Poll => IInv'
<1> SUFFICES ASSUME IInv, Poll PROVE IInv'
  OBVIOUS
<1>1. c \in Conn /\ (c.pfn = "static" => c.is_resp)
  BY DEF IInv, Typed, Placed
<1>2. c' = Handled(c) /\ c' \in Conn /\ c'.recv = c.recv /\ c'.ofs = c.ofs
  BY <1>1, HandledType DEF Poll
<1>3. /\ c'.pfn = "static" => c'.is_resp
      /\ c.pfn # "static" => c' = c
      /\ c'.pfn = "ws" <=> c.pfn = "ws"
  BY <1>1, <1>2, HandledType DEF Handled
<1>4. loop = "none" /\ parsed = 0 /\ parsed' = 0 /\ at = "poll" /\ at' = "read"
      /\ UNCHANGED <<session, wire, client>>
  BY DEF Poll, IInv, Placed
<1>5. \/ loop' = "none"
      \/ loop' = "http" /\ c'.pfn # "ws" /\ c.pfn # "ws"
  <2>1. CASE c.is_resp /\ ~c'.is_resp
    <3>1. c.pfn = "static"
      BY <1>3, <2>1
    <3>2. ReadEvent(Handled(c))
      BY <1>2, <2>1 DEF Poll
    <3>3. loop' = IF c'.pfn = "static" THEN "none" ELSE c'.pfn
      BY <1>2, <3>2 DEF ReadEvent
    <3>4. c'.pfn # "ws" /\ c.pfn # "ws" /\ c'.pfn \in {"http", "static", "ws"}
      BY <1>2, <1>3, <3>1 DEF Conn
    <3> QED
      BY <3>3, <3>4
  <2>2. CASE ~(c.is_resp /\ ~c'.is_resp)
    BY <1>2, <1>4, <2>2 DEF Poll
  <2> QED
    BY <2>1, <2>2
<1>6. Typed'
  BY <1>2, <1>4, <1>5 DEF IInv, Typed
<1>7. Placed'
  BY <1>2, <1>3, <1>4, <1>5 DEF IInv, Placed
<1>8. Stream' = Stream
  BY <1>2, <1>4 DEF Stream
<1>9. session'.deleted = 0 /\ session'.deleted <= session'.created
  BY <1>4 DEF IInv, Deleting
<1> QED
  BY <1>2, <1>6, <1>7, <1>8, <1>9, Quiet

\* read_conn: the stream is the same.
LEMMA ReadStep == IInv /\ Read => IInv'
<1> SUFFICES ASSUME IInv, Read PROVE IInv'
  OBVIOUS
<1>1. /\ at = "read" /\ at' \in {"end", "write"} /\ loop = "none" /\ parsed = 0 /\ parsed' = 0
      /\ UNCHANGED <<session, client>> /\ c \in Conn /\ wire \in Seq(Cell)
      /\ c.ofs <= Len(c.recv)
  BY DEF Read, IInv, Placed, Typed
<1>2. session'.deleted = 0 /\ session'.deleted <= session'.created
  BY <1>1 DEF IInv, Deleting
<1>3. CASE c' = c /\ loop' = loop /\ wire' = wire
  <2>1. Typed' /\ Placed' /\ Stream' = Stream
    BY <1>1, <1>3 DEF IInv, Typed, Placed, Stream
  <2> QED
    BY <1>1, <1>2, <1>3, <2>1, Quiet
<1>4. CASE c' \in {Fail(c), [c EXCEPT !.is_closing = TRUE]} /\ loop' = loop /\ wire' = wire
  <2>1. /\ c' \in Conn /\ c'.recv = c.recv /\ c'.ofs = c.ofs /\ c'.pfn = c.pfn
        /\ c'.is_resp = c.is_resp /\ c'.is_closing
    BY <1>1, <1>4 DEF Fail, Conn
  <2>2. Typed' /\ Placed' /\ Stream' = Stream
    BY <1>1, <1>4, <2>1 DEF IInv, Typed, Placed, Stream
  <2> QED
    BY <1>1, <1>2, <2>1, <2>2, Quiet
<1>5. CASE /\ ~c.is_closing
           /\ \E n \in 1 .. Len(wire) :
                /\ c' = [c EXCEPT !.recv = @ \o SubSeq(wire, 1, n)]
                /\ wire' = SubSeq(wire, n + 1, Len(wire))
                /\ ReadEvent(c)
  <2>1. PICK n \in 1 .. Len(wire) :
               /\ c' = [c EXCEPT !.recv = @ \o SubSeq(wire, 1, n)]
               /\ wire' = SubSeq(wire, n + 1, Len(wire))
               /\ ReadEvent(c)
    BY <1>5
  <2> DEFINE r == c.recv \o SubSeq(wire, 1, n)
  <2>2. /\ r \in Seq(Cell) /\ wire' \in Seq(Cell) /\ Len(r) = Len(c.recv) + n /\ r \o wire' = Stream
    BY <1>1, <2>1, ReadCells DEF Conn, Stream
  <2>3. c' = [c EXCEPT !.recv = r]
    BY <1>1, <2>1 DEF Conn
  <2> HIDE DEF r
  <2>4. /\ c' \in Conn /\ c'.recv = r /\ c'.ofs = c.ofs /\ c'.pfn = c.pfn
        /\ c'.is_resp = c.is_resp
    BY <1>1, <2>2, <2>3 DEF Conn
  <2>5. loop' = IF c.pfn = "static" THEN "none" ELSE c.pfn
    BY <2>1 DEF ReadEvent
  <2>6. c'.ofs <= Len(c'.recv) /\ Len(c'.recv) \in Nat
    BY <1>1, <2>2, <2>4 DEF Conn
  <2>7. loop' \in {"none", "http", "ws"}
    BY <1>1, <2>5 DEF Conn
  <2>8. Typed'
    <3>1. parsed' \in 0 .. Len(c'.recv)
      BY <1>1, <2>6
    <3> QED
      BY <1>1, <2>2, <2>4, <2>6, <2>7, <3>1 DEF IInv, Typed
  <2>9. Placed'
    BY <1>1, <2>4, <2>5 DEF IInv, Placed
  <2>10. Stream' = Stream
    BY <2>2, <2>4 DEF Stream
  <2> QED
    BY <1>1, <1>2, <2>4, <2>8, <2>9, <2>10, Quiet
<1> QED
  BY <1>3, <1>4, <1>5 DEF Read

\* write_conn.
LEMMA WriteStep == IInv /\ Write => IInv'
<1> SUFFICES ASSUME IInv, Write PROVE IInv'
  OBVIOUS
<1>1. /\ at = "write" /\ at' = "end" /\ loop = "none" /\ loop' = "none" /\ parsed = 0 /\ parsed' = 0
      /\ UNCHANGED <<session, wire>> /\ c \in Conn /\ client \in Client
      /\ (c.pfn = "static" => c.is_resp)
  BY DEF Write, IInv, Placed, Typed
<1>2. session'.deleted = 0 /\ session'.deleted <= session'.created
  BY <1>1 DEF IInv, Deleting
<1>3. ASSUME c' \in Conn, c'.recv = c.recv, c'.ofs = c.ofs, c'.pfn = "ws" <=> c.pfn = "ws",
             c'.pfn = "static" => c'.is_resp, client' \in Client
      PROVE  IInv'
  <2>1. Typed' /\ Placed' /\ Stream' = Stream
    BY <1>1, <1>3 DEF IInv, Typed, Placed, Stream
  <2> QED
    BY <1>1, <1>2, <1>3, <2>1, Quiet
<1>4. CASE UNCHANGED <<c, client>>
  BY <1>1, <1>3, <1>4
<1>5. CASE c' = [c EXCEPT !.is_closing = TRUE] /\ UNCHANGED client
  <2>1. /\ c' \in Conn /\ c'.recv = c.recv /\ c'.ofs = c.ofs /\ c'.pfn = c.pfn
        /\ c'.is_resp = c.is_resp /\ c'.is_closing
    BY <1>1, <1>5 DEF Conn
  <2> QED
    BY <1>1, <1>3, <1>5, <2>1
<1>6. ASSUME NEW n \in 1 .. Len(c.send),
             c' = Handled([c EXCEPT !.send = Del(@, 0, n)]),
             client' = [client EXCEPT !.got = @ \o SubSeq(c.send, 1, n)]
      PROVE  IInv'
  <2> DEFINE rest == Del(c.send, 0, n)
             got  == client.got \o SubSeq(c.send, 1, n)
             d    == [c EXCEPT !.send = rest]
  <2>1. c.send \in Seq(Sent) /\ client.got \in Seq(Sent)
    BY <1>1 DEF Conn, Client
  <2>2. rest \in Seq(Sent)
    BY <2>1 DEF Del
  <2>3. got \in Seq(Sent)
    BY <2>1
  <2>4. client' = [client EXCEPT !.got = got] /\ c' = Handled(d)
    BY <1>1, <1>6 DEF Conn, Client
  <2> HIDE DEF rest, got
  <2>5. client' \in Client /\ client'.asked = client.asked
    BY <1>1, <2>3, <2>4 DEF Client
  <2>6. /\ d \in Conn /\ d.recv = c.recv /\ d.ofs = c.ofs /\ d.pfn = c.pfn
        /\ d.is_resp = c.is_resp /\ d.is_closing = c.is_closing
    BY <1>1, <2>2 DEF Conn
  <2> HIDE DEF d
  <2>7. /\ c' \in Conn /\ c'.recv = c.recv /\ c'.ofs = c.ofs
        /\ c'.pfn = "static" => c'.is_resp
        /\ c'.pfn = "ws" => c.pfn = "ws"
    BY <1>1, <2>4, <2>6, HandledType
  <2>8. c.pfn = "ws" => c'.pfn = "ws" /\ c'.is_closing = c.is_closing
    BY <2>4, <2>6 DEF Handled
  <2> QED
    BY <1>3, <2>5, <2>7, <2>8
<1> QED
  BY <1>4, <1>5, <1>6 DEF Write

\* The end of a visit, with MG_EV_CLOSE.
LEMMA EndStep == IInv /\ End => IInv'
<1> SUFFICES ASSUME IInv, End PROVE IInv'
  OBVIOUS
<1>1. /\ at = "end" /\ loop = "none" /\ parsed = 0 /\ parsed' = 0
      /\ UNCHANGED <<wire, client>> /\ c \in Conn 
      /\ session \in [created : Nat, deleted : Nat, stale : BOOLEAN] /\ session.deleted = 0
  BY DEF End, IInv, Placed, Typed, Deleting
<1>2. CASE UNCHANGED <<c, loop, session>> /\ at' = "poll"
  <2>1. Typed' /\ Placed' /\ Stream' = Stream
    BY <1>1, <1>2 DEF IInv, Typed, Placed, Stream
  <2>2. session'.deleted = 0 /\ session'.deleted <= session'.created
    BY <1>1, <1>2
  <2> QED
    BY <1>1, <1>2, <2>1, <2>2, Quiet
<1>3. CASE /\ at' = "gone"
           /\ session' = [session EXCEPT !.deleted = @ + (IF session.created > 0 THEN 1 ELSE 0)]
           /\ loop' = (IF c.pfn = "http" THEN "http" ELSE "none")
           /\ c' = [c EXCEPT !.is_closing = TRUE]
  <2>1. /\ c' \in Conn /\ c'.recv = c.recv /\ c'.ofs = c.ofs /\ c'.pfn = c.pfn
        /\ c'.is_resp = c.is_resp /\ c'.is_closing
    BY <1>1, <1>3 DEF Conn
  <2>2. /\ session' \in [created : Nat, deleted : Nat, stale : BOOLEAN]
        /\ session'.deleted <= session'.created
    BY <1>1, <1>3
  <2>3. Typed'
    BY <1>1, <1>3, <2>1, <2>2 DEF IInv, Typed
  <2>4. Placed' /\ Stream' = Stream
    BY <1>1, <1>3, <2>1 DEF IInv, Placed, Stream
  <2> QED
    BY <1>1, <1>3, <2>1, <2>2, <2>3, <2>4, Quiet
<1> QED
  BY <1>2, <1>3 DEF End

\* http_cb finds no request.
LEMMA GarbledStep == IInv /\ HttpGarbled => IInv'
<1> SUFFICES ASSUME IInv, HttpGarbled PROVE IInv'
  OBVIOUS
<1>1. /\ loop = "http" /\ loop' = "none" /\ parsed' = 0 /\ c' = Fail(c) /\ c \in Conn
      /\ session' = Notified(session) /\ UNCHANGED <<at, wire, client>>
  BY DEF HttpGarbled, IInv, Typed
<1>2. /\ c' \in Conn /\ c'.recv = c.recv /\ c'.ofs = c.ofs /\ c'.pfn = c.pfn
      /\ c'.is_resp = c.is_resp /\ c'.is_closing
  BY <1>1 DEF Fail, Conn
<1>3. parsed' \in 0 .. Len(c'.recv)
  BY <1>1, <1>2 DEF Conn
<1>4. /\ session' \in [created : Nat, deleted : Nat, stale : BOOLEAN]
      /\ session'.created = session.created /\ session'.deleted = session.deleted
  BY <1>1, NotifiedType DEF IInv, Typed
<1>5. Typed'
  BY <1>1, <1>2, <1>3, <1>4 DEF IInv, Typed
<1>6. Placed' /\ Stream' = Stream
  BY <1>1, <1>2 DEF IInv, Placed, Stream
<1>7. (at' # "gone" => session'.deleted = 0) /\ session'.deleted <= session'.created
  BY <1>1, <1>4 DEF IInv, Deleting
<1> QED
  BY <1>2, <1>5, <1>6, <1>7, Quiet

\* mg_ws_cb finds what is no frame.
LEMMA WsGarbledStep == IInv /\ WsGarbled => IInv'
<1> SUFFICES ASSUME IInv, WsGarbled PROVE IInv'
  OBVIOUS
<1>1. /\ loop = "ws" /\ loop' = "none" /\ c' = Fail(c) /\ c \in Conn
      /\ UNCHANGED <<at, parsed, session, wire, client>>
  BY DEF WsGarbled, IInv, Typed
<1>2. /\ c' \in Conn /\ c'.recv = c.recv /\ c'.ofs = c.ofs /\ c'.pfn = c.pfn
      /\ c'.is_resp = c.is_resp
  BY <1>1 DEF Fail, Conn
<1>3. Typed' /\ Placed' /\ Stream' = Stream
  BY <1>1, <1>2 DEF IInv, Typed, Placed, Stream
<1>4. (at' # "gone" => session'.deleted = 0) /\ session'.deleted <= session'.created
  BY <1>1 DEF IInv, Deleting
<1> QED
  BY <1>2, <1>3, <1>4, Quiet

\* mg_ws_cb finds no whole frame.
LEMMA WsDoneStep == IInv /\ WsDone => IInv'
<1> SUFFICES ASSUME IInv, WsDone PROVE IInv'
  OBVIOUS
<1>1. /\ loop = "ws" /\ loop' = "none"
      /\ UNCHANGED <<c, at, parsed, session, wire, client>>
  BY DEF WsDone
<1>2. Typed' /\ Placed' /\ Stream' = Stream
  BY <1>1 DEF IInv, Typed, Placed, Stream
<1>3. (at' # "gone" => session'.deleted = 0) /\ session'.deleted <= session'.created
  BY <1>1 DEF IInv, Deleting
<1> QED
  BY <1>1, <1>2, <1>3, Quiet

\* The client closes.
LEMMA HangUpStep == IInv /\ HangUp => IInv'
<1> SUFFICES ASSUME IInv, HangUp PROVE IInv'
  OBVIOUS
<1>1. client' = [client EXCEPT !.hungup = TRUE] /\ client \in Client
      /\ UNCHANGED <<c, at, loop, parsed, session, wire>>
  BY DEF HangUp, IInv, Typed
<1>2. client' \in Client
  BY <1>1 DEF Client
<1>3. Typed' /\ Placed' /\ Stream' = Stream
  BY <1>1, <1>2 DEF IInv, Typed, Placed, Stream
<1>4. (at' # "gone" => session'.deleted = 0) /\ session'.deleted <= session'.created
  BY <1>1 DEF IInv, Deleting
<1> QED
  BY <1>1, <1>3, <1>4, Quiet

(***************************************************************************)
(* The steps of the parsers                                                *)
(***************************************************************************)
\* A request is delivered: nothing moves but the parser's own offset.
LEMMA MessageStep == IInv /\ HttpMessage => IInv'
<1> SUFFICES ASSUME IInv, HttpMessage PROVE IInv'
  OBVIOUS
<1> DEFINE k == parsed + 1
           r == c.recv[k]
<1>1. /\ loop = "http" /\ loop' = "http" /\ ~c.is_resp /\ Complete(c.recv, parsed)
      /\ c' = Served(c, r.kind, r.id)
      /\ session' = IF r.kind = "upgrade" THEN AddSession(Notified(session)) ELSE Notified(session)
      /\ parsed' = IF Closing THEN Len(c.recv) ELSE parsed + 2
      /\ UNCHANGED <<at, wire, client>>
  BY DEF HttpMessage
<1>2. /\ c \in Conn /\ c.recv \in Seq(Cell) /\ wire \in Seq(Cell) /\ Len(c.recv) \in Nat
      /\ parsed \in Nat /\ session \in [created : Nat, deleted : Nat, stale : BOOLEAN]
      /\ c.ofs = 0 /\ c.pfn # "static"
  BY <1>1 DEF IInv, Typed, Placed, Conn
<1>3. k \in 1 .. Len(c.recv) /\ parsed + 2 <= Len(c.recv) /\ Starts(r)
  BY <1>1, <1>2 DEF Complete, Starts
<1>4. r \in Cell
  BY <1>2, <1>3
<1>5. r.kind \in Request /\ r.id \in Nat
  BY <1>3, <1>4 DEF Starts, Cell
<1> HIDE DEF r
<1>6. /\ c' \in Conn /\ c'.recv = c.recv /\ c'.ofs = 0
      /\ c'.pfn = "static" => c'.is_resp
  BY <1>1, <1>2, <1>5, ServedType
<1>7. parsed' \in 0 .. Len(c'.recv)
  BY <1>1, <1>2, <1>3, <1>6
<1>8. /\ session' \in [created : Nat, deleted : Nat, stale : BOOLEAN]
      /\ session'.deleted = session.deleted /\ session'.created >= session.created
  <2> DEFINE n == Notified(session)
  <2>1. /\ n \in [created : Nat, deleted : Nat, stale : BOOLEAN]
        /\ n.created = session.created /\ n.deleted = session.deleted
    BY <1>2, NotifiedType
  <2>2. session' = IF r.kind = "upgrade" THEN AddSession(n) ELSE n
    BY <1>1
  <2> HIDE DEF n
  <2> QED
    BY <1>2, <2>1, <2>2 DEF AddSession
<1>9. Typed'
  BY <1>1, <1>6, <1>7, <1>8 DEF IInv, Typed
<1>10. Placed'
  BY <1>1, <1>6 DEF Placed
<1>11. Framed(Stream, c.ofs)'
  <2>1. Stream' = Stream
    BY <1>1, <1>6 DEF Stream
  <2> QED
    BY <1>2, <1>6, <2>1 DEF IInv, Framed
<1>12. Deleting'
  BY <1>1, <1>2, <1>8 DEF IInv, Deleting
<1> QED
  BY <1>9, <1>10, <1>11, <1>12 DEF IInv

\* What was parsed is taken away: what was beyond it is beyond the beginning.
LEMMA DoneStep == IInv /\ HttpDone => IInv'
<1> SUFFICES ASSUME IInv, HttpDone PROVE IInv'
  OBVIOUS
<1> DEFINE s == c.recv
           o == 0
           t == Del(s, o, parsed)
<1>1. /\ loop = "http" /\ loop' = "none" /\ parsed' = 0
      /\ c' = [c EXCEPT !.recv = Del(@, 0, parsed)]
      /\ UNCHANGED <<at, session, wire, client>>
  BY DEF HttpDone
<1>2. /\ c \in Conn /\ s \in Seq(Cell) /\ wire \in Seq(Cell) /\ Len(s) \in Nat
      /\ parsed \in Nat /\ parsed <= Len(s) /\ o + parsed <= Len(s) /\ c.ofs = o /\ o \in Nat
  BY <1>1 DEF IInv, Typed, Placed, Conn
<1>4. c' = [c EXCEPT !.recv = t]
  BY <1>1, <1>2 DEF Conn
<1>z. o = 0
  OBVIOUS
<1> HIDE DEF s, o
<1>3. /\ t \in Seq(Cell) /\ Len(t) = Len(s) - parsed
      /\ \A i \in o + 1 .. Len(s) - parsed : t[i] = s[i + parsed]
  BY <1>2, DelCells
<1> HIDE DEF t
<1>5. /\ c' \in Conn /\ c'.recv = t /\ c'.ofs = o /\ c'.pfn = c.pfn
      /\ c'.is_resp = c.is_resp
  BY <1>2, <1>3, <1>4 DEF Conn
<1>6. \A i \in 1 .. Len(t) : i > o => t[i] = s[i + parsed]
  BY <1>2, <1>3, <1>z
<1>7. /\ Len(t) \in Nat /\ o <= Len(t) /\ o + parsed >= o
  BY <1>2, <1>3, <1>z
<1>a. /\ s \in Seq(Cell) /\ t \in Seq(Cell) /\ wire \in Seq(Cell) /\ parsed \in Nat /\ o \in Nat
      /\ Len(t) = Len(s) - parsed /\ o <= Len(t) /\ o + parsed >= o
  BY <1>2, <1>3, <1>7
<1>b. /\ Len(t \o wire) = Len(s \o wire) - parsed
      /\ \A i \in DOMAIN (t \o wire) :
           i > o => i + parsed \in DOMAIN (s \o wire) /\ i + parsed > o /\ (t \o wire)[i] = (s \o wire)[i + parsed]
      /\ Framed(s \o wire, o) => Framed(t \o wire, o)
  BY <1>a, <1>6, StreamShift
<1>8. Framed(s \o wire, o) => Framed(t \o wire, o)
  BY <1>b
<1>9. Stream = s \o wire /\ Stream' = t \o wire
  BY <1>1, <1>5 DEF Stream, s
<1>11. Framed(Stream, c.ofs)'
  BY <1>2, <1>5, <1>8, <1>9 DEF IInv
<1>12. Typed'
  <2>1. parsed' \in 0 .. Len(c'.recv) /\ c'.ofs <= Len(c'.recv)
    BY <1>1, <1>5, <1>7, <1>z
  <2> QED
    BY <1>1, <1>5, <2>1 DEF IInv, Typed
<1>13. Placed'
  BY <1>1, <1>5, <1>z DEF IInv, Placed
<1>14. Deleting'
  BY <1>1 DEF IInv, Deleting
<1> QED
  BY <1>11, <1>12, <1>13, <1>14 DEF IInv

\* A frame: what is beyond it is as it was.
LEMMA FrameStep == IInv /\ WsFrame => IInv'
<1> SUFFICES ASSUME IInv, WsFrame PROVE IInv'
  OBVIOUS
<1> DEFINE s == c.recv
           t == c'.recv
           p == c'.ofs
           o == c.ofs
<1>1. /\ loop = "ws" /\ FrameAt(c.recv, c.ofs) /\ ProcessFrame
      /\ UNCHANGED <<at, loop, parsed, session, wire, client>>
  BY DEF WsFrame
<1>2. /\ s \in Seq(Cell) /\ wire \in Seq(Cell) /\ parsed = 0 /\ c.pfn = "ws" /\ o \in Nat
  BY <1>1 DEF IInv, Typed, Placed, Conn
<1>3. c' \in Conn /\ c'.pfn = c.pfn
  BY <1>1, FrameTaken
<1>4. PICK x \in Nat :
        /\ Len(t) = Len(s) - x /\ p <= Len(t) /\ p + x >= o
        /\ \A i \in 1 .. Len(t) : i > p => t[i] = s[i + x]
  BY <1>1, FrameTaken
<1>5. t \in Seq(Cell) /\ p \in Nat /\ Len(t) \in Nat
  BY <1>3 DEF Conn
<1> HIDE DEF s, t, p, o
<1>6. Framed(s \o wire, o) => Framed(t \o wire, p)
  BY <1>2, <1>4, <1>5, StreamShift
<1>7. Stream = s \o wire /\ Stream' = t \o wire
  BY <1>1 DEF Stream, s, t
<1>8. Framed(Stream, c.ofs)'
  BY <1>6, <1>7 DEF IInv, o, p
<1>12. Deleting'
  BY <1>1 DEF IInv, Deleting
<1>13. Typed'
  <2>1. parsed' \in 0 .. Len(c'.recv) /\ c'.ofs <= Len(c'.recv)
    BY <1>1, <1>2, <1>4, <1>5 DEF t, p
  <2> QED
    BY <1>1, <1>3, <2>1 DEF IInv, Typed
<1>14. Placed'
  BY <1>1, <1>2, <1>3 DEF IInv, Placed
<1> QED
  BY <1>8, <1>12, <1>13, <1>14 DEF IInv

(***************************************************************************)
(* The steps of the client                                                 *)
(***************************************************************************)
\* What the client sends is added to the end of the stream.
LEMMA StreamGrows ==
  ASSUME IInv, NEW x \in Seq(Cell), wire' = wire \o x,
         UNCHANGED <<c, at, loop, parsed, session>>, client' \in Client
  PROVE  /\ Typed' /\ Placed'
         /\ Stream \in Seq(Cell) /\ Len(Stream') = Len(Stream) + Len(x)
         /\ DOMAIN Stream = 1 .. Len(Stream) /\ DOMAIN Stream' = 1 .. Len(Stream) + Len(x)
         /\ \A i \in 1 .. Len(Stream) : Stream'[i] = Stream[i]
         /\ \A i \in Len(Stream) + 1 .. Len(Stream) + Len(x) : Stream'[i] = x[i - Len(Stream)]
<1>1. c.recv \in Seq(Cell) /\ wire \in Seq(Cell)
  BY DEF IInv, Typed, Conn
<1>2. Stream \in Seq(Cell)
  BY <1>1, ConcatProperties DEF Stream
<1>3. Stream' = Stream \o x
  <2> DEFINE r == c.recv
  <2>0. r \in Seq(Cell) /\ wire \in Seq(Cell) /\ x \in Seq(Cell)
    BY <1>1
  <2> HIDE DEF r
  <2>1. (r \o wire) \o x = r \o (wire \o x)
    BY <2>0, CellsAssociative
  <2> QED
    BY <2>1 DEF Stream, r
<1>4. Stream \o x \in Seq(Cell)
  BY <1>2, ConcatProperties
<1>5. wire' \in Seq(Cell)
  BY <1>1, ConcatProperties
<1>6. Typed' /\ Placed'
  BY <1>5 DEF IInv, Typed, Placed
<1> HIDE DEF Stream
<1> QED
  BY <1>2, <1>3, <1>4, <1>6, StreamCells

\* A request.
LEMMA AskStep ==
  ASSUME NEW kind \in Request
  PROVE  IInv /\ Ask(kind) => IInv'
<1> SUFFICES ASSUME IInv, Ask(kind) PROVE IInv'
  OBVIOUS
<1> DEFINE id    == Len(client.asked) + 1
           x     == RequestCells(kind, id)
           asked == Append(client.asked, kind)
           L     == Len(Stream)
<1>1. /\ wire' = wire \o x
      /\ client' = [client EXCEPT !.asked = asked, !.early = Early]
      /\ UNCHANGED <<c, at, loop, parsed, session>>
  BY DEF Ask, IInv, Typed, Client
<1>2. client \in Client /\ client.asked \in Seq(Request) /\ id \in Nat /\ id > 0
  BY DEF IInv, Typed, Client
<1>3. asked \in Seq(Request) /\ Len(asked) = id /\ asked[id] = kind
  BY <1>2
<1>4. client' \in Client /\ client'.asked = asked
  <2>1. Early \in BOOLEAN
    BY DEF Early
  <2> HIDE DEF asked
  <2> QED
    BY <1>1, <1>2, <1>3, <2>1 DEF Client
<1>5. /\ x \in Seq(Cell) /\ Len(x) = 2
      /\ x[1] = [what |-> "request", kind |-> kind, id |-> id, part |-> 1]
      /\ x[2] = [what |-> "request", kind |-> kind, id |-> id, part |-> 2]
  <2> DEFINE cell(part) == [what |-> "request", kind |-> kind, id |-> id, part |-> part]
  <2>1. \A part \in 1 .. 2 : cell(part) \in Cell
    BY <1>2 DEF Cell
  <2>2. x = [part \in 1 .. 2 |-> cell(part)]
    BY DEF RequestCells
  <2> HIDE DEF cell
  <2>3. [part \in 1 .. 2 |-> cell(part)] \in Seq(Cell) /\ Len([part \in 1 .. 2 |-> cell(part)]) = 2
    BY <2>1
  <2>4. x[1] = cell(1) /\ x[2] = cell(2)
    BY <2>2
  <2> QED
    BY <2>2, <2>3, <2>4 DEF cell
<1>6. x[1].what # "flags" /\ x[2].what # "flags"
  BY <1>5
<1> HIDE DEF x, asked, id
<1>7. /\ Typed' /\ Placed'
      /\ L \in Nat /\ DOMAIN Stream = 1 .. L /\ DOMAIN Stream' = 1 .. L + 2
      /\ \A i \in 1 .. L : Stream'[i] = Stream[i]
      /\ \A i \in L + 1 .. L + 2 : Stream'[i] = x[i - L]
  <2>1. /\ Typed' /\ Placed' /\ Stream \in Seq(Cell)
        /\ DOMAIN Stream = 1 .. L /\ DOMAIN Stream' = 1 .. L + Len(x)
        /\ \A i \in 1 .. L : Stream'[i] = Stream[i]
        /\ \A i \in L + 1 .. L + Len(x) : Stream'[i] = x[i - L]
    BY <1>1, <1>4, <1>5, StreamGrows
  <2>2. Len(Stream) \in Nat
    BY <2>1
  <2> QED
    BY <2>1, <2>2, <1>4, <1>5
<1> HIDE DEF L
<1>8. \A i \in DOMAIN Stream' :
        \/ i \in DOMAIN Stream /\ Stream'[i] = Stream[i]
        \/ i = L + 1 /\ Stream'[i] = x[1]
        \/ i = L + 2 /\ Stream'[i] = x[2]
  <2> SUFFICES ASSUME NEW i \in DOMAIN Stream', i \notin DOMAIN Stream
               PROVE  \/ i = L + 1 /\ Stream'[i] = x[1]
                      \/ i = L + 2 /\ Stream'[i] = x[2]
    BY <1>7
  <2>1. i \in L + 1 .. L + 2 /\ i - L \in {1, 2} /\ (i = L + 1 => i - L = 1) /\ (i = L + 2 => i - L = 2)
    BY <1>7
  <2>2. Stream'[i] = x[i - L]
    BY <1>7, <2>1
  <2> QED
    BY <1>7, <2>1, <2>2
<1>10. Framed(Stream, c.ofs)'
  <2> SUFFICES ASSUME NEW i \in DOMAIN Stream', i > c.ofs, Stream'[i].what = "flags"
               PROVE  i + 1 \in DOMAIN Stream' /\ Stream'[i + 1].what = "length"
    BY <1>1 DEF Framed
  <2>1. i \in DOMAIN Stream /\ Stream'[i] = Stream[i]
    BY <1>6, <1>8
  <2>2. i + 1 \in DOMAIN Stream /\ Stream[i + 1].what = "length"
    BY <2>1 DEF IInv, Framed
  <2> QED
    BY <1>7, <2>2
<1>11. Deleting'
  BY <1>1 DEF IInv, Deleting
<1> QED
  BY <1>7, <1>10, <1>11 DEF IInv

\* A frame.
LEMMA FrameSent ==
  ASSUME NEW fin \in BOOLEAN, NEW op \in {"text", "cont", "ping", "close"},
         NEW m \in Nat, NEW j \in Nat,
         IInv, SendFrame(fin, op, <<Payload(m, j)>>),
         client' \in Client, client'.asked = client.asked
  PROVE  IInv'
<1> DEFINE x == FrameCells(fin, op, <<Payload(m, j)>>)
           L == Len(Stream)
<1>1. /\ wire' = wire \o x
      /\ UNCHANGED <<c, at, loop, parsed, session>>
  BY DEF SendFrame
<1>2. /\ x \in Seq(Cell) /\ Len(x) = 3
      /\ x[1].what = "flags" /\ x[2].what = "length" /\ x[3].what = "data"
  <2> DEFINE f == [what |-> "flags", fin |-> fin, op |-> op]
             l == [what |-> "length", n |-> 1]
             d == Payload(m, j)
  <2>1. f \in Cell /\ l \in Cell /\ d \in Cell
    BY DEF Cell, Payload
  <2>2. f.what = "flags" /\ l.what = "length" /\ d.what = "data"
    BY DEF Payload
  <2>3. x = <<f, l>> \o <<d>>
    BY DEF FrameCells
  <2> HIDE DEF f, l, d
  <2> DEFINE y == <<f, l>>
             z == <<d>>
  <2>4. y \in Seq(Cell) /\ z \in Seq(Cell) /\ Len(y) = 2 /\ Len(z) = 1 /\ y[1] = f /\ y[2] = l /\ z[1] = d
    BY <2>1
  <2>5. x = y \o z
    BY <2>3
  <2> HIDE DEF x, y, z
  <2>6. /\ y \o z \in Seq(Cell) /\ Len(y \o z) = Len(y) + Len(z)
        /\ \A i \in 1 .. Len(y) : (y \o z)[i] = y[i]
        /\ \A i \in Len(y) + 1 .. Len(y) + Len(z) : (y \o z)[i] = z[i - Len(y)]
    BY <2>4, StreamCells
  <2>7. x[1] = y[1] /\ x[2] = y[2] /\ x[3] = z[1] /\ Len(x) = 3
    BY <2>4, <2>5, <2>6
  <2> QED
    BY <2>2, <2>4, <2>5, <2>6, <2>7
<1> HIDE DEF x
<1>3. /\ Typed' /\ Placed'
      /\ L \in Nat /\ DOMAIN Stream = 1 .. L /\ DOMAIN Stream' = 1 .. L + 3
      /\ \A i \in 1 .. L : Stream'[i] = Stream[i]
      /\ \A i \in L + 1 .. L + 3 : Stream'[i] = x[i - L]
  <2>1. /\ Typed' /\ Placed' /\ Stream \in Seq(Cell)
        /\ DOMAIN Stream = 1 .. L /\ DOMAIN Stream' = 1 .. L + Len(x)
        /\ \A i \in 1 .. L : Stream'[i] = Stream[i]
        /\ \A i \in L + 1 .. L + Len(x) : Stream'[i] = x[i - L]
    BY <1>1, <1>2, StreamGrows
  <2>2. Len(Stream) \in Nat
    BY <2>1
  <2> QED
    BY <2>1, <2>2, <1>2
<1> HIDE DEF L
<1>4. \A i \in DOMAIN Stream' :
        \/ i \in DOMAIN Stream /\ Stream'[i] = Stream[i]
        \/ i = L + 1 /\ Stream'[i].what = "flags"
        \/ i = L + 2 /\ Stream'[i].what = "length"
        \/ i = L + 3 /\ Stream'[i].what = "data"
  <2> SUFFICES ASSUME NEW i \in DOMAIN Stream', i \notin DOMAIN Stream
               PROVE  \/ i = L + 1 /\ Stream'[i].what = "flags"
                      \/ i = L + 2 /\ Stream'[i].what = "length"
                      \/ i = L + 3 /\ Stream'[i].what = "data"
    BY <1>3
  <2>1. /\ i \in L + 1 .. L + 3
        /\ \/ i = L + 1 /\ i - L = 1
           \/ i = L + 2 /\ i - L = 2
           \/ i = L + 3 /\ i - L = 3
    BY <1>3
  <2>2. Stream'[i] = x[i - L]
    BY <1>3, <2>1
  <2> QED
    BY <1>2, <2>1, <2>2
<1>6. Framed(Stream, c.ofs)'
  <2> SUFFICES ASSUME NEW i \in DOMAIN Stream', i > c.ofs, Stream'[i].what = "flags"
               PROVE  i + 1 \in DOMAIN Stream' /\ Stream'[i + 1].what = "length"
    BY <1>1 DEF Framed
  <2>1. CASE i \in DOMAIN Stream
    <3>1. i + 1 \in DOMAIN Stream /\ Stream[i + 1].what = "length"
      BY <1>3, <2>1 DEF IInv, Framed
    <3> QED
      BY <1>3, <3>1
  <2>2. CASE i \notin DOMAIN Stream
    <3>1. i = L + 1 /\ i + 1 = L + 2
      BY <1>3, <1>4, <2>2
    <3>2. i + 1 \in DOMAIN Stream' /\ i + 1 \notin DOMAIN Stream /\ L + 2 # L + 1 /\ L + 2 # L + 3
      BY <1>3, <3>1
    <3> QED
      BY <1>4, <3>1, <3>2
  <2> QED
    BY <2>1, <2>2
<1>7. Deleting'
  BY <1>1 DEF IInv, Deleting
<1> QED
  BY <1>3, <1>6, <1>7 DEF IInv

\* A message or a fragment of one joins the stream.
LEMMA SayStep ==
  ASSUME NEW fin \in BOOLEAN
  PROVE  IInv /\ Say(fin) => IInv'
<1> SUFFICES ASSUME IInv, Say(fin) PROVE IInv'
  OBVIOUS
<1> DEFINE m      == Len(client.said) + 1
           k      == Len(client.saying) + 1
           cell   == Payload(m, k)
           all    == Append(client.saying, Unmask(cell))
           saying == IF fin THEN <<>> ELSE all
           said   == IF fin THEN Append(client.said, all) ELSE client.said
           frames == client.frames + 1
           d      == [client EXCEPT !.frames = frames, !.early = Early]
<1>1. /\ client \in Client /\ m \in Nat /\ k \in Nat
      /\ client.saying \in Seq(Cell) /\ client.said \in Seq(Seq(Cell)) /\ frames \in Nat
      /\ Early \in BOOLEAN
  BY DEF IInv, Typed, Client, Early
<1>2. /\ SendFrame(fin, IF client.saying = <<>> THEN "text" ELSE "cont", <<cell>>)
      /\ client' = [client EXCEPT !.frames = frames, !.early = Early, !.saying = saying, !.said = said]
  BY <1>1 DEF Say, Client
<1>3. Unmask(cell) \in Cell
  <2>1. cell \in Cell
    BY <1>1 DEF Payload, Cell
  <2> QED
    BY <2>1, UnmaskCell
<1>4. all \in Seq(Cell)
  BY <1>1, <1>3, AppendProperties
<1> HIDE DEF all
<1>5. saying \in Seq(Cell) /\ said \in Seq(Seq(Cell))
  <2>1. Append(client.said, all) \in Seq(Seq(Cell))
    BY <1>1, <1>4, AppendProperties
  <2>2. <<>> \in Seq(Cell)
    OBVIOUS
  <2> QED
    BY <1>1, <1>4, <2>1, <2>2
<1> HIDE DEF saying, said, frames
<1>6. d \in Client /\ d.asked = client.asked
  BY <1>1 DEF Client
<1>7. client' = [d EXCEPT !.saying = saying, !.said = said]
  BY <1>1, <1>2 DEF Client
<1> HIDE DEF d
<1>8. client' \in Client /\ client'.asked = client.asked
  BY <1>5, <1>6, <1>7 DEF Client
<1> DEFINE op == IF client.saying = <<>> THEN "text" ELSE "cont"
<1>9. op \in {"text", "cont", "ping", "close"}
  OBVIOUS
<1>10. SendFrame(fin, op, <<Payload(m, k)>>)
  BY <1>2
<1> HIDE DEF op, m, k
<1> QED
  BY <1>1, <1>8, <1>9, <1>10, FrameSent

\* A PING or a CLOSE joins the stream.
LEMMA ControlStep ==
  ASSUME NEW op \in {"ping", "close"}
  PROVE  IInv /\ Control(op) => IInv'
<1> SUFFICES ASSUME IInv, Control(op) PROVE IInv'
  OBVIOUS
<1>1. SendFrame(TRUE, op, <<Payload(0, 0)>>)
  BY DEF Control
<1>2. client' \in Client /\ client'.asked = client.asked
  <2> DEFINE frames == client.frames + 1
             bye    == (op = "close")
             d      == [client EXCEPT !.frames = frames, !.early = Early]
  <2>1. client \in Client /\ frames \in Nat /\ Early \in BOOLEAN /\ bye \in BOOLEAN
    BY DEF IInv, Typed, Client, Early
  <2>2. client' = [client EXCEPT !.frames = frames, !.early = Early, !.bye = bye]
    BY <2>1 DEF Control, Client
  <2> HIDE DEF frames, bye
  <2>3. d \in Client /\ d.asked = client.asked
    BY <2>1 DEF Client
  <2>4. client' = [d EXCEPT !.bye = bye]
    BY <2>1, <2>2 DEF Client
  <2> HIDE DEF d
  <2> QED
    BY <2>1, <2>3, <2>4 DEF Client
<1>3. TRUE \in BOOLEAN /\ op \in {"text", "cont", "ping", "close"} /\ 0 \in Nat
  OBVIOUS
<1> QED
  BY <1>1, <1>2, <1>3, FrameSent

(***************************************************************************)
(* The theorems                                                            *)
(***************************************************************************)
LEMMA InitIInv == Init => IInv
<1> SUFFICES ASSUME Init PROVE IInv
  OBVIOUS
<1>1. Typed
  <2>1. c \in Conn
    BY SizeAssumption DEF Init, Conn
  <2>2. client \in Client
    BY DEF Init, Client
  <2> QED
    BY <2>1, <2>2 DEF Init, Typed
<1>2. Stream = <<>>
  BY DEF Init, Stream
<1>3. DOMAIN Stream = {}
  BY <1>2
<1> QED
  BY <1>1, <1>3 DEF Init, IInv, Placed, Framed, Deleting

\* Every step keeps the invariant.
LEMMA StepIInv == IInv /\ [Next]_vars => IInv'
<1> SUFFICES ASSUME IInv, [Next]_vars PROVE IInv'
  OBVIOUS
<1>1. CASE UNCHANGED vars
  BY <1>1 DEF vars, IInv, Typed, Placed, Framed, Stream, Deleting
<1>2. CASE ServerStep
  BY <1>2, PollStep, ReadStep, WriteStep, EndStep, MessageStep, GarbledStep, DoneStep,
     FrameStep, WsGarbledStep, WsDoneStep DEF ServerStep
<1>3. CASE ClientStep
  BY <1>3, AskStep, SayStep, ControlStep, HangUpStep DEF ClientStep
<1> QED
  BY <1>1, <1>2, <1>3 DEF Next

\* The invariant holds in every state.
LEMMA InvariantHolds == Spec => []IInv
BY InitIInv, StepIInv, PTL DEF Spec

\* However a client's bytes are cut, and whatever it sends early: no offset ever
\* leaves the buffer (mongoose.c: http_cb's ofs, mg_ws_cb's pfn_data), a file is
\* streamed only while its response is being generated, and no session is
\* deleted that was not created.
THEOREM StreamTypeCorrect == Spec => []TypeOK
<1>1. IInv => TypeOK
  BY DEF IInv, Typed, Placed, Deleting, Conn, TypeOK
<1> QED
  BY <1>1, InvariantHolds, PTL
=============================================================================
