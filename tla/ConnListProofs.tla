----------------------------- MODULE ConnListProofs -----------------------------
(***************************************************************************)
(* For any bound on the connections: the pointers of the list are sound    *)
(* whatever is accepted, closed and walked in the course of a poll, and    *)
(* the list implements the set of connections that SessionServer keeps.    *)
(***************************************************************************)
EXTENDS ConnList, TLAPS

USE MaxIdAssumption

Follows(S, x, n) == Set!Follows(S, x, n)

\* The list is sorted by decreasing id.
Sorted ==
  /\ Follows(Linked, MaxId + 1, head)
  /\ \A m \in Linked : Follows(Linked, m, next[m])

\* What mg_mgr_poll has in hand: in the course of a visit, the connection
\* visited and the one to be visited next, which is allocated.
Visiting ==
  /\ Listener \in memory
  /\ Listener \notin closing
  /\ at = "idle" => c = Null /\ tmp = Null
  /\ at # "idle" => c \in memory /\ Follows(memory, c, tmp)
  /\ at \in {"unlink", "closed"} => c # Listener

\* LIST_DELETE has not come to the connection it looks for, and the handlers'
\* walks are in the list.
Seeking ==
  /\ at = "unlink" => it = Null /\ (h = Null \/ (h \in memory /\ c < h))
  /\ at # "unlink" => h = Null
  /\ it \in Linked \cup {Null}

IInv == TypeOK /\ Sorted /\ Visiting /\ Seeking

(***************************************************************************)
(* What follows what in a set                                              *)
(***************************************************************************)
\* A connection put before x does not change what follows x.
LEMMA FollowsAdd ==
  ASSUME NEW S \in SUBSET Id, NEW x \in Int, NEW n, NEW e \in Int, x <= e, Follows(S, x, n)
  PROVE  Follows(S \cup {e}, x, n)
BY DEF Follows, Set!Follows, Id

\* Taking out a connection that does not follow x does not change what does.
LEMMA FollowsOther ==
  ASSUME NEW S, NEW x, NEW n, NEW e, n # e, Follows(S, x, n)
  PROVE  Follows(S \ {e}, x, n)
BY DEF Follows, Set!Follows

\* When the one that follows x is taken out, the next follows x.
LEMMA FollowsSkip ==
  ASSUME NEW S \in SUBSET Id, NEW x \in Int, NEW e \in S, NEW n,
         Follows(S, x, e), Follows(S, e, n)
  PROVE  Follows(S \ {e}, x, n)
BY DEF Follows, Set!Follows, Id

\* No two connections are followed by the same one.
LEMMA FollowsOnce ==
  ASSUME NEW S \in SUBSET Id, NEW x \in S, NEW y \in S, NEW n \in S,
         Follows(S, x, n), Follows(S, y, n)
  PROVE  x = y
BY DEF Follows, Set!Follows, Id

(***************************************************************************)
(* The invariant                                                           *)
(***************************************************************************)
LEMMA InitInv == Init => IInv
BY DEF Init, IInv, TypeOK, Sorted, Visiting, Seeking, Linked, Follows, Set!Follows, Id, Null, Listener

\* A turn of the loop, when the connections and their list stay.
LEMMA TurnInv ==
  ASSUME IInv, NEW n \in Linked \cup {Null}, ~Walking, at \in {"idle", "visit"}, Turn(n),
         UNCHANGED <<nextid, head, next, memory, closing, h, it>>
  PROVE  IInv'
<1>1. Linked = memory /\ Linked' = memory
  BY DEF Linked, Turn, Null, IInv, TypeOK
<1>2. TypeOK'
  BY <1>1 DEF IInv, TypeOK, Turn, Walking, Id, Null
<1>3. Sorted'
  BY <1>1 DEF IInv, Sorted, Follows
<1>4. Visiting'
  BY <1>1 DEF IInv, Visiting, Sorted, Turn, Null, Listener
<1>5. Seeking'
  BY <1>1 DEF IInv, Seeking, Turn, Walking, Null
<1> QED
  BY <1>2, <1>3, <1>4, <1>5 DEF IInv

\* mg_mgr_poll begins at the head of the list.
LEMMA PollStartInv == IInv /\ PollStart => IInv'
BY TurnInv DEF PollStart, IInv, Sorted, Follows, Set!Follows, Null

\* A connection stays, and the loop goes on to tmp.
LEMMA KeepInv == IInv /\ Keep => IInv'
BY TurnInv DEF Keep, IInv, Visiting, Linked, Follows, Set!Follows, Null

\* Marks and walks leave the list and the loop where they are.
LEMMA MarkWalkInv ==
  ASSUME IInv, \/ Mark \/ Iterate \/ IterateReturn
               \/ \E overdue \in BOOLEAN : IterateNext(overdue)
  PROVE  IInv'
<1>1. /\ UNCHANGED <<nextid, head, next, memory, at, c, tmp, h>>
      /\ Linked' = Linked
  BY DEF Mark, Iterate, IterateReturn, IterateNext, Linked
<1>2. it' \in Linked \cup {Null} /\ (at = "unlink" => it' = Null)
  BY DEF Mark, Iterate, IterateReturn, IterateNext, IInv, Sorted, Seeking, Follows, Set!Follows,
         Walking, Null
<1>3. closing' \subseteq memory /\ Listener \notin closing'
  <2>1. CASE Mark
    BY <2>1 DEF Mark, IInv, TypeOK, Visiting
  <2>2. CASE \E overdue \in BOOLEAN : IterateNext(overdue)
    BY <2>2 DEF IterateNext, IInv, TypeOK, Visiting, Seeking, Linked, Walking
  <2>3. CASE Iterate \/ IterateReturn
    BY <2>3 DEF Iterate, IterateReturn, IInv, TypeOK, Visiting
  <2> QED
    BY <2>1, <2>2, <2>3
<1>4. TypeOK'
  <2>1. it' \in Id \cup {Null}
    BY <1>2 DEF IInv, TypeOK, Linked, Id
  <2> QED
    BY <1>1, <1>3, <2>1 DEF IInv, TypeOK
<1>5. Sorted'
  BY <1>1 DEF IInv, Sorted, Follows
<1>6. Visiting' /\ Seeking'
  BY <1>1, <1>2, <1>3 DEF IInv, Visiting, Seeking, Follows
<1> QED
  BY <1>4, <1>5, <1>6 DEF IInv

\* A connection accepted goes before all others, and behind the walk.
LEMMA AcceptInv ==
  ASSUME IInv, NEW tlsInitFails \in BOOLEAN, Accept(tlsInitFails)
  PROVE  IInv'
<1> USE DEF IInv
<1> DEFINE new == nextid + 1
<1>1. /\ at = "visit" /\ c = Listener /\ new \in Id /\ new \notin memory
      /\ nextid' = new /\ head' = new /\ next' = [next EXCEPT ![new] = head]
      /\ memory' = memory \cup {new}
      /\ Turn(tmp)
      /\ UNCHANGED <<h, it>>
  BY DEF Accept, AddHead, TypeOK, Id
<1>2. tmp = Null
  BY <1>1 DEF Visiting, Follows, Set!Follows, TypeOK, Listener, Null, Id
<1>3. c' = Null /\ tmp' = Null /\ at' = "idle"
  BY <1>1, <1>2 DEF Turn, Null
<1>4. Linked = memory /\ Linked' = memory \cup {new}
  BY <1>1, <1>3 DEF Linked
<1>5. /\ memory \in SUBSET Id /\ \A m \in memory : m < new
      /\ head \in memory \cup {Null} /\ next \in [Id -> Id \cup {Null}] /\ nextid \in Id
  <2>1. head \in memory \cup {Null}
    BY <1>4 DEF Sorted, Follows, Set!Follows, Null
  <2>2. memory \in SUBSET Id /\ \A m \in memory : m < new
    BY DEF TypeOK, Id
  <2> QED
    BY <2>1, <2>2 DEF TypeOK
<1>6. closing' \subseteq memory' /\ Listener \notin closing' /\ Listener \in memory
  BY <1>1, <1>5 DEF Accept, TypeOK, Visiting, Listener
<1>7. TypeOK'
  BY <1>1, <1>3, <1>5, <1>6 DEF TypeOK, Id, Null
<1>8. Sorted'
  <2>1. Follows(Linked', MaxId + 1, head')
    BY <1>1, <1>4, <1>5 DEF Follows, Set!Follows, Id, Null
  <2>2. Follows(Linked', new, next'[new])
    BY <1>1, <1>4, <1>5 DEF Sorted, Follows, Set!Follows, Id, Null
  <2>3. ASSUME NEW m \in memory PROVE Follows(Linked', m, next'[m])
    <3>1. Follows(memory, m, next[m]) /\ next'[m] = next[m]
      BY <1>1, <1>4, <1>5 DEF Sorted
    <3> QED
      BY <3>1, <1>1, <1>4, <1>5, FollowsAdd DEF Id
  <2> QED
    BY <1>4, <2>1, <2>2, <2>3 DEF Sorted, Follows
<1>9. Visiting' /\ Seeking'
  BY <1>1, <1>3, <1>4, <1>6 DEF Visiting, Seeking
<1> QED
  BY <1>7, <1>8, <1>9

\* close_conn begins to look for the connection in the list.
LEMMA CloseConnInv == IInv /\ CloseConn => IInv'
BY DEF CloseConn, IInv, TypeOK, Sorted, Visiting, Seeking, Linked, Follows, Walking, Null

\* LIST_DELETE looks for what follows a connection, or the head of the list.
Before == IF h = Null THEN MaxId + 1 ELSE h

\* LIST_DELETE looks at a connection that is listed, and not beyond the last.
LEMMA PointedFound ==
  ASSUME IInv, at = "unlink"
  PROVE  /\ Pointed \in memory /\ c <= Pointed
         /\ Before \in Int /\ Follows(memory, Before, Pointed)
<1> USE DEF Before
<1>1. Linked = memory /\ c \in memory /\ memory \in SUBSET Id
  BY DEF IInv, TypeOK, Visiting, Linked, Id
<1>2. CASE h = Null
  <2>1. Follows(memory, MaxId + 1, head) /\ Pointed = head
    BY <1>1, <1>2 DEF IInv, Sorted, Pointed
  <2> QED
    BY <1>1, <1>2, <2>1 DEF Follows, Set!Follows, Id
<1>3. CASE h # Null
  <2>1. Follows(memory, h, next[h]) /\ Pointed = next[h] /\ h \in memory /\ c < h
    BY <1>1, <1>3 DEF IInv, Sorted, Seeking, Pointed
  <2> QED
    BY <1>1, <1>3, <2>1 DEF Follows, Set!Follows, Id
<1> QED
  BY <1>2, <1>3

\* LIST_DELETE goes on by one connection.
LEMMA SeekInv == IInv /\ Seek => IInv'
<1> SUFFICES ASSUME IInv, Seek PROVE IInv'
  OBVIOUS
<1>1. Pointed \in memory /\ c < Pointed
  <2>1. Pointed \in memory /\ c <= Pointed /\ Pointed # c
    BY PointedFound DEF Seek
  <2>2. Pointed \in Int /\ c \in Int
    BY <2>1 DEF IInv, TypeOK, Id, Null
  <2> QED
    BY <2>1, <2>2
<1> QED
  BY <1>1 DEF Seek, IInv, TypeOK, Sorted, Visiting, Seeking, Linked, Follows, Id, Null

\* After LIST_DELETE the list is that of the others.
LEMMA UnlinkInv == IInv /\ Unlink => IInv'
<1> SUFFICES ASSUME IInv, Unlink PROVE IInv'
  OBVIOUS
<1> USE DEF IInv
<1>1. /\ at = "unlink" /\ at' = "closed" /\ Pointed = c /\ h' = Null
      /\ UNCHANGED <<nextid, memory, closing, c, tmp, it>>
  BY DEF Unlink
<1>2. /\ Linked = memory /\ Linked' = memory \ {c} /\ memory \in SUBSET Id /\ c \in memory
      /\ c # Listener /\ it = Null /\ next \in [Id -> Id \cup {Null}]
      /\ nextid \in Id
  BY <1>1 DEF Linked, TypeOK, Visiting, Seeking, Id
<1>3. Follows(memory, c, next[c])
  BY <1>2 DEF Sorted
<1>4. Follows(memory \ {c}, Before, next[c])
  <2>1. Before \in Int /\ Follows(memory, Before, c)
    BY <1>1, PointedFound
  <2> QED
    BY <1>2, <1>3, <2>1, FollowsSkip
<1>5. ASSUME NEW m \in memory \ {c}, m # h \/ h = Null PROVE next[m] # c
  <2>1. Follows(memory, m, next[m])
    BY <1>2 DEF Sorted
  <2>2. CASE h = Null
    BY <1>1, <1>2, <2>1, <2>2, PointedFound DEF Before, Follows, Set!Follows, Id
  <2>3. CASE h # Null
    BY <1>1, <1>2, <1>5, <2>1, <2>3, PointedFound, FollowsOnce DEF Before, Seeking
  <2> QED
    BY <2>2, <2>3
<1>6. head \in Id \cup {Null} /\ next[c] \in Id \cup {Null}
  BY <1>2 DEF TypeOK
<1>7. CASE h = Null
  <2>1. head' = next[c] /\ next' = next
    BY <1>7 DEF Unlink
  <2>2. Sorted'
    BY <1>2, <1>4, <1>5, <1>7, <2>1, FollowsOther DEF Sorted, Follows, Before
  <2> QED
    BY <1>1, <1>2, <1>6, <2>1, <2>2 DEF TypeOK, Visiting, Seeking, Follows, Id, Null
<1>8. CASE h # Null
  <2>1. head' = head /\ next' = [next EXCEPT ![h] = next[c]] /\ h \in memory \ {c}
    BY <1>1, <1>2, <1>8 DEF Unlink, Seeking, Id
  <2>2. head # c
    <3>1. h \in Id /\ c < h
      BY <1>1, <1>2, <1>8 DEF Seeking
    <3>2. Follows(memory, MaxId + 1, head)
      BY <1>2 DEF Sorted
    <3>3. h <= head
      BY <2>1, <3>1, <3>2 DEF Follows, Set!Follows, Id
    <3> QED
      BY <1>2, <3>1, <3>3 DEF Id
  <2>3. Follows(memory \ {c}, MaxId + 1, head)
    BY <1>2, <2>2, FollowsOther DEF Sorted
  <2>4. ASSUME NEW m \in memory \ {c} PROVE Follows(memory \ {c}, m, next'[m])
    <3>1. CASE m = h
      BY <1>2, <1>4, <1>8, <2>1, <3>1 DEF Before
    <3>2. CASE m # h
      BY <1>2, <1>5, <2>1, <3>2, FollowsOther DEF Sorted
    <3> QED
      BY <3>1, <3>2
  <2>5. Sorted'
    BY <1>2, <2>1, <2>3, <2>4 DEF Sorted, Follows
  <2>6. next' \in [Id -> Id \cup {Null}]
    BY <1>2, <1>6, <2>1
  <2> QED
    BY <1>1, <1>2, <1>6, <2>1, <2>5, <2>6 DEF TypeOK, Visiting, Seeking, Follows, Id, Null
<1> QED
  BY <1>7, <1>8

\* The connection freed is in no list any more.
LEMMA FreeInv == IInv /\ Free => IInv'
<1> SUFFICES ASSUME IInv, Free PROVE IInv'
  OBVIOUS
<1> USE DEF IInv
<1>1. /\ at = "closed" /\ it = Null /\ h = Null /\ memory' = memory \ {c}
      /\ closing' = closing \ {c} /\ next' = [next EXCEPT ![c] = Null] /\ Turn(tmp)
      /\ UNCHANGED <<nextid, head, h, it>>
  BY DEF Free, Walking, Seeking
<1>2. /\ memory \in SUBSET Id /\ c \in memory /\ c # Listener /\ Follows(memory, c, tmp)
      /\ next \in [Id -> Id \cup {Null}] /\ nextid \in Id
  BY <1>1 DEF TypeOK, Visiting, Id
<1>3. Linked = memory' /\ Linked' = memory'
  BY <1>1 DEF Linked, Turn
<1>4. tmp \in memory' \cup {Null} /\ c' = tmp
  BY <1>1, <1>2 DEF Follows, Set!Follows, Turn, Id, Null
<1>5. \A m \in memory' : next'[m] = next[m] /\ Follows(memory', m, next'[m])
  BY <1>1, <1>2, <1>3 DEF Sorted
<1>6. Sorted'
  BY <1>1, <1>3, <1>5 DEF Sorted, Follows
<1>7. IF tmp = Null THEN at' = "idle" /\ tmp' = Null ELSE at' = "visit" /\ tmp' = next[tmp]
  BY <1>1 DEF Turn
<1>8. TypeOK'
  BY <1>1, <1>2, <1>4, <1>7 DEF TypeOK, Id, Null
<1>9. Visiting'
  BY <1>1, <1>2, <1>4, <1>5, <1>7 DEF Visiting, Follows, Null, Listener
<1>10. Seeking'
  BY <1>1, <1>7 DEF Seeking
<1> QED
  BY <1>6, <1>8, <1>9, <1>10

\* Every step keeps the invariant.
LEMMA NextInv == IInv /\ [Next]_vars => IInv'
<1> SUFFICES ASSUME IInv, [Next]_vars PROVE IInv'
  OBVIOUS
<1>1. CASE PollStep
  BY <1>1, PollStartInv, KeepInv, CloseConnInv, SeekInv, UnlinkInv, FreeInv DEF PollStep
<1>2. CASE WalkStep \/ Iterate \/ Mark
  BY <1>2, MarkWalkInv DEF WalkStep
<1>3. CASE \E tlsInitFails \in BOOLEAN : Accept(tlsInitFails)
  BY <1>3, AcceptInv
<1>4. CASE UNCHANGED vars
  BY <1>4 DEF vars, IInv, TypeOK, Sorted, Visiting, Seeking, Linked, Follows
<1> QED
  BY <1>1, <1>2, <1>3, <1>4 DEF Next

\* The invariant holds in every state.
LEMMA Invariant == Spec => []IInv
BY InitInv, NextInv, PTL DEF Spec

\* The variables of the list and of its loops are well typed.
THEOREM ListTypeCorrect == Spec => []TypeOK
<1>1. IInv => TypeOK
  BY DEF IInv
<1> QED
  BY <1>1, Invariant, PTL

\* No pointer that is followed leads to freed memory, and no walk of a handler
\* to the connection being closed (mongoose.c:5336-5352 and 6959-6987).
THEOREM NothingDangles == Spec => []NoDangling
<1>1. IInv => NoDangling
  <2> SUFFICES ASSUME IInv PROVE NoDangling
    OBVIOUS
  <2>1. {c, tmp, h} \subseteq memory \cup {Null}
    BY DEF IInv, Visiting, Seeking, TypeOK, Follows, Set!Follows, Null
  <2>2. {head, it} \subseteq Linked \cup {Null}
    BY DEF IInv, Sorted, Seeking, Follows, Set!Follows, Null
  <2>3. \A m \in Linked : next[m] \in Linked \cup {Null}
    BY DEF IInv, Sorted, Follows, Set!Follows, Null
  <2> QED
    BY <2>1, <2>2, <2>3 DEF NoDangling
<1> QED
  BY <1>1, Invariant, PTL

\* LIST_DELETE, which tests for no NULL, needs no test (mongoose.h:1100-1105).
THEOREM DeleteAlwaysFinds == Spec => []DeleteFinds
<1>1. IInv => DeleteFinds
  BY PointedFound DEF DeleteFinds, IInv, TypeOK, Id, Null
<1> QED
  BY <1>1, Invariant, PTL

(***************************************************************************)
(* The refinement                                                          *)
(***************************************************************************)
LEMMA SetStep == IInv /\ [Next]_vars => [Set!Next]_(Set!vars)
<1> SUFFICES ASSUME IInv, [Next]_vars PROVE [Set!Next]_(Set!vars)
  OBVIOUS
<1> USE DEF IInv
<1>1. CASE PollStart
  <2>1. Set!Begin({})
    BY <1>1 DEF PollStart, Turn, Visiting, Sorted, Linked, Follows, Set!Begin, Null
  <2> QED
    BY <2>1 DEF Set!Next
<1>2. CASE Keep
  <2>1. Set!Keep
    BY <1>2 DEF Keep, Turn, Visiting, TypeOK, Follows, Set!Keep, Id
  <2> QED
    BY <2>1 DEF Set!Next
<1>3. CASE Free
  <2>1. c \in memory /\ c # Listener /\ Follows(memory, c, tmp) /\ memory \in SUBSET Id
    BY <1>3 DEF Free, Visiting, TypeOK, Id
  <2>2. Follows(memory \ {c}, c, tmp)
    BY <2>1 DEF Follows, Set!Follows, Id, Null
  <2>3. Set!Drop
    BY <1>3, <2>1, <2>2 DEF Free, Turn, Follows, Set!Follows, Set!Drop, Set!Listener, Listener, Id, Null
  <2> QED
    BY <2>3 DEF Set!Next
<1>4. ASSUME NEW tlsInitFails \in BOOLEAN, Accept(tlsInitFails) PROVE [Set!Next]_(Set!vars)
  <2>1. Set!Accept(tlsInitFails)
    BY <1>4 DEF Accept, Turn, Visiting, Follows, Set!Accept, Set!Listener, Listener
  <2> QED
    BY <2>1 DEF Set!Next
<1>5. CASE Mark
  <2>1. Set!Mark
    BY <1>5 DEF Mark, Visiting, TypeOK, Set!Mark, Set!Listener, Listener, Id
  <2> QED
    BY <2>1 DEF Set!Next
<1>6. ASSUME NEW overdue \in BOOLEAN, IterateNext(overdue) PROVE [Set!Next]_(Set!vars)
  <2>1. CASE overdue
    <3>1. at = "idle" /\ c = 0 /\ it \in memory \ {Listener}
      BY <1>6, <2>1 DEF IterateNext, Walking, Seeking, Visiting, Linked, Null
    <3>2. Set!Mark
      BY <1>6, <2>1, <3>1 DEF IterateNext, Set!Mark, Set!Listener, Listener
    <3> QED
      BY <3>2 DEF Set!Next
  <2>2. CASE ~overdue
    BY <1>6, <2>2 DEF IterateNext, Set!vars
  <2> QED
    BY <2>1, <2>2
<1>7. CASE CloseConn \/ Seek \/ Unlink \/ Iterate \/ IterateReturn \/ UNCHANGED vars
  BY <1>7 DEF CloseConn, Seek, Unlink, Iterate, IterateReturn, vars, Set!vars
<1> QED
  BY <1>1, <1>2, <1>3, <1>4, <1>5, <1>6, <1>7 DEF Next, PollStep, WalkStep

\* The linked list and the loop over it, with connections put in, taken out and
\* freed on the way, implement a set whose members are visited once each.
THEOREM ListImplementsSet == Spec => ImplementsSet
<1>1. Init => Set!Init
  BY DEF Init, Set!Init, Set!Listener, Listener, Null
<1> QED
  BY <1>1, Invariant, SetStep, PTL DEF Spec, ImplementsSet, Set!Spec
=============================================================================
