-------------------------- MODULE SessionServerProofs --------------------------
(***************************************************************************)
(* Theorems about SessionServer, for every bound on the connections, every *)
(* set of names and every id width.                                        *)
(***************************************************************************)
EXTENDS SessionServer, TLAPS, WellFoundedInduction

(***************************************************************************)
(* The ids and the walk of the list                                        *)
(***************************************************************************)
\* A nonempty set of naturals has a least element.
LEMMA LeastExists ==
  ASSUME NEW S \in SUBSET Nat, S # {}
  PROVE  \E m \in S : \A n \in S : m <= n
<1> DEFINE R == OpToRel(<, Nat)
<1>1. IsWellFoundedOn(R, Nat)
  BY NatLessThanWellFounded
<1> HIDE DEF R
<1>2. PICK m \in S : \A n \in S : ~ (<<n, m>> \in R)
  BY <1>1, WFMin
<1>3. \A n \in S : ~ (n < m)
  <2> SUFFICES ASSUME NEW n \in S, n < m PROVE FALSE
    OBVIOUS
  <2>1. <<n, m>> \in R
    BY DEF R, OpToRel
  <2> QED
    BY <1>2, <2>1
<1> QED
  BY <1>3

\* A session id is a natural number (session.cpp:36).
LEMMA GetIdType == \A c \in Id : GetId(c) \in Nat
BY IdModAssumption, MaxIdAssumption DEF GetId, Id

\* Until ids reach the width of SessionID_t, a session id is its connection's.
LEMMA GetIdIsId ==
  ASSUME MaxId < IdMod
  PROVE  \A c \in Id : GetId(c) = c
BY IdModAssumption, MaxIdAssumption DEF GetId, Id

\* Iterate visits only listed connections that have a Session
\* (sessionmgr.cpp:125-144).
LEMMA IteratedAttached ==
  ASSUME NEW cs, cs \subseteq Nat
  PROVE  Iterated(cs) \subseteq cs \cap attached
<1> SUFFICES ASSUME NEW c \in Iterated(cs)
             PROVE  c \in cs \cap attached
  OBVIOUS
<1>1. c \in cs /\ c \in Nat
  BY DEF Iterated
<1>2. c >= c
  BY <1>1
<1> QED
  BY <1>1, <1>2 DEF Iterated

\* A lookup that succeeds returns a session the walk visits.
LEMMA LookupIterated ==
  ASSUME conns \subseteq Nat, NEW sid, GetSessionById(sid) # NullSession
  PROVE  GetSessionById(sid) \in Iterated(conns)
<1> DEFINE matches == {s \in Iterated(conns) : GetId(s) = sid}
<1>1. matches # {} /\ matches \in SUBSET Nat
  BY IteratedAttached DEF GetSessionById
<1> HIDE DEF matches
<1>2. \E s \in matches : \A t \in matches : s <= t
  BY <1>1, LeastExists
<1>3. (CHOOSE s \in matches : \A t \in matches : s <= t) \in matches
  BY <1>2
<1> QED
  BY <1>1, <1>3 DEF GetSessionById, matches

\* As long as ids are unique, looking up a session's own id finds that session
\* or nobody (sessionmgr.cpp:109-118).
LEMMA OwnLookup ==
  ASSUME MaxId < IdMod, conns \subseteq Id, NEW c \in Id,
         GetSessionById(GetId(c)) # NullSession
  PROVE  GetSessionById(GetId(c)) = c
<1> DEFINE matches == {s \in Iterated(conns) : GetId(s) = GetId(c)}
<1>1. matches \subseteq {c}
  BY GetIdIsId DEF Iterated
<1>2. matches # {}
  BY DEF GetSessionById
<1>3. matches = {c}
  BY <1>1, <1>2
<1>4. (CHOOSE s \in matches : \A t \in matches : s <= t) = c
  BY <1>3 DEF Id
<1> QED
  BY <1>2, <1>4 DEF GetSessionById

(***************************************************************************)
(* Type correctness                                                        *)
(***************************************************************************)
\* The walk moves on to a listed connection or ends.
LEMMA MoveOnType ==
  ASSUME NEW c, MoveOnFrom(c)
  PROVE  cur' \in conns \cup {0}
BY DEF MoveOnFrom

\* Listed connections have ids within the bound.
LEMMA ConnsAreIds == TypeOK => conns \subseteq Id
BY MaxIdAssumption DEF TypeOK, Id

\* A broadcast over listed connections leaves rosters and told well typed.
LEMMA UpdateSessionsListType ==
  ASSUME TypeOK, NEW cs \in SUBSET conns,
         NEW nm \in [Id -> Names \cup {NoName}], NEW lv,
         UpdateSessionsList(cs, nm, lv)
  PROVE  /\ told' \subseteq Id
         /\ roster' \in [Id -> SUBSET (Nat \X (Names \cup {NoName}))]
         /\ fault' \in {fault, "freedSession"}
<1>1. Iterated(cs) \subseteq Id
  BY ConnsAreIds DEF Iterated
<1>2. {<<GetId(s), nm[s]>> : s \in Iterated(cs)} \in SUBSET (Nat \X (Names \cup {NoName}))
  BY <1>1, GetIdType
<1> QED
  BY <1>1, <1>2 DEF UpdateSessionsList, TypeOK

\* Every step preserves the type invariant.
LEMMA TypeStep == TypeOK /\ [Next]_vars => TypeOK'
<1> SUFFICES ASSUME TypeOK, [Next]_vars PROVE TypeOK'
  OBVIOUS
<1> USE MaxIdAssumption
<1>c. conns \subseteq Id /\ conns \subseteq Nat
  BY ConnsAreIds DEF Id
<1>i. Iterated(conns) \subseteq conns
  BY DEF Iterated
<1>1. CASE PollStart
  BY <1>1, <1>i, MoveOnType DEF PollStart, TimerEvent, TimerIdle, TypeOK
<1>2. CASE VisitListener
  <2>1. cur' \in conns \cup {0}
    BY <1>2, MoveOnType DEF VisitListener
  <2>2. CASE UNCHANGED <<nextid, conns, http, closing>>
    BY <1>2, <2>1, <2>2 DEF VisitListener, TypeOK
  <2>3. ASSUME NEW tlsInitFails \in BOOLEAN, Accept(tlsInitFails) PROVE TypeOK'
    BY <1>2, <2>1, <2>3 DEF VisitListener, Accept, TypeOK, Id
  <2> QED
    BY <1>2, <2>2, <2>3 DEF VisitListener
<1>3. ASSUME NEW c \in Id, Visit(c) PROVE TypeOK'
  <2>c. Reading(c) => c \in conns
    BY DEF Reading, TypeOK, Id
  <2>1. CASE IoFails(c)
    BY <2>1, <2>c DEF IoFails, TypeOK
  <2>2. ASSUME NEW isHead \in BOOLEAN, HttpServe(c, isHead) PROVE TypeOK'
    BY <2>2, <2>c DEF HttpServe, Requesting, TypeOK
  <2>3. ASSUME NEW asked \in SUBSET HttpKinds, HttpUpgrade(c, asked) PROVE TypeOK'
    <3>1. c \in conns
      BY <2>3, <2>c DEF HttpUpgrade, Requesting
    <3>2. /\ http' \subseteq conns /\ websocket' \subseteq attached' /\ attached' \subseteq conns
          /\ draining' \subseteq conns /\ unsent' \subseteq conns /\ live' \subseteq Id
      BY <2>3, <3>1 DEF HttpUpgrade, AddSession, TypeOK
    <3>3. userName' \in [Id -> Names \cup {NoName}] /\ told' \subseteq Id
      BY <2>3 DEF HttpUpgrade, AddSession, TypeOK
    <3> QED
      BY <2>3, <3>2, <3>3 DEF HttpUpgrade, TypeOK
  <2>4. CASE WsClose(c)
    BY <2>4, <2>c DEF WsClose, Framed, TypeOK
  <2>5. CASE Heartbeat(c)
    BY <2>5, <2>c DEF Heartbeat, Framed, TypeOK
  <2>6. ASSUME NEW targetId \in SessionIds, OnForwardMessage(c, targetId) PROVE TypeOK'
    <3>1. GetSessionById(targetId) \in conns
      BY <2>6, <1>c, <1>i, LookupIterated DEF OnForwardMessage
    <3> QED
      BY <2>6, <3>1 DEF OnForwardMessage, TypeOK
  <2>7. ASSUME NEW sessionId \in SessionIds, NEW name \in Names,
               OnLocalIdEvent(c, sessionId, name)
        PROVE  TypeOK'
    <3> DEFINE session == GetSessionById(GetId(c))
               named   == [userName EXCEPT ![session] = name]
    <3>1. CASE session = NullSession
      BY <2>7, <3>1 DEF OnLocalIdEvent, TypeOK
    <3>2. CASE session # NullSession
      <4>1. named \in [Id -> Names \cup {NoName}]
        BY DEF TypeOK
      <4>2. UpdateSessionsList(conns, named, live) /\ userName' = named
        BY <2>7, <3>2 DEF OnLocalIdEvent
      <4>3. unsent' \subseteq conns
        BY <2>7, <2>c, <3>2, <1>i DEF OnLocalIdEvent, Framed, TypeOK
      <4> HIDE DEF named
      <4>4. /\ told' \subseteq Id
            /\ roster' \in [Id -> SUBSET (Nat \X (Names \cup {NoName}))]
            /\ fault' \in {fault, "freedSession"}
        BY <4>1, <4>2, UpdateSessionsListType
      <4> QED
        BY <2>7, <4>1, <4>2, <4>3, <4>4 DEF OnLocalIdEvent, TypeOK
    <3> QED
      BY <3>1, <3>2
  <2> QED
    BY <1>3, <2>1, <2>2, <2>3, <2>4, <2>5, <2>6, <2>7 DEF Visit
<1>4. CASE KeepConn
  BY <1>4, MoveOnType DEF KeepConn, Written, TypeOK
<1>5. CASE CloseConn
  <2>1. PICK rest \in Written :
           IF cur \in attached THEN DeleteSession(rest) ELSE CloseBare(rest)
    BY <1>5 DEF CloseConn
  <2>2. rest \subseteq conns
    BY DEF Written, TypeOK
  <2>3. cur' \in conns' \cup {0}
    BY <1>5, <1>c DEF CloseConn, FreeConn, MoveOnFrom
  <2>4. /\ told' \subseteq Id
        /\ roster' \in [Id -> SUBSET (Nat \X (Names \cup {NoName}))]
        /\ fault' \in {"none", "nullSession", "freedSession", "freedContext"}
        /\ unsent' \subseteq conns \ {cur}
        /\ live' \subseteq Id
    <3>1. CASE cur \in attached
      <4>1. UpdateSessionsList(conns \ {cur}, userName, live \ {cur})
        BY <2>1, <3>1 DEF DeleteSession
      <4>2. /\ told' \subseteq Id
            /\ roster' \in [Id -> SUBSET (Nat \X (Names \cup {NoName}))]
            /\ fault' \in {fault, "freedSession"}
        BY <4>1, UpdateSessionsListType DEF TypeOK
      <4>3. Iterated(conns \ {cur}) \subseteq conns
        BY DEF Iterated
      <4> QED
        BY <2>1, <2>2, <3>1, <4>2, <4>3 DEF DeleteSession, TypeOK
    <3>2. CASE cur \notin attached
      BY <2>1, <2>2, <3>2 DEF CloseBare, TypeOK
    <3> QED
      BY <3>1, <3>2
  <2> QED
    BY <1>5, <2>3, <2>4 DEF CloseConn, FreeConn, TypeOK
<1>6. CASE CloseOnRequest
  BY <1>6 DEF CloseOnRequest, TypeOK
<1>7. CASE UNCHANGED vars
  BY <1>7 DEF vars, TypeOK
<1> QED
  BY <1>1, <1>2, <1>3, <1>4, <1>5, <1>6, <1>7 DEF Next

\* Every reachable state is well typed.
THEOREM TypeCorrect == Spec => []TypeOK
<1>1. Init => TypeOK
  BY MaxIdAssumption DEF Init, TypeOK, Id, Listener
<1> QED
  BY <1>1, TypeStep, PTL DEF Spec

(***************************************************************************)
(* Ownership of the Session objects and the published rosters              *)
(***************************************************************************)
\* The inductive invariant: freeing a Session is safe because the objects alive
\* are exactly those the list can lead to, and a list already published stays
\* exact because a session cannot leave or be renamed without a new one.
IInv == TypeOK /\ SessionOwnership /\ NoFreedSession /\ RosterExact

\* A broadcast over connections whose sessions are alive establishes the roster
\* part of the invariant for the names it was built from.
LEMMA UpdateSessionsListExact ==
  ASSUME TypeOK, NoFreedSession, NEW cs \in SUBSET conns, NEW nm, NEW lv,
         cs \cap attached \subseteq lv,
         UpdateSessionsList(cs, nm, lv)
  PROVE  /\ told' \subseteq cs \cap attached
         /\ \A w \in told' : roster'[w] = {<<GetId(s), nm[s]>> : s \in told'}
         /\ fault' # "freedSession"
<1>1. conns \subseteq Id /\ cs \subseteq Nat
  BY ConnsAreIds DEF Id
<1>2. Iterated(cs) \subseteq cs \cap attached
  BY <1>1, IteratedAttached
<1>3. Iterated(cs) \subseteq Id
  BY <1>1, <1>2
<1> QED
  BY <1>2, <1>3 DEF UpdateSessionsList, NoFreedSession

\* Every step preserves the inductive invariant.
LEMMA InvStep == IInv /\ [Next]_vars => IInv'
<1> SUFFICES ASSUME IInv, [Next]_vars PROVE IInv'
  OBVIOUS
<1>t. TypeOK /\ TypeOK' /\ conns \subseteq Id /\ conns \subseteq Nat
  BY TypeStep, ConnsAreIds DEF IInv, Id
<1>i. Iterated(conns) \subseteq live
  BY <1>t, IteratedAttached DEF IInv, SessionOwnership
<1> USE <1>t DEF IInv, SessionOwnership, NoFreedSession
<1>1. CASE PollStart
  BY <1>1, <1>i DEF PollStart, TimerEvent, TimerIdle, RosterExact
<1>2. CASE VisitListener
  BY <1>2 DEF VisitListener, Accept, RosterExact
<1>3. ASSUME NEW c \in Id, Visit(c) PROVE IInv'
  <2>1. CASE \/ IoFails(c) \/ WsClose(c) \/ Heartbeat(c)
             \/ \E isHead \in BOOLEAN : HttpServe(c, isHead)
    BY <2>1 DEF IoFails, HttpServe, WsClose, Heartbeat, RosterExact
  <2>2. ASSUME NEW asked \in SUBSET HttpKinds, HttpUpgrade(c, asked) PROVE IInv'
    <3>1. attached' = attached \cup {c} /\ live' = live \cup {c} /\ UNCHANGED <<roster, fault>>
      BY <2>2 DEF HttpUpgrade, AddSession
    <3>2. /\ userName' = [userName EXCEPT ![c] = NoName]
          /\ told' = IF c \in told THEN {} ELSE told
      BY <2>2 DEF HttpUpgrade, AddSession
    <3>3. \A s \in told' : s # c /\ userName'[s] = userName[s]
      BY <3>2 DEF TypeOK
    <3>4. {<<GetId(s), userName'[s]>> : s \in told'} = {<<GetId(s), userName[s]>> : s \in told'}
      BY <3>3
    <3>5. RosterExact'
      BY <3>1, <3>2, <3>4 DEF RosterExact
    <3> QED
      BY <3>1, <3>5
  <2>3. ASSUME NEW targetId \in SessionIds, OnForwardMessage(c, targetId) PROVE IInv'
    BY <2>3 DEF OnForwardMessage, RosterExact
  <2>4. ASSUME NEW sessionId \in SessionIds, NEW name \in Names,
               OnLocalIdEvent(c, sessionId, name)
        PROVE  IInv'
    <3> DEFINE session == GetSessionById(GetId(c))
               named   == [userName EXCEPT ![session] = name]
    <3>1. CASE session = NullSession
      BY <2>4, <3>1 DEF OnLocalIdEvent, RosterExact
    <3>2. CASE session # NullSession
      <4>1. /\ UpdateSessionsList(conns, named, live)
            /\ userName' = named
            /\ UNCHANGED <<live, attached>>
        BY <2>4, <3>2 DEF OnLocalIdEvent
      <4> HIDE DEF named
      <4>2. /\ told' \subseteq conns \cap attached
            /\ \A w \in told' : roster'[w] = {<<GetId(s), named[s]>> : s \in told'}
            /\ fault' # "freedSession"
        BY <4>1, UpdateSessionsListExact
      <4> QED
        BY <4>1, <4>2 DEF RosterExact
    <3> QED
      BY <3>1, <3>2
  <2> QED
    BY <1>3, <2>1, <2>2, <2>3, <2>4 DEF Visit
<1>4. CASE KeepConn
  BY <1>4 DEF KeepConn, RosterExact
<1>5. CASE CloseConn
  <2>1. PICK rest \in Written :
           IF cur \in attached THEN DeleteSession(rest) ELSE CloseBare(rest)
    BY <1>5 DEF CloseConn
  <2>2. /\ attached' = attached \ {cur}
        /\ userName' = [userName EXCEPT ![cur] = NoName]
    BY <1>5 DEF CloseConn, FreeConn
  <2>3. \A s \in Id : s # cur => userName'[s] = userName[s]
    BY <2>2 DEF TypeOK
  <2>4. CASE cur \in attached
    <3>1. UpdateSessionsList(conns \ {cur}, userName, live \ {cur}) /\ live' = live \ {cur}
      BY <2>1, <2>4 DEF DeleteSession
    <3>2. /\ told' \subseteq (conns \ {cur}) \cap attached
          /\ \A w \in told' : roster'[w] = {<<GetId(s), userName[s]>> : s \in told'}
          /\ fault' # "freedSession"
      BY <3>1, UpdateSessionsListExact
    <3>3. \A s \in told' : userName'[s] = userName[s]
      BY <2>3, <3>2
    <3>4. {<<GetId(s), userName'[s]>> : s \in told'} = {<<GetId(s), userName[s]>> : s \in told'}
      BY <3>3
    <3> QED
      BY <2>2, <3>1, <3>2, <3>4 DEF RosterExact
  <2>5. CASE cur \notin attached
    <3>1. UNCHANGED <<live, roster, told, fault>> /\ attached' = attached
      BY <2>1, <2>2, <2>5 DEF CloseBare
    <3>2. \A s \in told : userName'[s] = userName[s]
      BY <2>3, <2>5 DEF RosterExact, TypeOK
    <3>3. {<<GetId(s), userName'[s]>> : s \in told} = {<<GetId(s), userName[s]>> : s \in told}
      BY <3>2
    <3> QED
      BY <3>1, <3>3 DEF RosterExact
  <2> QED
    BY <2>4, <2>5
<1>6. CASE CloseOnRequest
  BY <1>6 DEF CloseOnRequest, RosterExact
<1>7. CASE UNCHANGED vars
  BY <1>7 DEF vars, RosterExact
<1> QED
  BY <1>1, <1>2, <1>3, <1>4, <1>5, <1>6, <1>7 DEF Next

\* The inductive invariant holds in every reachable state.
LEMMA Invariant == Spec => []IInv
<1>1. Init => IInv
  BY MaxIdAssumption
  DEF Init, IInv, TypeOK, SessionOwnership, NoFreedSession, RosterExact, Id, Listener
<1> QED
  BY <1>1, InvStep, PTL DEF Spec

\* The fn_data of a listed connection points to a Session that is alive, second
\* upgrades and files behind an upgrade included, and a Session that a connection
\* had last is freed with it (sessionmgr.cpp:35-39, 69-101).
THEOREM Ownership == Spec => []SessionOwnership
BY Invariant, PTL DEF IInv

\* No walk of the connection list reaches a deleted Session
\* (sessionmgr.cpp:91-101, mongoose.c:5336-5343).
THEOREM NoUseAfterFree == Spec => []NoFreedSession
BY Invariant, PTL DEF IInv

\* The lists held by the sessions the latest broadcast reached are exact
\* (sessionmgr.cpp:146-160, peer.cpp:58-77).
THEOREM RostersExact == Spec => []RosterExact
BY Invariant, PTL DEF IInv

\* While ids are narrower than SessionID_t, an entry of such a list routes to
\* the session of that name or to nobody.
THEOREM RostersRoute ==
  ASSUME MaxId < IdMod
  PROVE  Spec => []RosterRoutes
<1>1. IInv => RosterRoutes
  <2> SUFFICES ASSUME IInv, NEW w \in told, NEW e \in roster[w],
                      GetSessionById(e[1]) # NullSession
               PROVE  userName[GetSessionById(e[1])] = e[2]
    BY DEF RosterRoutes
  <2>1. PICK s \in told : e = <<GetId(s), userName[s]>>
    BY DEF IInv, RosterExact
  <2>2. s \in Id /\ conns \subseteq Id
    BY ConnsAreIds DEF IInv, TypeOK
  <2>3. GetSessionById(GetId(s)) = s
    BY <2>1, <2>2, OwnLookup
  <2> QED
    BY <2>1, <2>3
<1> QED
  BY <1>1, Invariant, PTL

\* Under the same condition, a user name changes only by its session's own
\* LocalIdEvent or its connection's next upgrade (peer.cpp:58-77,
\* sessionmgr.cpp:35-39).
THEOREM NamesOwned ==
  ASSUME MaxId < IdMod
  PROVE  Spec => NameOwnership
<1> DEFINE Owned == \A s \in live \cap live' : userName'[s] # userName[s] => cur = s
<1>1. IInv /\ [Next]_vars => [Owned]_vars
  <2> SUFFICES ASSUME IInv, Next, NEW s \in live \cap live',
                      userName'[s] # userName[s]
               PROVE  cur = s
    OBVIOUS
  <2>s. s \in Id /\ conns \subseteq Id
    BY ConnsAreIds DEF IInv, TypeOK
  <2>1. CASE CloseConn
    BY <2>1, <2>s DEF CloseConn, FreeConn, IInv, TypeOK
  <2>3. ASSUME NEW c \in Id, NEW asked \in SUBSET HttpKinds, HttpUpgrade(c, asked)
        PROVE  cur = s
    <3>1. cur = c /\ userName' = [userName EXCEPT ![c] = NoName]
      BY <2>3 DEF HttpUpgrade, Requesting, Reading, AddSession
    <3> QED
      BY <2>s, <3>1 DEF IInv, TypeOK
  <2>2. ASSUME NEW c \in Id, NEW sessionId \in SessionIds, NEW name \in Names,
               OnLocalIdEvent(c, sessionId, name)
        PROVE  cur = s
    <3> DEFINE session == GetSessionById(GetId(c))
    <3>1. session # NullSession /\ userName' = [userName EXCEPT ![session] = name]
      BY <2>2 DEF OnLocalIdEvent
    <3>2. session = c
      BY <2>s, <3>1, OwnLookup
    <3>3. cur = c
      BY <2>2 DEF OnLocalIdEvent, Framed, Reading
    <3> QED
      BY <2>s, <3>1, <3>2, <3>3 DEF IInv, TypeOK
  <2> QED
    BY <2>1, <2>2, <2>3
    DEF Next, PollStart, VisitListener, Visit, KeepConn, CloseOnRequest, IoFails, HttpServe,
        WsClose, Heartbeat, OnForwardMessage
<1>2. Spec => [][Owned]_vars
  BY <1>1, Invariant, PTL DEF Spec
<1> QED
  BY <1>2 DEF NameOwnership

(***************************************************************************)
(* The ids of the lists                                                    *)
(***************************************************************************)
\* The ids in the lists that clients hold have been handed out, and those of
\* connections that are still listed are of connections with a Session.
Known == \A w \in Id : \A e \in roster[w] :
           e[1] \in 1 .. nextid /\ (e[1] \in conns => e[1] \in attached)

\* A broadcast puts into the lists the ids of listed sessions only.
LEMMA UpdateSessionsListKnown ==
  ASSUME MaxId < IdMod, TypeOK, Known, NEW cs \in SUBSET conns, NEW nm, NEW lv,
         UpdateSessionsList(cs, nm, lv)
  PROVE  \A w \in Id : \A e \in roster'[w] :
            /\ e[1] \in 1 .. nextid
            /\ e[1] \in cs => e[1] \in attached
<1>1. conns \subseteq Id /\ cs \subseteq Nat /\ conns \subseteq 1 .. nextid
  BY ConnsAreIds DEF Id, TypeOK
<1>2. Iterated(cs) \subseteq cs \cap attached /\ Iterated(cs) \subseteq Id
  BY <1>1, IteratedAttached
<1>3. \A s \in Iterated(cs) : GetId(s) = s
  BY <1>2, GetIdIsId
<1> SUFFICES ASSUME NEW w \in Id, NEW e \in roster'[w]
             PROVE  e[1] \in 1 .. nextid /\ (e[1] \in cs => e[1] \in attached)
  OBVIOUS
<1>4. CASE w \in Iterated(cs)
  <2>1. PICK s \in Iterated(cs) : e = <<GetId(s), nm[s]>>
    BY <1>4 DEF UpdateSessionsList
  <2>2. e[1] = s
    BY <2>1, <1>3
  <2> QED
    BY <2>2, <1>1, <1>2
<1>5. CASE w \notin Iterated(cs)
  <2>1. e \in roster[w]
    BY <1>5 DEF UpdateSessionsList
  <2> QED
    BY <2>1 DEF Known
<1> QED
  BY <1>4, <1>5

\* Every step keeps the ids of the lists known, and a newcomer is in none.
LEMMA KnownStep ==
  ASSUME MaxId < IdMod, IInv, Known, Next
  PROVE  /\ Known'
         /\ \A s \in live' \ live : \A w \in live : \A e \in roster[w] : e[1] # GetId(s)
<1> DEFINE Newcomers == \A s \in live' \ live : \A w \in live : \A e \in roster[w] : e[1] # GetId(s)
<1>t. /\ TypeOK /\ TypeOK' /\ conns \subseteq Id /\ live = attached
      /\ nextid \in Nat
  <2>1. TypeOK /\ TypeOK' /\ live = attached
    BY TypeStep DEF IInv, SessionOwnership
  <2>2. nextid \in Nat
    BY <2>1, MaxIdAssumption DEF TypeOK, Id
  <2> QED
    BY <2>1, <2>2, ConnsAreIds
<1>q. ASSUME UNCHANGED <<nextid, conns, roster, live>>, attached \subseteq attached'
      PROVE  Known' /\ Newcomers
  BY <1>q DEF Known
<1>1. CASE PollStart \/ KeepConn \/ CloseOnRequest
  BY <1>1, <1>q DEF PollStart, KeepConn, CloseOnRequest
<1>2. CASE VisitListener
  <2>1. CASE UNCHANGED <<nextid, conns, http, closing>>
    BY <1>2, <2>1, <1>q DEF VisitListener
  <2>2. ASSUME NEW tlsInitFails \in BOOLEAN, Accept(tlsInitFails)
        PROVE  Known' /\ Newcomers
    <3>1. nextid' = nextid + 1 /\ conns' = conns \cup {nextid + 1}
      BY <2>2 DEF Accept
    <3>2. UNCHANGED <<roster, live, attached>>
      BY <1>2 DEF VisitListener
    <3> QED
      BY <3>1, <3>2, <1>t DEF Known
  <2> QED
    BY <1>2, <2>1, <2>2 DEF VisitListener
<1>3. ASSUME NEW c \in Id, Visit(c)
      PROVE  Known' /\ Newcomers
  <2>1. CASE \/ IoFails(c) \/ WsClose(c) \/ Heartbeat(c)
             \/ \E isHead \in BOOLEAN : HttpServe(c, isHead)
             \/ \E targetId \in SessionIds : OnForwardMessage(c, targetId)
    BY <2>1, <1>q DEF IoFails, WsClose, Heartbeat, HttpServe, OnForwardMessage
  <2>2. ASSUME NEW asked \in SUBSET HttpKinds, HttpUpgrade(c, asked)
        PROVE  Known' /\ Newcomers
    <3>1. /\ UNCHANGED <<nextid, conns, roster>>
          /\ attached' = attached \cup {c} /\ live' = live \cup {c}
      BY <2>2 DEF HttpUpgrade, AddSession
    <3>2. c \in conns /\ GetId(c) = c
      BY <2>2, <1>t, GetIdIsId DEF HttpUpgrade, Requesting, TypeOK
    <3>3. Known'
      BY <3>1 DEF Known
    <3>4. Newcomers
      <4> SUFFICES ASSUME NEW s \in live' \ live, NEW w \in live, NEW e \in roster[w], e[1] = GetId(s)
                   PROVE  FALSE
        OBVIOUS
      <4>1. s = c /\ c \notin attached /\ w \in Id
        BY <3>1, <1>t DEF TypeOK
      <4> QED
        BY <4>1, <3>2 DEF Known
    <3> QED
      BY <3>3, <3>4
  <2>3. ASSUME NEW sessionId \in SessionIds, NEW nm \in Names, OnLocalIdEvent(c, sessionId, nm)
        PROVE  Known' /\ Newcomers
    <3> DEFINE session == GetSessionById(GetId(c))
               named   == [userName EXCEPT ![session] = nm]
    <3>1. UNCHANGED <<nextid, conns, live, attached>>
      BY <2>3 DEF OnLocalIdEvent
    <3>2. CASE session = NullSession
      BY <2>3, <3>1, <3>2, <1>q DEF OnLocalIdEvent
    <3>3. CASE session # NullSession
      <4>1. UpdateSessionsList(conns, named, live)
        BY <2>3, <3>3 DEF OnLocalIdEvent
      <4> HIDE DEF named
      <4>2. \A w \in Id : \A e \in roster'[w] :
               e[1] \in 1 .. nextid /\ (e[1] \in conns => e[1] \in attached)
        BY <4>1, <1>t, UpdateSessionsListKnown
      <4> QED
        BY <3>1, <4>2 DEF Known
    <3> QED
      BY <3>2, <3>3
  <2> QED
    BY <1>3, <2>1, <2>2, <2>3 DEF Visit
<1>4. CASE CloseConn
  <2>1. PICK rest \in Written :
           IF cur \in attached THEN DeleteSession(rest) ELSE CloseBare(rest)
    BY <1>4 DEF CloseConn
  <2>2. /\ attached' = attached \ {cur} /\ conns' = conns \ {cur}
        /\ nextid' = nextid /\ live' \subseteq live
    BY <1>4, <2>1 DEF CloseConn, FreeConn, DeleteSession, CloseBare
  <2>3. CASE cur \in attached
    <3>1. UpdateSessionsList(conns \ {cur}, userName, live \ {cur})
      BY <2>1, <2>3 DEF DeleteSession
    <3>2. \A w \in Id : \A e \in roster'[w] :
             e[1] \in 1 .. nextid /\ (e[1] \in conns \ {cur} => e[1] \in attached)
      BY <3>1, <1>t, UpdateSessionsListKnown
    <3> QED
      BY <2>2, <3>2 DEF Known
  <2>4. CASE cur \notin attached
    BY <2>1, <2>2, <2>4 DEF CloseBare, Known
  <2> QED
    BY <2>3, <2>4
<1> QED
  BY <1>1, <1>2, <1>3, <1>4 DEF Next

\* While ids are narrower than SessionID_t, an id that a list still gives to
\* somebody is never given to a newcomer (session.cpp:36, mongoose.c:5331).
THEOREM IdsFresh ==
  ASSUME MaxId < IdMod
  PROVE  Spec => FreshIds
<1> DEFINE Fresh == \A s \in live' \ live : \A w \in live : \A e \in roster[w] : e[1] # GetId(s)
<1>1. Init => Known
  BY DEF Init, Known
<1>2. IInv /\ Known /\ [Next]_vars => Known' /\ [Fresh]_vars
  <2>1. ASSUME IInv, Known, Next PROVE Known' /\ Fresh
    BY <2>1, KnownStep
  <2>2. ASSUME Known, UNCHANGED vars PROVE Known'
    BY <2>2 DEF Known, vars
  <2> QED
    BY <2>1, <2>2
<1> HIDE DEF Fresh
<1>3. Spec => [][Fresh]_vars
  BY <1>1, <1>2, Invariant, PTL DEF Spec
<1> QED
  BY <1>3 DEF FreshIds, Fresh

(***************************************************************************)
(* The server implements the registry                                      *)
(***************************************************************************)
\* Whoever has no session has no name and holds no list: what the registry
\* says of those who are not members.
Unlisted == \A s \in Id \ live : userName[s] = NoName /\ roster[s] = {}

\* A broadcast to sessions that are alive is a Tell of the registry: the
\* sessions told are members, and who is no member is left without a list.
LEMMA UpdateSessionsListTells ==
  ASSUME IInv, Unlisted, NEW cs \in SUBSET conns, NEW nm, NEW lv,
         cs \cap attached = lv, live' = lv, lv \subseteq live,
         UpdateSessionsList(cs, nm, lv)
  PROVE  /\ Iterated(cs) \in SUBSET lv
         /\ roster' = [c \in Id |->
              IF c \in Iterated(cs)
                THEN {<<[x \in Id |-> GetId(x)][d], nm[d]>> : d \in Iterated(cs)}
              ELSE IF c \in live' THEN roster[c] ELSE {}]
<1>1. conns \subseteq Id /\ cs \subseteq Nat
  BY ConnsAreIds DEF IInv, Id
<1>2. Iterated(cs) \subseteq lv /\ Iterated(cs) \subseteq Id
  BY <1>1, IteratedAttached
<1>3. {<<[x \in Id |-> GetId(x)][d], nm[d]>> : d \in Iterated(cs)}
        = {<<GetId(d), nm[d]>> : d \in Iterated(cs)}
  BY <1>2
<1>4. \A c \in Id : (IF c \in cs THEN roster[c] ELSE {}) = IF c \in live' THEN roster[c] ELSE {}
  BY DEF IInv, SessionOwnership, Unlisted
<1>5. roster' = [c \in Id |->
         IF c \in Iterated(cs) THEN {<<GetId(d), nm[d]>> : d \in Iterated(cs)}
         ELSE IF c \in cs THEN roster[c] ELSE {}]
  BY DEF UpdateSessionsList
<1>6. \A c \in Id :
         (IF c \in Iterated(cs) THEN {<<GetId(d), nm[d]>> : d \in Iterated(cs)}
          ELSE IF c \in cs THEN roster[c] ELSE {})
       = (IF c \in Iterated(cs) THEN {<<GetId(d), nm[d]>> : d \in Iterated(cs)}
          ELSE IF c \in live' THEN roster[c] ELSE {})
  BY <1>4
<1> QED
  BY <1>2, <1>3, <1>5, <1>6

\* The steps that leave the registry alone.
LEMMA QuietSteps ==
  ASSUME NEW c,
         \/ PollStart \/ VisitListener \/ KeepConn \/ CloseOnRequest
         \/ IoFails(c) \/ WsClose(c) \/ Heartbeat(c)
         \/ \E isHead \in BOOLEAN : HttpServe(c, isHead)
         \/ \E targetId \in SessionIds : OnForwardMessage(c, targetId)
         \/ UNCHANGED vars
  PROVE  UNCHANGED <<live, userName, roster>>
BY DEF PollStart, VisitListener, KeepConn, CloseOnRequest, IoFails, HttpServe, WsClose,
       Heartbeat, OnForwardMessage, vars

\* A LocalIdEvent is a Rename of the registry, or kills the process and
\* changes nothing (peer.cpp:58-77, sessionmgr.cpp:103-107).
LEMMA LocalIdEventRenames ==
  ASSUME IInv, Unlisted, NEW c \in Id, NEW sessionId \in SessionIds, NEW nm \in Names,
         OnLocalIdEvent(c, sessionId, nm)
  PROVE  /\ UNCHANGED <<live, userName, roster>> \/ \E d \in Id : Registry!Rename(d, nm)
         /\ Unlisted'
<1> DEFINE session == GetSessionById(GetId(c))
           named   == [userName EXCEPT ![session] = nm]
<1>t. TypeOK /\ conns \subseteq Id /\ conns \subseteq Nat /\ live = attached
  BY ConnsAreIds DEF IInv, SessionOwnership, Id
<1>1. CASE session = NullSession
  BY <1>1 DEF OnLocalIdEvent, Unlisted
<1>2. CASE session # NullSession
  <2>1. UpdateSessionsList(conns, named, live) /\ userName' = named /\ live' = live
    BY <1>2 DEF OnLocalIdEvent
  <2>2. session \in Iterated(conns)
    BY <1>t, <1>2, LookupIterated
  <2>3. conns \cap attached = live
    BY <1>t DEF TypeOK
  <2> HIDE DEF named, session
  <2>4. /\ Iterated(conns) \in SUBSET live
        /\ roster' = [d \in Id |->
             IF d \in Iterated(conns)
               THEN {<<[x \in Id |-> GetId(x)][e], named[e]>> : e \in Iterated(conns)}
             ELSE IF d \in live' THEN roster[d] ELSE {}]
    BY <1>t, <2>1, <2>3, UpdateSessionsListTells
  <2>5. session \in Id /\ session \in live
    BY <1>t, <2>2, <2>4 DEF TypeOK
  <2>6. Registry!Rename(session, nm)
    BY <2>1, <2>2, <2>4, <2>5 DEF Registry!Rename, Registry!Tell, named
  <2>7. Unlisted'
    <3>1. \A s \in Id \ live : userName'[s] = NoName
      BY <1>t, <2>1, <2>5 DEF Unlisted, named, TypeOK
    <3>2. \A s \in Id \ live : roster'[s] = {}
      BY <2>1, <2>4
    <3> QED
      BY <2>1, <3>1, <3>2 DEF Unlisted
  <2> QED
    BY <2>5, <2>6, <2>7
<1> QED
  BY <1>1, <1>2

\* The end of a connection is a Leave of the registry, or nothing when it had
\* no session (sessionmgr.cpp:69-101, mongoose.c:5336-5350).
LEMMA CloseLeaves ==
  ASSUME IInv, Unlisted, CloseConn
  PROVE  /\ UNCHANGED <<live, userName, roster>> \/ \E d \in Id : Registry!Leave(d)
         /\ Unlisted'
<1>t. TypeOK /\ conns \subseteq Id /\ conns \subseteq Nat /\ live = attached /\ cur \in Id
  <2>1. TypeOK /\ live = attached
    BY DEF IInv, SessionOwnership
  <2>2. conns \subseteq Id
    BY <2>1, ConnsAreIds
  <2>3. conns \subseteq Nat
    BY <2>2 DEF Id
  <2>4. cur \in conns \cup {0} /\ cur # 0
    BY <2>1 DEF CloseConn, TypeOK
  <2> QED
    BY <2>1, <2>2, <2>3, <2>4
<1>1. PICK rest \in Written :
         IF cur \in attached THEN DeleteSession(rest) ELSE CloseBare(rest)
  BY DEF CloseConn
<1>2. userName' = [userName EXCEPT ![cur] = NoName]
  BY DEF CloseConn, FreeConn
<1>3. CASE cur \in attached
  <2>1. /\ UpdateSessionsList(conns \ {cur}, userName, live \ {cur})
        /\ live' = live \ {cur}
    BY <1>1, <1>3 DEF DeleteSession
  <2>2. (conns \ {cur}) \cap attached = live \ {cur}
    BY <1>t DEF TypeOK
  <2>3. /\ Iterated(conns \ {cur}) \in SUBSET (live \ {cur})
        /\ roster' = [d \in Id |->
             IF d \in Iterated(conns \ {cur})
               THEN {<<[x \in Id |-> GetId(x)][e], userName[e]>> : e \in Iterated(conns \ {cur})}
             ELSE IF d \in live' THEN roster[d] ELSE {}]
    BY <1>t, <2>1, <2>2, UpdateSessionsListTells
  <2> DEFINE told2 == Iterated(conns \ {cur})
  <2>4. \A e \in told2 : userName'[e] = userName[e]
    BY <1>t, <1>2, <2>3 DEF TypeOK
  <2> HIDE DEF told2
  <2>5. {<<[x \in Id |-> GetId(x)][e], userName[e]>> : e \in told2}
          = {<<[x \in Id |-> GetId(x)][e], userName'[e]>> : e \in told2}
    BY <2>4
  <2>6. roster' = [d \in Id |->
             IF d \in told2 THEN {<<[x \in Id |-> GetId(x)][e], userName'[e]>> : e \in told2}
             ELSE IF d \in live' THEN roster[d] ELSE {}]
    BY <2>3, <2>5 DEF told2
  <2>7. told2 \in SUBSET live' /\ cur \in live
    BY <1>t, <1>3, <2>1, <2>3 DEF told2
  <2>8. Registry!Leave(cur)
    BY <1>2, <2>1, <2>6, <2>7 DEF Registry!Leave, Registry!Tell
  <2>9. Unlisted'
    BY <1>t, <1>2, <2>1, <2>6, <2>7 DEF Unlisted, TypeOK
  <2> QED
    BY <1>t, <2>8, <2>9
<1>4. CASE cur \notin attached
  <2>1. UNCHANGED <<live, roster>>
    BY <1>1, <1>4 DEF CloseBare
  <2>2. userName' = userName
    BY <1>t, <1>2, <1>4 DEF Unlisted, TypeOK
  <2> QED
    BY <2>1, <2>2 DEF Unlisted
<1> QED
  BY <1>3, <1>4

\* Every step of the server is a step of the registry or leaves it alone.
LEMMA RegistryStep ==
  IInv /\ Unlisted /\ [Next]_vars => [Registry!Next]_(Registry!vars) /\ Unlisted'
<1> SUFFICES ASSUME IInv, Unlisted, [Next]_vars
             PROVE  [Registry!Next]_(Registry!vars) /\ Unlisted'
  OBVIOUS
<1>q. ASSUME UNCHANGED <<live, userName, roster>>
      PROVE  [Registry!Next]_(Registry!vars) /\ Unlisted'
  BY <1>q DEF Unlisted, Registry!vars
<1>1. CASE PollStart \/ VisitListener \/ KeepConn \/ CloseOnRequest \/ UNCHANGED vars
  BY <1>1, <1>q, QuietSteps
<1>2. ASSUME NEW c \in Id, Visit(c)
      PROVE  [Registry!Next]_(Registry!vars) /\ Unlisted'
  <2>1. CASE \/ IoFails(c) \/ WsClose(c) \/ Heartbeat(c)
             \/ \E isHead \in BOOLEAN : HttpServe(c, isHead)
             \/ \E targetId \in SessionIds : OnForwardMessage(c, targetId)
    BY <2>1, <1>q, QuietSteps
  <2>2. ASSUME NEW asked \in SUBSET HttpKinds, HttpUpgrade(c, asked)
        PROVE  (Registry!Join(c) \/ Registry!Rejoin(c)) /\ Unlisted'
    <3>1. /\ live' = live \cup {c} /\ userName' = [userName EXCEPT ![c] = NoName]
          /\ roster' = roster /\ userName \in [Id -> Names \cup {NoName}]
      BY <2>2 DEF HttpUpgrade, AddSession, IInv, TypeOK
    <3>2. Unlisted'
      BY <3>1 DEF Unlisted
    <3>3. CASE c \in live
      BY <3>1, <3>2, <3>3, live \cup {c} = live DEF Registry!Rejoin
    <3>4. CASE c \notin live
      <4>1. userName' = userName
        BY <3>1, <3>4 DEF Unlisted
      <4> QED
        BY <3>1, <3>2, <3>4, <4>1 DEF Registry!Join
    <3> QED
      BY <3>3, <3>4
  <2>3. ASSUME NEW sessionId \in SessionIds, NEW nm \in Names, OnLocalIdEvent(c, sessionId, nm)
        PROVE  [Registry!Next]_(Registry!vars) /\ Unlisted'
    BY <2>3, <1>q, LocalIdEventRenames DEF Registry!Next
  <2> QED
    BY <1>2, <2>1, <2>2, <2>3 DEF Visit, Registry!Next
<1>3. CASE CloseConn
  BY <1>3, <1>q, CloseLeaves DEF Registry!Next
<1> QED
  BY <1>1, <1>2, <1>3 DEF Next

\* The server implements the registry it is to its clients: every behaviour of
\* the poll loop, for any number of connections, reads as joins, new names and
\* departures (sessionmgr.cpp:80-160, peer.cpp:58-77).
THEOREM RegistryImplemented == Spec => ImplementsRegistry
<1>1. Init => Registry!Init /\ Unlisted
  BY DEF Init, Registry!Init, Unlisted
<1>2. Spec => [][Registry!Next]_(Registry!vars)
  <2>1. Init /\ []IInv /\ [][Next]_vars => []Unlisted
    BY <1>1, RegistryStep, PTL
  <2> QED
    BY <2>1, Invariant, RegistryStep, PTL DEF Spec
<1> QED
  BY <1>1, <1>2 DEF ImplementsRegistry, Registry!Spec, Spec

(***************************************************************************)
(* The list of connections                                                 *)
(***************************************************************************)
\* The listening socket has no Session and is never marked.
ListenerOpen == Listener \notin attached \cup closing

\* Every step of the server is a step of its set of connections or none.
LEMMA ConnSetStep ==
  IInv /\ ListenerOpen /\ [Next]_vars
    => [Connections!Next]_(Connections!vars) /\ ListenerOpen'
<1> SUFFICES ASSUME IInv, ListenerOpen, [Next]_vars
             PROVE  [Connections!Next]_(Connections!vars) /\ ListenerOpen'
  OBVIOUS
<1>t. TypeOK /\ conns \subseteq Nat
  BY ConnsAreIds DEF IInv, Id
<1> USE DEF Connections!Next, Connections!Follows, Connections!Listener, Listener
<1>1. CASE PollStart
  <2>1. Iterated(conns) \subseteq conns \ {Listener} /\ cur = 0
    <3>1. Iterated(conns) \subseteq conns \cap attached
      BY <1>t, IteratedAttached
    <3> QED
      BY <1>1, <3>1 DEF ListenerOpen, PollStart
  <2>2. PICK overdue \in SUBSET (conns \ {Listener}) : closing' = closing \cup overdue
    <3>1. CASE TimerIdle
      BY <3>1, closing' = closing \cup {} DEF TimerIdle
    <3>2. CASE TimerEvent
      BY <2>1, <3>2 DEF TimerEvent
    <3> QED
      BY <1>1, <3>1, <3>2 DEF PollStart
  <2>3. Connections!Begin(overdue)
    BY <1>1, <2>1, <2>2 DEF PollStart, MoveOnFrom, Connections!Begin
  <2>4. ListenerOpen'
    BY <1>1, <2>2 DEF PollStart, ListenerOpen
  <2> QED
    BY <2>3, <2>4
<1>2. CASE VisitListener
  <2>1. CASE UNCHANGED <<nextid, conns, http, closing>>
    <3>1. Connections!Keep
      BY <1>2, <2>1 DEF VisitListener, MoveOnFrom, ListenerOpen, Connections!Keep
    <3> QED
      BY <1>2, <2>1, <3>1 DEF VisitListener, ListenerOpen
  <2>2. ASSUME NEW tlsInitFails \in BOOLEAN, Accept(tlsInitFails)
        PROVE  [Connections!Next]_(Connections!vars) /\ ListenerOpen'
    <3>1. Connections!Accept(tlsInitFails)
      BY <1>2, <2>2 DEF VisitListener, Accept, MoveOnFrom, Connections!Accept
    <3>2. nextid' # Listener
      BY <1>t, <2>2, MaxIdAssumption DEF Accept, TypeOK, Id
    <3> QED
      BY <1>2, <2>2, <3>1, <3>2 DEF VisitListener, Accept, ListenerOpen
  <2> QED
    BY <1>2, <2>1, <2>2 DEF VisitListener
<1>3. ASSUME NEW c \in Id, Visit(c)
      PROVE  [Connections!Next]_(Connections!vars) /\ ListenerOpen'
  <2>1. CASE IoFails(c)
    <3>1. c = cur /\ cur \in conns \ {Listener} /\ cur # 0
      BY <1>t, <2>1, MaxIdAssumption DEF IoFails, Reading, TypeOK, Id
    <3>2. Connections!Mark
      BY <2>1, <3>1 DEF IoFails, Connections!Mark
    <3> QED
      BY <2>1, <3>1, <3>2 DEF IoFails, ListenerOpen
  <2>2. CASE ~IoFails(c)
    <3>1. c # Listener /\ UNCHANGED <<nextid, conns, closing, cur>>
      BY <1>3, <2>2 DEF Visit, HttpServe, HttpUpgrade, WsClose, Heartbeat, OnForwardMessage,
         OnLocalIdEvent, Reading
    <3>2. attached' \subseteq attached \cup {c}
      BY <1>3, <2>2 DEF Visit, HttpServe, HttpUpgrade, AddSession, WsClose, Heartbeat,
         OnForwardMessage, OnLocalIdEvent
    <3> QED
      BY <3>1, <3>2 DEF ListenerOpen, Connections!vars
  <2> QED
    BY <2>1, <2>2
<1>4. CASE KeepConn
  <2>1. Connections!Keep
    BY <1>4 DEF KeepConn, ClosesNow, MoveOnFrom, Connections!Keep
  <2> QED
    BY <1>4, <2>1 DEF KeepConn, ListenerOpen
<1>5. CASE CloseConn
  <2>1. Connections!Drop
    BY <1>5, <1>t DEF CloseConn, FreeConn, MoveOnFrom, TypeOK, Connections!Drop
  <2> QED
    BY <1>5, <2>1 DEF CloseConn, FreeConn, ListenerOpen
<1>6. CASE CloseOnRequest \/ UNCHANGED vars
  BY <1>6 DEF CloseOnRequest, vars, ListenerOpen, Connections!vars
<1> QED
  BY <1>1, <1>2, <1>3, <1>4, <1>5, <1>6 DEF Next

\* The server uses its connections as ConnList provides them: it may take the
\* linked list of mgr->conns for a set sorted by id.
THEOREM ConnectionsAreListed == Spec => ImplementsConnSet
<1>1. Init => Connections!Init /\ ListenerOpen
  BY DEF Init, Connections!Init, Connections!Listener, Listener, ListenerOpen
<1>2. Spec => [][Connections!Next]_(Connections!vars)
  <2>1. Init /\ []IInv /\ [][Next]_vars => []ListenerOpen
    BY <1>1, ConnSetStep, PTL
  <2> QED
    BY <2>1, Invariant, ConnSetStep, PTL DEF Spec
<1> QED
  BY <1>1, <1>2 DEF ImplementsConnSet, Connections!Spec, Spec
=============================================================================
