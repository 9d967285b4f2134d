-------------------------------- MODULE ConnList --------------------------------
(***************************************************************************)
(* mgr->conns as it is in memory: a list linked by next, which mg_mgr_poll *)
(* walks while the handlers it calls put connections in, take the one      *)
(* being visited out and free it, and walk the list themselves.            *)
(*                                                                         *)
(* A connection is its id.  What a handler decides from flags and buffers, *)
(* to mark a connection closing or to end a walk of its own, is left open. *)
(* SessionServer takes the list for a set; this module shows why it may.   *)
(***************************************************************************)
EXTENDS Integers

CONSTANT MaxId    \* bound on connection ids

ASSUME MaxIdAssumption == MaxId \in Nat \ {0}

VARIABLES
  nextid,    \* mgr->nextid
  head,      \* mgr->conns
  next,      \* the next of each connection
  memory,    \* the connections allocated and not freed
  closing,   \* connections with is_closing
  at,        \* where mg_mgr_poll is
  c, tmp,    \* its variables
  h,         \* that of LIST_DELETE: Null for head, else a connection's next
  it         \* the connection SessionManager::Iterate is at

vars == <<nextid, head, next, memory, closing, at, c, tmp, h, it>>

Id       == 1 .. MaxId
Null     == 0
Listener == 1

\* One thread: the walk of a handler ends before anything else goes on.
Walking == it # Null

(***************************************************************************)
(* The walk of mg_mgr_poll                                                 *)
(***************************************************************************)
\* The next turn of the loop, at n: its successor is saved before the visit.
Turn(n) ==
  /\ c' = n
  /\ tmp' = IF n = Null THEN Null ELSE next[n]
  /\ at' = IF n = Null THEN "idle" ELSE "visit"

PollStart ==
  /\ at = "idle"
  /\ ~Walking
  /\ Turn(head)
  /\ UNCHANGED <<nextid, head, next, memory, closing, h, it>>

\* mg_error, or is_draining with nothing left to send.
Mark ==
  /\ at = "visit"
  /\ ~Walking
  /\ c # Listener
  /\ closing' = closing \cup {c}
  /\ UNCHANGED <<nextid, head, next, memory, at, c, tmp, h, it>>

Keep ==
  /\ at = "visit"
  /\ ~Walking
  /\ c \notin closing
  /\ Turn(tmp)
  /\ UNCHANGED <<nextid, head, next, memory, closing, h, it>>

(***************************************************************************)
(* accept_conn and mg_alloc_conn                                           *)
(***************************************************************************)
\* Seeded fault: LIST_ADD_HEAD with its two lines swapped.
AddHeadSwapped(new) ==
  /\ head' = new
  /\ next' = [next EXCEPT ![new] = head']

\* LIST_ADD_HEAD
AddHead(new) ==
  /\ next' = [next EXCEPT ![new] = head]
  /\ head' = new

\* The listener's visit when a client connects; tlsInitFails as in
\* SessionManager::fn.
Accept(tlsInitFails) ==
  /\ at = "visit"
  /\ ~Walking
  /\ c = Listener
  /\ nextid < MaxId
  /\ nextid' = nextid + 1
  /\ AddHead(nextid')
  /\ memory' = memory \cup {nextid'}
  /\ closing' = IF tlsInitFails THEN closing \cup {nextid'} ELSE closing
  /\ Turn(tmp)
  /\ UNCHANGED <<h, it>>

(***************************************************************************)
(* mg_close_conn                                                           *)
(***************************************************************************)
\* Seeded fault: MG_EV_CLOSE is called, and the memory freed, without
\* LIST_DELETE.
CloseConnListed ==
  /\ at = "visit"
  /\ ~Walking
  /\ c \in closing
  /\ at' = "closed"
  /\ UNCHANGED <<nextid, head, next, memory, closing, c, tmp, h, it>>

CloseConn ==
  /\ at = "visit"
  /\ ~Walking
  /\ c \in closing
  /\ at' = "unlink"
  /\ h' = Null
  /\ UNCHANGED <<nextid, head, next, memory, closing, c, tmp, it>>

\* *h
Pointed == IF h = Null THEN head ELSE next[h]

\* LIST_DELETE: while (*h != c) h = &(*h)->next;
Seek ==
  /\ at = "unlink"
  /\ Pointed # c
  /\ h' = Pointed
  /\ UNCHANGED <<nextid, head, next, memory, closing, at, c, tmp, it>>

\* Seeded fault: the connection after c is taken out as well.
UnlinkTwo ==
  LET beyond == IF next[c] = Null THEN Null ELSE next[next[c]]
  IN  /\ at = "unlink"
      /\ Pointed = c
      /\ IF h = Null THEN head' = beyond /\ UNCHANGED next
                     ELSE next' = [next EXCEPT ![h] = beyond] /\ UNCHANGED head
      /\ at' = "closed"
      /\ h' = Null
      /\ UNCHANGED <<nextid, memory, closing, c, tmp, it>>

\* LIST_DELETE: *h = c->next;  then MG_EV_CLOSE
Unlink ==
  /\ at = "unlink"
  /\ Pointed = c
  /\ IF h = Null THEN head' = next[c] /\ UNCHANGED next
                 ELSE next' = [next EXCEPT ![h] = next[c]] /\ UNCHANGED head
  /\ at' = "closed"
  /\ h' = Null
  /\ UNCHANGED <<nextid, memory, closing, c, tmp, it>>

\* Seeded fault: the loop goes on from the connection it has freed.
FreeThenNext ==
  /\ at = "closed"
  /\ ~Walking
  /\ memory' = memory \ {c}
  /\ closing' = closing \ {c}
  /\ next' = [next EXCEPT ![c] = Null]
  /\ Turn(next'[c])
  /\ UNCHANGED <<nextid, head, h, it>>

\* The memory is zeroed and freed, and the loop goes on.
Free ==
  /\ at = "closed"
  /\ ~Walking
  /\ memory' = memory \ {c}
  /\ closing' = closing \ {c}
  /\ next' = [next EXCEPT ![c] = Null]
  /\ Turn(tmp)
  /\ UNCHANGED <<nextid, head, h, it>>

(***************************************************************************)
(* SessionManager::Iterate, from a timer, from an event of the connection  *)
(* being visited, or from its MG_EV_CLOSE                                  *)
(***************************************************************************)
Iterate ==
  /\ at \in {"idle", "visit", "closed"}
  /\ ~Walking
  /\ it' = head
  /\ UNCHANGED <<nextid, head, next, memory, closing, at, c, tmp, h>>

\* The callback is done with this connection: Session::OnTimerEvent may have
\* marked it.
IterateNext(overdue) ==
  /\ Walking
  /\ it # Listener
  /\ overdue => at = "idle"
  /\ closing' = IF overdue THEN closing \cup {it} ELSE closing
  /\ it' = next[it]
  /\ UNCHANGED <<nextid, head, next, memory, at, c, tmp, h>>

\* The callback is told to stop, or the connection is no websocket.
IterateReturn ==
  /\ Walking
  /\ it' = Null
  /\ UNCHANGED <<nextid, head, next, memory, closing, at, c, tmp, h>>

(***************************************************************************)
(* The specification                                                       *)
(***************************************************************************)
Init ==
  /\ nextid = Listener
  /\ head = Listener
  /\ next = [m \in Id |-> Null]
  /\ memory = {Listener}
  /\ closing = {}
  /\ at = "idle"
  /\ c = Null /\ tmp = Null /\ h = Null /\ it = Null

PollStep ==
  \/ PollStart
  \/ Keep
  \/ CloseConn
  \/ Seek
  \/ Unlink
  \/ Free

WalkStep ==
  \/ \E overdue \in BOOLEAN : IterateNext(overdue)
  \/ IterateReturn

Next ==
  \/ PollStep
  \/ WalkStep
  \/ Iterate
  \/ Mark
  \/ \E tlsInitFails \in BOOLEAN : Accept(tlsInitFails)

Spec == Init /\ [][Next]_vars

\* A visit is a finite piece of code: the walks its handlers make end, and they
\* do not keep the loop from going on.
Fairness == SF_vars(PollStep) /\ WF_vars(WalkStep)

FairSpec == Spec /\ Fairness

(***************************************************************************)
(* Properties                                                              *)
(***************************************************************************)
\* The type invariant.
TypeOK ==
  /\ nextid \in Id
  /\ next \in [Id -> Id \cup {Null}]
  /\ memory \subseteq 1 .. nextid
  /\ closing \subseteq memory
  /\ at \in {"idle", "visit", "unlink", "closed"}
  /\ head \in Id \cup {Null} /\ c \in Id \cup {Null} /\ tmp \in Id \cup {Null}
  /\ h \in Id \cup {Null} /\ it \in Id \cup {Null}

\* The connections in the list.
Linked == IF at = "closed" THEN memory \ {c} ELSE memory

\* Every pointer that will be followed leads to a connection that is allocated,
\* those of the list and of the handlers' walks to one that is listed: neither
\* the order in which connections close nor a walk made from the MG_EV_CLOSE of
\* one of them reaches freed memory.
NoDangling ==
  /\ {c, tmp, h} \subseteq memory \cup {Null}
  /\ {head, it} \subseteq Linked \cup {Null}
  /\ \A m \in Linked : next[m] \in Linked \cup {Null}

\* LIST_DELETE tests no pointer for NULL: it never looks beyond the last
\* connection.
DeleteFinds == at = "unlink" => Pointed # Null

\* The walk and the list are those of SessionServer: a connection accepted or
\* closed in the middle of a walk costs no other its visit.
Set == INSTANCE ConnSet WITH conns <- memory, cur <- c

ImplementsSet == Set!Spec

\* A poll ends, whatever is accepted, marked and closed in its course.
PollEnds == at # "idle" ~> at = "idle"
=============================================================================
