--------------------------------- MODULE ConnSet ---------------------------------
(***************************************************************************)
(* What a poll promises of the connections of a manager, as SessionServer  *)
(* assumes it: one walk visits those that are open, each once, the         *)
(* youngest first and the listener last; a connection accepted on the way  *)
(* waits for the next walk; only the one being visited is taken away, and  *)
(* one marked closing is.                                                  *)
(***************************************************************************)
EXTENDS Integers

CONSTANT MaxId

VARIABLES
  nextid,
  conns,
  closing,
  cur      \* the connection being visited, 0 between two walks

vars == <<nextid, conns, closing, cur>>

Listener == 1

\* n is the connection of S to be visited after x, 0 if there is none.
Follows(S, x, n) ==
  /\ n \in S \cup {0}
  /\ n < x
  /\ \A d \in S : d < x => d <= n

Init ==
  /\ nextid = Listener
  /\ conns = {Listener}
  /\ closing = {}
  /\ cur = 0

\* Timers run between two walks and may mark any connection.
Begin(overdue) ==
  /\ cur = 0
  /\ Follows(conns, MaxId + 1, cur')
  /\ closing' = closing \cup overdue
  /\ UNCHANGED <<nextid, conns>>

Mark ==
  \E d \in (IF cur = 0 THEN conns ELSE {cur}) \ {Listener} :
     /\ closing' = closing \cup {d}
     /\ UNCHANGED <<nextid, conns, cur>>

Accept(marked) ==
  /\ cur = Listener
  /\ nextid < MaxId
  /\ nextid' = nextid + 1
  /\ conns' = conns \cup {nextid'}
  /\ closing' = IF marked THEN closing \cup {nextid'} ELSE closing
  /\ Follows(conns, cur, cur')

Keep ==
  /\ cur # 0
  /\ cur \notin closing
  /\ Follows(conns, cur, cur')
  /\ UNCHANGED <<nextid, conns, closing>>

Drop ==
  /\ cur \notin {0, Listener}
  /\ conns' = conns \ {cur}
  /\ closing' = closing \ {cur}
  /\ Follows(conns, cur, cur')
  /\ UNCHANGED nextid

Next ==
  \/ \E overdue \in SUBSET (conns \ {Listener}) : Begin(overdue)
  \/ Mark
  \/ \E marked \in BOOLEAN : Accept(marked)
  \/ Keep
  \/ Drop

Spec == Init /\ [][Next]_vars
=============================================================================
