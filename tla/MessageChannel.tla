----------------------------- MODULE MessageChannel -----------------------------
(***************************************************************************)
(* What a websocket promises to the session at its end: the messages that  *)
(* the client has sent whole are heard once each, as they were sent and in *)
(* the order of sending, until the connection closes.                      *)
(***************************************************************************)
EXTENDS Sequences, Integers

CONSTANT Message

VARIABLES
  owed,   \* the messages sent and not heard yet
  last,   \* the message heard last, <<>> if there is none
  closed

vars == <<owed, last, closed>>

Init ==
  /\ owed = <<>>
  /\ last = <<>>
  /\ closed = FALSE

Say(m) ==
  /\ owed' = Append(owed, m)
  /\ UNCHANGED <<last, closed>>

Hear ==
  /\ ~closed
  /\ owed # <<>>
  /\ last' = Head(owed)
  /\ owed' = Tail(owed)
  /\ UNCHANGED closed

Close ==
  /\ closed' = TRUE
  /\ UNCHANGED <<owed, last>>

Next ==
  \/ \E m \in Message : Say(m)
  \/ Hear
  \/ Close

Spec == Init /\ [][Next]_vars
=============================================================================
