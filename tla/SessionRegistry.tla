---------------------------- MODULE SessionRegistry ----------------------------
(***************************************************************************)
(* What the signaling server promises to its clients, without connections, *)
(* polls or buffers: sessions join, take a name and leave; a member that   *)
(* takes a name is told who is there, a departure is told to those who     *)
(* stay, and nobody is ever told of anyone but those told with it.  One    *)
(* that joins a second time has to name itself again.                      *)
(*                                                                         *)
(* Who is told is left open: it may be fewer than all members.  That is    *)
(* the promise SessionServer keeps, whose walk of the connections may be   *)
(* cut short.                                                              *)
(***************************************************************************)
CONSTANTS
  Client,   \* whoever may have a session
  Key,      \* the session id of each client
  Names,    \* user names
  NoName    \* the name of a session that has announced none

VARIABLES
  members,  \* the clients with a session
  name,     \* the user name of each client
  list      \* the last list sent to each member

vars == <<members, name, list>>

\* The list of the clients in reached under the names nm, sent to all of them.
\* Only members hold a list.
Tell(reached, nm) ==
  list' = [c \in Client |-> IF c \in reached THEN {<<Key[d], nm[d]>> : d \in reached}
                            ELSE IF c \in members' THEN list[c] ELSE {}]

Join(c) ==
  /\ c \notin members
  /\ members' = members \cup {c}
  /\ UNCHANGED <<name, list>>

\* A member that joins a second time is nameless, and nobody is told.
Rejoin(c) ==
  /\ c \in members
  /\ name' = [name EXCEPT ![c] = NoName]
  /\ UNCHANGED <<members, list>>

\* The one who takes a name is told, with it in the list.
Rename(c, n) ==
  /\ c \in members
  /\ name' = [name EXCEPT ![c] = n]
  /\ UNCHANGED members
  /\ \E reached \in SUBSET members : c \in reached /\ Tell(reached, name')

\* One who leaves takes its name and its list away, and is told nothing.
Leave(c) ==
  /\ c \in members
  /\ members' = members \ {c}
  /\ name' = [name EXCEPT ![c] = NoName]
  /\ \E reached \in SUBSET members' : Tell(reached, name')

Init ==
  /\ members = {}
  /\ name = [c \in Client |-> NoName]
  /\ list = [c \in Client |-> {}]

Next ==
  \E c \in Client :
     \/ Join(c)
     \/ Rejoin(c)
     \/ \E n \in Names : Rename(c, n)
     \/ Leave(c)

Spec == Init /\ [][Next]_vars
=============================================================================
