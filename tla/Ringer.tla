--------------------------------- MODULE Ringer ---------------------------------
(***************************************************************************)
(* The ringing of the web page (audio.js, and its use in ui.js).           *)
(*                                                                         *)
(* Every play makes a source of its own, and remembers it as the one that  *)
(* stop stops.  A source that has ended queues its onended event, whose    *)
(* handler plays the sound again unless the call state says not to.        *)
(***************************************************************************)
EXTENDS Integers

CONSTANT
  MaxLoops     \* bound on the sources of one sound

ASSUME RingerAssumption == MaxLoops \in Nat

VARIABLE
  sounds       \* the sources of remote-ring (0) and telephone-ring (1)

Sound == {0, 1}

Sources ==
  [older  : 0 .. MaxLoops,                   \* playing, but no longer in sounds[idx]
   latest : {"none", "playing", "over"},  \* sounds[idx]
   ended  : 0 .. MaxLoops]                   \* whose onended has not run

Sounding(s)  == IF s.latest = "playing" THEN 1 ELSE 0
Loops(s)     == s.older + Sounding(s) + s.ended

\* Seeded fault: the sound is played anew only when none of it is left.
PlayedOnce(s) == IF s.latest = "none" THEN [s EXCEPT !.latest = "playing"] ELSE s

\* play
Played(s) == [s EXCEPT !.older = @ + Sounding(s), !.latest = "playing"]

\* stop: of the latest source only, whose onended then comes.
Stopped(s) ==
  IF s.latest = "playing" THEN [s EXCEPT !.latest = "over", !.ended = @ + 1] ELSE s

\* abort_fn, for either sound
Aborts(state) == state \in {"Idle", "Connected"}

\* Seeded fault: Connected leaves it to abort_fn to end the ringing.
RungUnlessConnected(snds, state) ==
  CASE state = "Calling" -> [snds EXCEPT ![0] = Played(@)]
    [] state = "Ringing" -> [snds EXCEPT ![1] = Played(@)]
    [] state = "Idle"    -> [i \in Sound |-> Stopped(snds[i])]
    [] OTHER             -> snds

\* UpdateCallStateUI: what it plays and stops.
Rung(snds, state) ==
  CASE state = "Calling" -> [snds EXCEPT ![0] = Played(@)]
    [] state = "Ringing" -> [snds EXCEPT ![1] = Played(@)]
    [] Aborts(state)     -> [i \in Sound |-> Stopped(snds[i])]
    [] OTHER             -> snds

RingerTypeOK == sounds \in [Sound -> Sources] /\ \A i \in Sound : Loops(sounds[i]) <= MaxLoops

RingerInit == sounds = [i \in Sound |-> [older |-> 0, latest |-> "none", ended |-> 0]]

\* A source comes to its end.
SoundEnds(i) ==
  LET s == sounds[i]
  IN  \/ /\ s.older > 0
         /\ sounds' = [sounds EXCEPT ![i].older = @ - 1, ![i].ended = @ + 1]
      \/ /\ s.latest = "playing"
         /\ sounds' = [sounds EXCEPT ![i] = Stopped(s)]

\* Seeded fault: the sound is repeated whatever the call state.
OnEndedRepeats(i, state) ==
  LET s == [sounds[i] EXCEPT !.ended = @ - 1]
  IN  /\ sounds[i].ended > 0
      /\ sounds' = [sounds EXCEPT ![i] = Played(s)]

\* onended
OnEnded(i, state) ==
  LET s == [sounds[i] EXCEPT !.ended = @ - 1]
  IN  /\ sounds[i].ended > 0
      /\ sounds' = [sounds EXCEPT ![i] = IF Aborts(state) THEN Stopped(s) ELSE Played(s)]
=============================================================================
