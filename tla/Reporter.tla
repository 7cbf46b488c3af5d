------------------------------ MODULE Reporter ------------------------------
(***************************************************************************)
(* What a log of notices promises about the things it is kept on: each     *)
(* notice of a thing says something else than the one before, and          *)
(* something that was so since then; and of a thing that comes to rest the *)
(* log comes to say how it is.  Of a thing that is loose, because a check  *)
(* of it was disturbed, anything may be told.  Notices implements this     *)
(* specification.                                                          *)
(***************************************************************************)
CONSTANTS
  Thing,      \* what is watched
  Value,
  None        \* nothing is known

VARIABLES
  world,      \* how each thing is
  announced,  \* how it is according to the log
  since,      \* how it has been since the last notice of it
  loose

vars == <<world, announced, since, loose>>

Init ==
  /\ world \in [Thing -> Value]
  /\ announced \in [Thing -> Value \cup {None}]
  /\ since = [t \in Thing |-> {world[t]}]
  /\ loose \subseteq Thing

Change ==
  /\ since' = [t \in Thing |-> since[t] \cup {world'[t]}]
  /\ announced' = announced

Announce(t, v) ==
  /\ t \notin loose' => v # announced[t] /\ v \in since[t]
  /\ announced' = [announced EXCEPT ![t] = v]
  /\ since' = [since EXCEPT ![t] = {world[t]}]
  /\ world' = world

Next == Change \/ \E t \in Thing, v \in Value : Announce(t, v)

AtRest(t) == <>[][world'[t] = world[t]]_vars

UpToDate(t) == announced[t] = world[t] \/ t \in loose

Spec == /\ Init /\ [][Next]_vars
        /\ \A t \in Thing : AtRest(t) => []<>UpToDate(t)
=============================================================================
