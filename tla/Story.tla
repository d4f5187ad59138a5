------------------------------- MODULE Story -------------------------------
(***************************************************************************)
(* What a playthrough promises its player, with nothing concurrent in it:  *)
(* each request counts once; a turn or a card takes the next turn, the     *)
(* twelfth completes the story; an end request ends it; after that nothing *)
(* counts any more.                                                        *)
(***************************************************************************)
EXTENDS Naturals

CONSTANTS Requests, Kind, MaxTurns

VARIABLES
  turns,      \* completed turns
  phase,      \* "in_progress", "completed" or "ended_early"
  counted     \* the requests that had their effect

storyVars == <<turns, phase, counted>>

Init ==
  /\ turns \in 0..(MaxTurns - 1)
  /\ phase = "in_progress"
  /\ counted = {}

TakeTurn(r) ==
  /\ Kind[r] # "end"
  /\ turns' = turns + 1
  /\ phase' = IF turns + 1 = MaxTurns THEN "completed" ELSE "in_progress"

EndEarly(r) ==
  /\ Kind[r] = "end"
  /\ phase' = "ended_early"
  /\ UNCHANGED turns

Next ==
  \E r \in Requests \ counted :
    /\ phase = "in_progress"
    /\ counted' = counted \cup {r}
    /\ TakeTurn(r) \/ EndEarly(r)

Spec == Init /\ [][Next]_storyVars
=============================================================================
