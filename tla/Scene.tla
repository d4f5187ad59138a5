------------------------------- MODULE Scene -------------------------------
(***************************************************************************)
(* The fixed turn table of a playthrough: which story time and which scene *)
(* a completed turn has, and after which turns the scene changes.          *)
(* Story times are minutes after 20:00.                                    *)
(***************************************************************************)
EXTENDS Naturals, Sequences

MAX_TURNS == 12

Turns == 1..MAX_TURNS

Scenes == 1..4

INITIAL_STORY_TIME == 30

INITIAL_SCENE == 1

TurnStoryTime == <<32, 34, 37, 39, 41, 45, 47, 50, 53, 55, 58, 60>>

TurnScene == <<1, 1, 1, 2, 2, 2, 3, 3, 3, 4, 4, 4>>

\* The scene the turn leads into, 0 when the scene stays.
TransitionsTo(turn) ==
  CASE turn = 3 -> 2
    [] turn = 6 -> 3
    [] turn = 9 -> 4
    [] OTHER    -> 0

\* The scene a session is in once `turn` is complete.
SceneAfter(turn) ==
  CASE turn = 0                 -> INITIAL_SCENE
    [] TransitionsTo(turn) # 0  -> TransitionsTo(turn)
    [] OTHER                    -> TurnScene[turn]

StoryTimeAfter(turn) ==
  IF turn = 0 THEN INITIAL_STORY_TIME ELSE TurnStoryTime[turn]

\* The formula by which the browser gives a past turn its scene when it
\* rebuilds the conversation from the server's messages.
RestoredScene(turn) ==
  LET quarter == (turn \div 3) + 1
  IN  IF quarter < 4 THEN quarter ELSE 4
=============================================================================
