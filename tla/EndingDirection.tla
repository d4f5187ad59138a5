--------------------------- MODULE EndingDirection ---------------------------
(***************************************************************************)
(* What the picture of an ending shows: what Seoyun holds is decided by    *)
(* the facts (compute_ending_slots); where she is and what she does is     *)
(* proposed by the language model and kept when the facts allow it         *)
(* (validate_image_scene_spec); the keys are then worded by the tables of  *)
(* images/prompts.py, which raise KeyError on a key they do not have.      *)
(*                                                                         *)
(* A story is the facts of a session and whether its card was written.     *)
(* Nothing here reads whether its door was locked: the default place is    *)
(* worded "just as it locked" for a story that was ended early as well.    *)
(* A phrase is represented by its key.                                     *)
(***************************************************************************)
EXTENDS WorldState

Stories == [session : World, written : BOOLEAN]

PROPS == {"the written card", "the book and the keys", "only the keys"}

\* compute_ending_slots
PropsOf(story) ==
  IF story.written THEN "the written card"
  ELSE IF story.session.book_owner = "seoyun" THEN "the book and the keys"
  ELSE "only the keys"

\* The axes without a condition, and the values each takes.
CHOICES ==
  [ camera_shot  |-> {"close", "medium", "full", "wide"},
    camera_angle |-> {"eye_level", "slightly_high", "slightly_low", "side"},
    gaze         |-> {"player", "downward", "away", "object"},
    composition  |-> {"centered", "left_weighted", "right_weighted", "negative_space"},
    mood         |-> {"warm", "restrained", "unresolved", "distant", "relieved", "hopeful",
                      "wistful"},
    lighting     |-> {"warm_interior", "blue_rain", "mixed", "dim_closing", "streetlight"} ]

DEFAULT_DIRECTION ==
  [ location         |-> "still_at_the_door",
    camera_shot      |-> "full",
    camera_angle     |-> "eye_level",
    character_action |-> "turning_back_for_last_look",
    gaze             |-> "player",
    composition      |-> "centered",
    mood             |-> "restrained",
    lighting         |-> "dim_closing" ]

Axes == DOMAIN DEFAULT_DIRECTION

\* A proposal is free text on every axis; an axis left out is the empty text.
Specs == [Axes -> STRING]

NoSpec == [axis \in Axes |-> ""]

\* mutant: nothing need be agreed to walk away together
BugLocationFits(location, s) ==
  \/ location = "still_at_the_door"
  \/ location = "walking_away_together_down_the_rainy_street" /\ s.player_present

\* LOCATION_REQUIREMENTS
LocationFits(location, s) ==
  \/ location = "still_at_the_door"
  \/ location = "standing_a_step_apart_in_silence" /\ s.player_present
  \/ /\ location = "standing_close_in_the_doorway"
     /\ s.player_present /\ (s.contact_exchanged \/ s.future_plan_accepted)
  \/ /\ location = "walking_away_together_down_the_rainy_street"
     /\ s.player_present /\ s.contact_exchanged /\ s.future_plan_accepted
  \/ /\ location \in {"player_already_disappearing_down_the_street",
                      "back_inside_looking_through_the_glass", "sitting_alone_at_the_window"}
     /\ ~s.player_present

\* CHARACTER_ACTION_REQUIREMENTS
ActionFits(action, story) ==
  \/ action \in {"turning_back_for_last_look", "key_ring_in_hand", "adjusting_the_apron_pocket",
                 "watching_the_rain_in_silence", "smiling_faintly_to_herself"}
  \/ action = "holding_the_book_close" /\ story.session.book_owner = "seoyun"
  \/ /\ action \in {"offering_the_card", "clutching_the_card_to_her_chest",
                    "looking_down_at_the_folded_card"}
     /\ story.written
  \/ /\ action \in {"glancing_toward_departing_player", "pausing_mid_step_to_look_back"}
     /\ ~story.session.player_present
  \/ /\ action \in {"waving_softly", "reaching_a_hand_slightly_forward"}
     /\ story.session.player_present
  \/ /\ action = "hands_empty_at_sides"
     /\ story.session.book_owner = "player" /\ story.session.bookmark_owner = "player"

BugAllowed(axis, value, story) == value # ""  \* mutant: any text that is given

Allowed(axis, value, story) ==
  CASE axis = "location"         -> LocationFits(value, story.session)
    [] axis = "character_action" -> ActionFits(value, story)
    [] OTHER                     -> value \in CHOICES[axis]

\* validate_image_scene_spec: what is not allowed is replaced by the default.
Direction(story, spec) ==
  [axis \in Axes |-> IF Allowed(axis, spec[axis], story) THEN spec[axis] ELSE DEFAULT_DIRECTION[axis]]

\* What a job is given: {**compute_ending_slots(...), **direction}.
Slots(story, direction) == [props |-> PropsOf(story), direction |-> direction]

\* The keys of the tables of images/prompts.py.
PHRASES ==
  [ location         |-> {"still_at_the_door", "standing_close_in_the_doorway",
                          "standing_a_step_apart_in_silence",
                          "walking_away_together_down_the_rainy_street",
                          "player_already_disappearing_down_the_street",
                          "back_inside_looking_through_the_glass", "sitting_alone_at_the_window"},
    camera_shot      |-> {"close", "medium", "full", "wide"},
    camera_angle     |-> {"eye_level", "slightly_high", "slightly_low", "side"},
    character_action |-> {"turning_back_for_last_look", "holding_the_book_close",
                          "offering_the_card", "clutching_the_card_to_her_chest",
                          "looking_down_at_the_folded_card", "key_ring_in_hand",
                          "adjusting_the_apron_pocket", "glancing_toward_departing_player",
                          "pausing_mid_step_to_look_back", "waving_softly",
                          "reaching_a_hand_slightly_forward", "hands_empty_at_sides",
                          "watching_the_rain_in_silence", "smiling_faintly_to_herself"},
    gaze             |-> {"player", "downward", "away", "object"},
    composition      |-> {"centered", "left_weighted", "right_weighted", "negative_space"},
    mood             |-> {"warm", "restrained", "unresolved", "distant", "relieved", "hopeful",
                          "wistful"},
    lighting         |-> {"warm_interior", "blue_rain", "mixed", "dim_closing", "streetlight"} ]

\* ending_prompt finds a phrase for every key.
Worded(direction) == \A axis \in Axes : direction[axis] \in PHRASES[axis]
-----------------------------------------------------------------------------
(* What a picture says of the story *)

SaysPresent(d) ==
  \/ d.location \in {"standing_close_in_the_doorway", "standing_a_step_apart_in_silence",
                     "walking_away_together_down_the_rainy_street"}
  \/ d.character_action \in {"waving_softly", "reaching_a_hand_slightly_forward"}

SaysGone(d) ==
  \/ d.location \in {"player_already_disappearing_down_the_street",
                     "back_inside_looking_through_the_glass", "sitting_alone_at_the_window"}
  \/ d.character_action \in {"glancing_toward_departing_player", "pausing_mid_step_to_look_back"}

SaysCard(slots) ==
  \/ slots.props = "the written card"
  \/ slots.direction.character_action \in
       {"offering_the_card", "clutching_the_card_to_her_chest", "looking_down_at_the_folded_card"}

SaysBook(slots) ==
  \/ slots.props = "the book and the keys"
  \/ slots.direction.character_action = "holding_the_book_close"

SaysTogether(d) == d.location = "walking_away_together_down_the_rainy_street"

SaysEmptyHands(d) == d.character_action = "hands_empty_at_sides"

\* The picture agrees with what was confirmed in the story, its door aside.
Fits(slots, story) ==
  LET d == slots.direction
      s == story.session IN
  /\ SaysPresent(d) => s.player_present
  /\ SaysGone(d) => ~s.player_present
  /\ SaysCard(slots) => story.written
  /\ SaysBook(slots) => s.book_owner = "seoyun"
  /\ SaysTogether(d) => s.contact_exchanged /\ s.future_plan_accepted
  /\ SaysEmptyHands(d) => s.book_owner = "player" /\ s.bookmark_owner = "player"
=============================================================================
