------------------------------ MODULE MCEnding ------------------------------
(* Endings of a few stories with a few directions the model may propose. *)
EXTENDS EndingText

CONSTANT plan

\* Together with contact and no plan; gone with nothing given; everything given and the
\* card written.
MCStories ==
  { [session |-> [InitialWorld EXCEPT !.contact_exchanged = TRUE], written |-> FALSE],
    [session |-> [InitialWorld EXCEPT !.player_present = FALSE], written |-> FALSE],
    [session |-> [InitialWorld EXCEPT !.book_owner = "player", !.bookmark_owner = "player"],
     written |-> TRUE] }

Proposed(location, action, mood) ==
  [NoSpec EXCEPT !["location"] = location, !["character_action"] = action, !["mood"] = mood]

\* Nothing; two directions that some of the stories allow; one that is made up.
MCProposals ==
  { NoSpec,
    Proposed("walking_away_together_down_the_rainy_street", "waving_softly", "hopeful"),
    Proposed("sitting_alone_at_the_window", "hands_empty_at_sides", "wistful"),
    Proposed("on_the_roof", "dancing", "euphoric") }
=============================================================================
