----------------------------- MODULE WorldState -----------------------------
(***************************************************************************)
(* The facts of the story and the only code that changes them.  The        *)
(* language model proposes events; an event becomes a fact when it is in   *)
(* the list of appliers and its precondition holds in the current state.   *)
(*                                                                         *)
(* Texts are abstract: the only text that is a fact is the plan for        *)
(* another meeting, a member of Plans.  NoPlan is a payload without a      *)
(* usable text, and the value of the column before any proposal.           *)
(***************************************************************************)
EXTENDS Scene

CONSTANTS Plans, NoPlan

ASSUME PlansAssumption == NoPlan \notin Plans

World ==
  [ help_status          : {"not_offered", "offered", "helped"},
    book_owner           : {"seoyun", "player"},
    bookmark_owner       : {"seoyun", "player"},
    future_plan          : Plans \cup {NoPlan},
    future_plan_accepted : BOOLEAN,
    contact_exchanged    : BOOLEAN,
    player_present       : BOOLEAN ]

InitialWorld ==
  [ help_status          |-> "not_offered",
    book_owner           |-> "seoyun",
    bookmark_owner       |-> "seoyun",
    future_plan          |-> NoPlan,
    future_plan_accepted |-> FALSE,
    contact_exchanged    |-> FALSE,
    player_present       |-> TRUE ]

\* The event types that have an applier; any other proposal is dropped.
APPLIERS ==
  { "help_offered", "help_completed", "book_given", "book_declined",
    "book_returned", "bookmark_given", "bookmark_declined",
    "bookmark_returned", "future_plan_proposed", "future_plan_accepted",
    "contact_exchanged", "player_departed", "personal_detail_shared" }

\* A proposal: its type, and the text of its payload.
ProposedEvents == [type : STRING, text : Plans \cup {NoPlan}]

\* The precondition of each applier, in a session whose facts are w and whose
\* current scene is `scene`.
Admissible(w, scene, e) ==
  \/ e.type = "help_offered"         /\ w.help_status = "not_offered"
  \/ e.type = "help_completed"       /\ w.help_status # "helped"
  \/ /\ e.type \in {"book_given", "book_declined"}
     /\ scene >= 2
     /\ w.book_owner = "seoyun"
  \/ e.type = "book_returned"        /\ w.book_owner = "player"
  \/ /\ e.type \in {"bookmark_given", "bookmark_declined"}
     /\ scene >= 2
     /\ w.bookmark_owner = "seoyun"
  \/ e.type = "bookmark_returned"    /\ w.bookmark_owner = "player"
  \/ /\ e.type = "future_plan_proposed"
     /\ e.text # NoPlan
     /\ ~w.future_plan_accepted
  \/ /\ e.type = "future_plan_accepted"
     /\ w.future_plan # NoPlan
     /\ ~w.future_plan_accepted
  \/ e.type = "contact_exchanged"    /\ ~w.contact_exchanged
  \/ e.type = "player_departed"      /\ w.player_present
  \/ e.type = "personal_detail_shared"

\* What each applier assigns.
Applied(w, e) ==
  CASE e.type = "help_offered"         -> [w EXCEPT !.help_status = "offered"]
    [] e.type = "help_completed"       -> [w EXCEPT !.help_status = "helped"]
    [] e.type = "book_given"           -> [w EXCEPT !.book_owner = "player"]
    [] e.type = "book_returned"        -> [w EXCEPT !.book_owner = "seoyun"]
    [] e.type = "bookmark_given"       -> [w EXCEPT !.bookmark_owner = "player"]
    [] e.type = "bookmark_returned"    -> [w EXCEPT !.bookmark_owner = "seoyun"]
    [] e.type = "future_plan_proposed" -> [w EXCEPT !.future_plan = e.text]
    [] e.type = "future_plan_accepted" -> [w EXCEPT !.future_plan_accepted = TRUE]
    [] e.type = "contact_exchanged"    -> [w EXCEPT !.contact_exchanged = TRUE]
    [] e.type = "player_departed"      -> [w EXCEPT !.player_present = FALSE]
    [] OTHER                           -> w

=============================================================================
