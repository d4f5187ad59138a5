------------------------------ MODULE MCTurns ------------------------------
(* Turns on small sets: turn requests of any clients. *)
EXTENDS Turns, TLC

CONSTANTS t1, t2, plan

TurnIds == {t1, t2}

MCKind == [r \in Requests |-> "turn"]

Ev(type) == [type |-> type, text |-> NoPlan]

\* Nothing; a list in which one event is dropped and two are confirmed; the promise
\* of another meeting, accepted before it is made once more.
MCProposals ==
  { << >>,
    << Ev("book_given"), Ev("book_given"), Ev("personal_detail_shared") >>,
    << [type |-> "future_plan_proposed", text |-> plan], Ev("future_plan_accepted"),
       [type |-> "future_plan_proposed", text |-> plan] >> }

MCSymmetry == Permutations(Workers) \cup Permutations(TurnIds)
=============================================================================
