------------------------------- MODULE MCPlay -------------------------------
(* Play on small sets. *)
EXTENDS Play, TLC

CONSTANTS t1, t2, t3, t4, c1, c2, c3, e1, plan

MCKind ==
  [r \in Requests |->
     CASE r \in {t1, t2, t3, t4} -> "turn"
       [] r = c1 -> "write"
       [] r = c2 -> "leave_blank"
       [] r = c3 -> "long"
       [] r = e1 -> "end"]

Ev(type) == [type |-> type, text |-> NoPlan]

Plan == [type |-> "future_plan_proposed", text |-> plan]

\* Nothing, or the book taken back and given again, something personal said and another
\* meeting promised: the first is dropped in a first such turn, the promise in a second.
MCProposals ==
  { << >>,
    << Ev("book_returned"), Ev("book_given"), Ev("personal_detail_shared"),
       Plan, Ev("future_plan_accepted") >> }

\* The model proposes nothing: for the runs that do not look at the facts.
MCSilence == { << >> }

MCSymmetry == Permutations(Workers) \cup Permutations({t1, t2, t3, t4} \cap Requests)
=============================================================================
