---------------------------- MODULE MCAppearance ----------------------------
(* Appearance on small sets. *)
EXTENDS Appearance

CONSTANTS h1, h2, r1, s1

\* The redraw is sent twice with one id.
MCRepeated == [h \in Runs |-> r1]

\* Bound: the page sends two requests, the same redraw twice or a redraw and a start.
MCTwoRequests ==
  Cardinality({h \in Runs : ~Unsent(h)}
              \cup {s \in Starts : s \in sent \/ starter[s].pc # "none"}) <= 2
=============================================================================
