----------------------------- MODULE MCPortrait -----------------------------
(* Portrait on small sets. *)
EXTENDS Portrait

CONSTANTS h1, h2, h3, r1, r2, s1

\* The first request is sent twice, and a third run has one of its own.
MCRepeated == [h \in Runs |-> IF h = h3 THEN r2 ELSE r1]

\* Bound: two requests are made, whichever they are.
MCTwoRequests ==
  Cardinality({h \in Runs : ~At(h, "none")} \cup {s \in Starts : starter[s].pc # "none"}) <= 2
=============================================================================
