------------------------- MODULE SessionSlots_proofs -------------------------
(***************************************************************************)
(* The sessions of a code, for any requests, any threads and any budget.   *)
(*                                                                         *)
(* The argument: an id belongs to one row and to the one thread that made  *)
(* it (IdsBelong), so that an answer names the row of its own request; a   *)
(* thread that nobody meets finds its number free and its row present      *)
(* (LoneFits); a request that never met itself has at most one row, which  *)
(* its answer or the one thread that serves it names (OneRow); the         *)
(* sessions and the threads that counted them grow together (Budget).      *)
(***************************************************************************)
EXTENDS SessionSlots, FiniteSetTheorems, TLAPS

\* The ids and the numbers that were given out.
Given ==
  /\ \A s \in sessions : s.id \in 1 .. made /\ s.index \in 1 .. made
  /\ \A w \in Workers :
       /\ handler[w].at # "idle" => handler[w].request \in Requests
       /\ handler[w].at = "inserting" => handler[w].index \in 1 .. made + 1
       /\ handler[w].at \in {"painting", "storing"} =>
            handler[w].index \in 1 .. made /\ handler[w].id \in 1 .. made

\* Of any sessions one has the largest index.
HasLast == \A T \in SUBSET sessions : T # {} => \E s \in T : \A t \in T : t.index <= s.index

\* An id belongs to one row or to one thread.
IdsBelong ==
  /\ \A s, t \in sessions : s.id = t.id => s = t
  /\ \A v, w \in Workers :
       /\ handler[v].at \in {"painting", "storing"}
       /\ handler[w].at \in {"painting", "storing"}
       /\ handler[v].id = handler[w].id
       => v = w
  /\ \A w \in Workers, s \in sessions :
       s.id = handler[w].id =>
         /\ handler[w].at # "painting"
         /\ handler[w].at = "storing" => s.by = handler[w].request

\* A creation that nobody has met finds its number free, its row there and its
\* request without an answer.
LoneFits ==
  \A w \in Workers : Running(w) /\ handler[w].alone =>
    /\ \A v \in Workers \ {w} : ~Running(v)
    /\ answers[handler[w].request] = 0
    /\ handler[w].at = "inserting" => \A s \in sessions : s.index < handler[w].index
    /\ handler[w].at = "storing" => \E s \in sessions : s.id = handler[w].id

\* A request that has not met itself is served by one thread at a time, and its row is
\* the one its answer names, or the one that thread is storing the answer for.
OneRow ==
  \A r \in Requests \ disturbed :
    /\ \A v, w \in Workers :
         Running(v) /\ Running(w) /\ handler[v].request = r /\ handler[w].request = r => v = w
    /\ \A w \in Workers : Running(w) /\ handler[w].request = r => answers[r] = 0
    /\ \A s \in sessions : s.by = r =>
         \/ answers[r] = s.id
         \/ \E w \in Workers : /\ handler[w].at = "storing" /\ handler[w].request = r
                               /\ handler[w].id = s.id

\* The sessions, and the creations that may still add one.
Budget ==
  image_budget_sessions > 0 /\ Workers # {}
    => Cardinality(sessions) + Cardinality(Counted)
         <= image_budget_sessions + Cardinality(Workers) - 1

IInv ==
  /\ TypeOK
  /\ Given
  /\ HasLast
  /\ IdsBelong
  /\ AnswerNamesItsSession
  /\ LoneFits
  /\ LoneCreationFits
  /\ OneRow
  /\ IsFiniteSet(sessions)
  /\ Budget
-----------------------------------------------------------------------------
\* MAX(index) + 1 is a number, above every index there is.
LEMMA NextIndexFits ==
  ASSUME TypeOK, Given, HasLast
  PROVE  NextIndex \in 1 .. made + 1 /\ \A s \in sessions : s.index < NextIndex
PROOF
  <1>1. \E n \in 1 .. made + 1 :
          /\ \A s \in sessions : s.index < n
          /\ n = 1 \/ \E s \in sessions : s.index = n - 1
    <2>1. CASE sessions = {}
      <3>1. 1 \in 1 .. made + 1 BY DEF TypeOK
      <3> QED BY <2>1, <3>1
    <2>2. CASE sessions # {}
      <3>1. PICK s \in sessions : \A t \in sessions : t.index <= s.index
        BY <2>2 DEF HasLast
      <3>2. s.index \in 1 .. made /\ made \in Nat BY DEF Given, TypeOK
      <3>3. \A t \in sessions : t.index \in Nat BY DEF TypeOK, Sessions
      <3>4. /\ s.index + 1 \in 1 .. made + 1
            /\ \A t \in sessions : t.index < s.index + 1
            /\ s.index = (s.index + 1) - 1
        BY <3>1, <3>2, <3>3
      <3> QED BY <3>4
    <2> QED BY <2>1, <2>2
  <1> QED BY <1>1 DEF NextIndex

\* The threads are finitely many, and so are those that have counted.
LEMMA CountedIsFinite ==
  /\ Cardinality(Workers) \in Nat
  /\ IsFiniteSet(Counted) /\ Cardinality(Counted) \in Nat
  /\ Cardinality(Counted) <= Cardinality(Workers)
PROOF
  <1>1. Counted \subseteq Workers BY DEF Counted
  <1> QED BY <1>1, WorkersAssumption, FS_Subset, FS_CardinalityType

\* A thread goes on as before, and is no longer alone if it is running.
Untouched(v) ==
  /\ handler'[v].at = handler[v].at /\ handler'[v].request = handler[v].request
  /\ handler'[v].index = handler[v].index /\ handler'[v].id = handler[v].id
  /\ handler'[v].reply = handler[v].reply
  /\ handler'[v].alone => handler[v].alone /\ ~Running(v)

\* What the arrival of a request makes of the threads.
LEMMA Received ==
  ASSUME TypeOK, NEW w \in Workers, NEW r \in Requests, Receive(w, r)
  PROVE  /\ handler' \in [Workers -> Handlers]
         /\ handler'[w].request = r /\ handler'[w].reply \in {"none", "ok"}
         /\ handler'[w].at = IF Stored(r) THEN "done" ELSE "counting"
         /\ handler'[w].alone => \A u \in Workers : ~Running(u)
         /\ \A v \in Workers \ {w} : Untouched(v)
PROOF
  <1> DEFINE new == [Free EXCEPT !.request = r,
                                 !.at      = IF Stored(r) THEN "done" ELSE "counting",
                                 !.reply   = IF Stored(r) THEN "ok" ELSE "none",
                                 !.alone   = \A u \in Workers : ~Running(u)]
  <1>1. /\ new.request = r /\ new.index = 0 /\ new.id = 0
        /\ new.at = IF Stored(r) THEN "done" ELSE "counting"
        /\ new.reply = IF Stored(r) THEN "ok" ELSE "none"
        /\ new.alone = (\A u \in Workers : ~Running(u))
    BY DEF Free
  <1>2. new \in Handlers BY DEF Free, Handlers
  <1>3. /\ DOMAIN handler' = Workers
        /\ handler' = [v \in Workers |-> handler'[v]]
        /\ handler'[w] = new
        /\ \A v \in Workers \ {w} :
             handler'[v] = IF Running(v) THEN [handler[v] EXCEPT !.alone = FALSE] ELSE handler[v]
    <2>1. ~Running(w) BY DEF Receive, Running
    <2> QED BY <2>1 DEF Receive
  <1> HIDE DEF new
  <1>4. ASSUME NEW v \in Workers \ {w}
        PROVE  handler'[v] \in Handlers /\ Untouched(v)
    <2>1. handler[v] \in Handlers BY DEF TypeOK
    <2> QED BY <1>3, <2>1 DEF Handlers, Untouched
  <1>5. \A v \in Workers : handler'[v] \in Handlers BY <1>2, <1>3, <1>4
  <1>6. handler' \in [Workers -> Handlers] BY <1>3, <1>5
  <1> QED BY <1>1, <1>3, <1>4, <1>6

\* Every step keeps the types.
LEMMA NextTypeOK == TypeOK /\ Given /\ HasLast /\ [Next]_vars => TypeOK'
PROOF
  <1> SUFFICES ASSUME TypeOK, Given, HasLast, [Next]_vars PROVE TypeOK' OBVIOUS
  <1> USE DEF TypeOK, Sessions, Handlers, Free, Goes, Replies, Given
  <1>1. ASSUME NEW w \in Workers, NEW r \in Requests, Receive(w, r) PROVE TypeOK'
    <2>1. UNCHANGED << sessions, answers, made >> /\ disturbed' \subseteq Requests
      BY <1>1 DEF Receive
    <2>2. handler' \in [Workers -> Handlers] BY <1>1, Received
    <2> QED BY <2>1, <2>2
  <1>2. ASSUME NEW w \in Workers, CountSessions(w) PROVE TypeOK'
    BY <1>2 DEF CountSessions
  <1>3. ASSUME NEW w \in Workers, ReadIndex(w) PROVE TypeOK'
    <2>1. NextIndex \in Nat BY NextIndexFits
    <2> QED BY <1>3, <2>1 DEF ReadIndex
  <1>4. ASSUME NEW w \in Workers, Insert(w) PROVE TypeOK'
    BY <1>4 DEF Insert
  <1>5. ASSUME NEW w \in Workers, CommitSession(w) PROVE TypeOK'
    BY <1>5 DEF CommitSession
  <1>6. ASSUME NEW w \in Workers, Store(w) PROVE TypeOK'
    BY <1>6 DEF Store
  <1>7. ASSUME NEW w \in Workers, Release(w) PROVE TypeOK'
    BY <1>7 DEF Release, Free
  <1>8. ASSUME NEW s \in sessions, Delete(s) PROVE TypeOK'
    <2>1. answers' \in [Requests -> Nat] BY <1>8 DEF Delete, AnswersWithout
    <2>2. \A w \in Workers : [handler[w] EXCEPT !.alone = FALSE] \in Handlers
      OBVIOUS
    <2>3. handler' \in [Workers -> Handlers] BY <1>8, <2>2 DEF Delete
    <2> QED BY <1>8, <2>1, <2>3 DEF Delete
  <1>9. CASE Crash
    BY <1>9 DEF Crash, Free
  <1>10. CASE UNCHANGED vars
    BY <1>10 DEF vars
  <1> QED BY <1>1, <1>2, <1>3, <1>4, <1>5, <1>6, <1>7, <1>8, <1>9, <1>10 DEF Next, Create

\* Every step keeps ids and numbers among those given out.
LEMMA NextGiven == TypeOK /\ Given /\ HasLast /\ [Next]_vars => Given'
PROOF
  <1> SUFFICES ASSUME TypeOK, Given, HasLast, [Next]_vars PROVE Given' OBVIOUS
  <1> USE DEF TypeOK, Sessions, Handlers, Given, Free, Goes, Replies
  <1>1. ASSUME NEW w \in Workers, NEW r \in Requests, Receive(w, r) PROVE Given'
    BY <1>1 DEF Receive, Running
  <1>2. ASSUME NEW w \in Workers, CountSessions(w) PROVE Given'
    BY <1>2 DEF CountSessions
  <1>3. ASSUME NEW w \in Workers, ReadIndex(w) PROVE Given'
    BY <1>3, NextIndexFits DEF ReadIndex
  <1>4. ASSUME NEW w \in Workers, Insert(w) PROVE Given'
    BY <1>4 DEF Insert
  <1>5. ASSUME NEW w \in Workers, CommitSession(w) PROVE Given'
    BY <1>5 DEF CommitSession
  <1>6. ASSUME NEW w \in Workers, Store(w) PROVE Given'
    BY <1>6 DEF Store
  <1>7. ASSUME NEW w \in Workers, Release(w) PROVE Given'
    BY <1>7 DEF Release, Free
  <1>8. ASSUME NEW s \in sessions, Delete(s) PROVE Given'
    BY <1>8 DEF Delete
  <1>9. CASE Crash
    BY <1>9 DEF Crash, Free
  <1>10. CASE UNCHANGED vars
    BY <1>10 DEF vars
  <1> QED BY <1>1, <1>2, <1>3, <1>4, <1>5, <1>6, <1>7, <1>8, <1>9, <1>10 DEF Next, Create

\* Every step leaves a largest index.
LEMMA NextHasLast == TypeOK /\ HasLast /\ [Next]_vars => HasLast'
PROOF
  <1> SUFFICES ASSUME TypeOK, HasLast, [Next]_vars PROVE HasLast' OBVIOUS
  <1> USE DEF TypeOK, Sessions, HasLast
  <1>1. ASSUME NEW w \in Workers, NEW r \in Requests, Receive(w, r) PROVE HasLast'
    BY <1>1 DEF Receive
  <1>2. ASSUME NEW w \in Workers, CountSessions(w) PROVE HasLast'
    BY <1>2 DEF CountSessions
  <1>3. ASSUME NEW w \in Workers, ReadIndex(w) PROVE HasLast'
    BY <1>3 DEF ReadIndex
  <1>4. ASSUME NEW w \in Workers, Insert(w) PROVE HasLast'
    BY <1>4 DEF Insert
  <1>5. ASSUME NEW w \in Workers, CommitSession(w) PROVE HasLast'
    <2>1. PICK new : new.index \in Nat /\ sessions' = sessions \cup {new}
      <3>1. handler[w].index \in Nat BY DEF Handlers
      <3> QED BY <1>5, <3>1 DEF CommitSession
    <2> SUFFICES ASSUME NEW T \in SUBSET sessions', T # {}
                 PROVE  \E s \in T : \A t \in T : t.index <= s.index
      OBVIOUS
    <2>2. CASE T \ {new} = {}
      <3>1. T = {new} BY <2>2
      <3> QED BY <2>1, <3>1
    <2>3. CASE T \ {new} # {}
      <3>1. T \ {new} \subseteq sessions BY <2>1
      <3>2. PICK s \in T \ {new} : \A t \in T \ {new} : t.index <= s.index BY <2>3, <3>1
      <3>3. \A t \in T \ {new} : t.index \in Nat BY <3>1
      <3>4. CASE new.index <= s.index BY <3>2, <3>4
      <3>5. CASE ~(new.index <= s.index) /\ new \in T BY <2>1, <3>2, <3>3, <3>5
      <3>6. CASE new \notin T BY <3>2, <3>6
      <3> QED BY <3>4, <3>5, <3>6
    <2> QED BY <2>2, <2>3
  <1>6. ASSUME NEW w \in Workers, Store(w) PROVE HasLast'
    BY <1>6 DEF Store
  <1>7. ASSUME NEW w \in Workers, Release(w) PROVE HasLast'
    BY <1>7 DEF Release, Free
  <1>8. ASSUME NEW s \in sessions, Delete(s) PROVE HasLast'
    BY <1>8 DEF Delete
  <1>9. CASE Crash
    BY <1>9 DEF Crash, Free
  <1>10. CASE UNCHANGED vars
    BY <1>10 DEF vars
  <1> QED BY <1>1, <1>2, <1>3, <1>4, <1>5, <1>6, <1>7, <1>8, <1>9, <1>10 DEF Next, Create

\* Every step leaves an id with the row and the thread it belongs to.
LEMMA NextIdsBelong == TypeOK /\ Given /\ IdsBelong /\ [Next]_vars => IdsBelong'
PROOF
  <1> SUFFICES ASSUME TypeOK, Given, IdsBelong, [Next]_vars PROVE IdsBelong' OBVIOUS
  <1> USE DEF TypeOK, Sessions, Handlers, Given, IdsBelong, Free, Goes, Replies
  <1>1. ASSUME NEW w \in Workers, NEW r \in Requests, Receive(w, r) PROVE IdsBelong'
    <2>1. UNCHANGED sessions BY <1>1 DEF Receive
    <2>2. handler'[w].at \notin {"painting", "storing"} BY <1>1, Received
    <2>3. \A v \in Workers \ {w} : Untouched(v) BY <1>1, Received
    <2> QED BY <2>1, <2>2, <2>3 DEF Untouched
  <1>2. ASSUME NEW w \in Workers, CountSessions(w) PROVE IdsBelong'
    BY <1>2 DEF CountSessions
  <1>3. ASSUME NEW w \in Workers, ReadIndex(w) PROVE IdsBelong'
    BY <1>3 DEF ReadIndex
  <1>4. ASSUME NEW w \in Workers, Insert(w) PROVE IdsBelong'
    BY <1>4 DEF Insert
  <1>5. ASSUME NEW w \in Workers, CommitSession(w) PROVE IdsBelong'
    BY <1>5 DEF CommitSession
  <1>6. ASSUME NEW w \in Workers, Store(w) PROVE IdsBelong'
    BY <1>6 DEF Store
  <1>7. ASSUME NEW w \in Workers, Release(w) PROVE IdsBelong'
    BY <1>7 DEF Release, Free
  <1>8. ASSUME NEW s \in sessions, Delete(s) PROVE IdsBelong'
    BY <1>8 DEF Delete, Running
  <1>9. CASE Crash
    BY <1>9 DEF Crash, Free
  <1>10. CASE UNCHANGED vars
    BY <1>10 DEF vars
  <1> QED BY <1>1, <1>2, <1>3, <1>4, <1>5, <1>6, <1>7, <1>8, <1>9, <1>10 DEF Next, Create

\* Every step leaves an answer with the session it names.
LEMMA NextAnswerNamesItsSession == TypeOK /\ Given /\ IdsBelong /\ AnswerNamesItsSession /\ [Next]_vars => AnswerNamesItsSession'
PROOF
  <1> SUFFICES ASSUME TypeOK, Given, IdsBelong, AnswerNamesItsSession, [Next]_vars PROVE AnswerNamesItsSession' OBVIOUS
  <1> USE DEF TypeOK, Sessions, Handlers, Given, IdsBelong, AnswerNamesItsSession, Goes, Replies
  <1>1. ASSUME NEW w \in Workers, NEW r \in Requests, Receive(w, r) PROVE AnswerNamesItsSession'
    <2>1. UNCHANGED << sessions, answers >> BY <1>1 DEF Receive
    <2>2. handler'[w].at \in {"done", "counting"} BY <1>1, Received
    <2>3. \A v \in Workers \ {w} : Untouched(v) BY <1>1, Received
    <2> QED BY <2>1, <2>2, <2>3 DEF Untouched
  <1>2. ASSUME NEW w \in Workers, CountSessions(w) PROVE AnswerNamesItsSession'
    BY <1>2 DEF CountSessions
  <1>3. ASSUME NEW w \in Workers, ReadIndex(w) PROVE AnswerNamesItsSession'
    BY <1>3 DEF ReadIndex
  <1>4. ASSUME NEW w \in Workers, Insert(w) PROVE AnswerNamesItsSession'
    BY <1>4 DEF Insert
  <1>5. ASSUME NEW w \in Workers, CommitSession(w) PROVE AnswerNamesItsSession'
    BY <1>5 DEF CommitSession
  <1>6. ASSUME NEW w \in Workers, Store(w) PROVE AnswerNamesItsSession'
    BY <1>6 DEF Store
  <1>7. ASSUME NEW w \in Workers, Release(w) PROVE AnswerNamesItsSession'
    BY <1>7 DEF Release, Free
  <1>8. ASSUME NEW s \in sessions, Delete(s) PROVE AnswerNamesItsSession'
    BY <1>8 DEF Delete, AnswersWithout
  <1>9. CASE Crash
    BY <1>9 DEF Crash, Free
  <1>10. CASE UNCHANGED vars
    BY <1>10 DEF vars
  <1> QED BY <1>1, <1>2, <1>3, <1>4, <1>5, <1>6, <1>7, <1>8, <1>9, <1>10 DEF Next, Create

\* Every step leaves a lone creation with its number, its row and its request.
LEMMA NextLoneFits == TypeOK /\ Given /\ HasLast /\ LoneFits /\ [Next]_vars => LoneFits'
PROOF
  <1> SUFFICES ASSUME TypeOK, Given, HasLast, LoneFits, [Next]_vars PROVE LoneFits' OBVIOUS
  <1> USE DEF TypeOK, Handlers, Given, LoneFits, Goes, Replies, Running
  <1>1. ASSUME NEW w \in Workers, NEW r \in Requests, Receive(w, r) PROVE LoneFits'
    <2>1. UNCHANGED << sessions, answers >> BY <1>1 DEF Receive
    <2>2. /\ handler'[w].request = r
          /\ handler'[w].at = IF Stored(r) THEN "done" ELSE "counting"
          /\ handler'[w].alone => \A u \in Workers : handler[u].at \in {"idle", "done"}
      BY <1>1, Received
    <2>3. \A v \in Workers \ {w} : Untouched(v) BY <1>1, Received
    <2>4. handler'[w].at = "counting" => answers'[r] = 0 BY <2>1, <2>2 DEF Stored
    <2>5. handler'[w].at \in {"done", "counting"} BY <2>2
    <2>6. \A v \in Workers \ {w} :
            handler'[v].alone => handler'[v].at \in {"idle", "done"}
      BY <2>3 DEF Untouched
    <2> QED BY <2>1, <2>2, <2>3, <2>4, <2>5, <2>6 DEF Untouched
  <1>2. ASSUME NEW w \in Workers, CountSessions(w) PROVE LoneFits'
    BY <1>2 DEF CountSessions
  <1>3. ASSUME NEW w \in Workers, ReadIndex(w) PROVE LoneFits'
    <2>1. \A s \in sessions : s.index < NextIndex BY NextIndexFits
    <2>2. UNCHANGED << sessions, answers >> BY <1>3 DEF ReadIndex
    <2>3. /\ handler[w].at = "numbering" /\ handler'[w].at = "inserting"
          /\ handler'[w].index = NextIndex
          /\ handler'[w].request = handler[w].request /\ handler'[w].alone = handler[w].alone
          /\ \A v \in Workers \ {w} : handler'[v] = handler[v]
      BY <1>3 DEF ReadIndex
    <2> QED BY <2>1, <2>2, <2>3
  <1>4. ASSUME NEW w \in Workers, Insert(w) PROVE LoneFits'
    BY <1>4 DEF Insert
  <1>5. ASSUME NEW w \in Workers, CommitSession(w) PROVE LoneFits'
    <2>1. \E s \in sessions' : s.id = handler[w].id BY <1>5 DEF CommitSession
    <2>2. /\ handler[w].at = "painting" /\ handler'[w].at = "storing"
          /\ handler'[w].id = handler[w].id
          /\ handler'[w].request = handler[w].request /\ handler'[w].alone = handler[w].alone
          /\ \A v \in Workers \ {w} : handler'[v] = handler[v]
          /\ UNCHANGED answers
      BY <1>5 DEF CommitSession
    <2>3. handler[w].alone => \A v \in Workers \ {w} : handler[v].at \in {"idle", "done"}
      BY <2>2
    <2> QED BY <2>1, <2>2, <2>3
  <1>6. ASSUME NEW w \in Workers, Store(w) PROVE LoneFits'
    BY <1>6 DEF Store
  <1>7. ASSUME NEW w \in Workers, Release(w) PROVE LoneFits'
    BY <1>7 DEF Release, Free
  <1>8. ASSUME NEW s \in sessions, Delete(s) PROVE LoneFits'
    BY <1>8 DEF Delete, AnswersWithout
  <1>9. CASE Crash
    BY <1>9 DEF Crash, Free
  <1>10. CASE UNCHANGED vars
    BY <1>10 DEF vars
  <1> QED BY <1>1, <1>2, <1>3, <1>4, <1>5, <1>6, <1>7, <1>8, <1>9, <1>10 DEF Next, Create

\* Every step turns a creation down only when another was met.
LEMMA NextLoneCreationFits == TypeOK /\ Given /\ LoneFits /\ LoneCreationFits /\ [Next]_vars => LoneCreationFits'
PROOF
  <1> SUFFICES ASSUME TypeOK, Given, LoneFits, LoneCreationFits, [Next]_vars PROVE LoneCreationFits' OBVIOUS
  <1> USE DEF TypeOK, Handlers, Given, LoneFits, LoneCreationFits, Goes, Replies, Running
  <1>1. ASSUME NEW w \in Workers, NEW r \in Requests, Receive(w, r) PROVE LoneCreationFits'
    <2>1. handler'[w].reply # "failed" BY <1>1, Received
    <2>2. \A v \in Workers \ {w} : Untouched(v) BY <1>1, Received
    <2>3. \A v \in Workers \ {w} :
            handler'[v].reply = "failed" => ~handler'[v].alone
      BY <2>2 DEF Untouched
    <2> QED BY <2>1, <2>3
  <1>2. ASSUME NEW w \in Workers, CountSessions(w) PROVE LoneCreationFits'
    BY <1>2 DEF CountSessions
  <1>3. ASSUME NEW w \in Workers, ReadIndex(w) PROVE LoneCreationFits'
    BY <1>3 DEF ReadIndex
  <1>4. ASSUME NEW w \in Workers, Insert(w) PROVE LoneCreationFits'
    BY <1>4 DEF Insert
  <1>5. ASSUME NEW w \in Workers, CommitSession(w) PROVE LoneCreationFits'
    BY <1>5 DEF CommitSession
  <1>6. ASSUME NEW w \in Workers, Store(w) PROVE LoneCreationFits'
    BY <1>6 DEF Store
  <1>7. ASSUME NEW w \in Workers, Release(w) PROVE LoneCreationFits'
    BY <1>7 DEF Release, Free
  <1>8. ASSUME NEW s \in sessions, Delete(s) PROVE LoneCreationFits'
    BY <1>8 DEF Delete
  <1>9. CASE Crash
    BY <1>9 DEF Crash, Free
  <1>10. CASE UNCHANGED vars
    BY <1>10 DEF vars
  <1> QED BY <1>1, <1>2, <1>3, <1>4, <1>5, <1>6, <1>7, <1>8, <1>9, <1>10 DEF Next, Create

\* Every step leaves one row to a request that has not met itself.
LEMMA NextOneRow == TypeOK /\ Given /\ IdsBelong /\ OneRow /\ [Next]_vars => OneRow'
PROOF
  <1> SUFFICES ASSUME TypeOK, Given, IdsBelong, OneRow, [Next]_vars PROVE OneRow' OBVIOUS
  <1> USE DEF TypeOK, Sessions, Handlers, Given, IdsBelong, OneRow, Goes, Replies, Running
  <1>1. ASSUME NEW w \in Workers, NEW r \in Requests, Receive(w, r) PROVE OneRow'
    <2>1. UNCHANGED << sessions, answers >> BY <1>1 DEF Receive
    <2>2. /\ handler'[w].request = r
          /\ handler'[w].at = IF Stored(r) THEN "done" ELSE "counting"
      BY <1>1, Received
    <2>3. \A v \in Workers \ {w} : Untouched(v) BY <1>1, Received
    <2>4. handler'[w].at = "counting" => answers'[r] = 0 BY <2>1, <2>2 DEF Stored
    <2>5. handler'[w].at \in {"done", "counting"} BY <2>2
    <2>6. /\ disturbed \subseteq disturbed'
          /\ r \notin disturbed' => \A v \in Workers : Running(v) => handler[v].request # r
      BY <1>1 DEF Receive
    <2>7. handler[w].at = "idle" BY <1>1 DEF Receive
    <2> SUFFICES ASSUME NEW q \in Requests \ disturbed'
                 PROVE  OneRow!(q)'
      OBVIOUS
    <2> QED BY <2>1, <2>2, <2>3, <2>4, <2>5, <2>6, <2>7 DEF Untouched
  <1>2. ASSUME NEW w \in Workers, CountSessions(w) PROVE OneRow'
    BY <1>2 DEF CountSessions
  <1>3. ASSUME NEW w \in Workers, ReadIndex(w) PROVE OneRow'
    BY <1>3 DEF ReadIndex
  <1>4. ASSUME NEW w \in Workers, Insert(w) PROVE OneRow'
    BY <1>4 DEF Insert
  <1>5. ASSUME NEW w \in Workers, CommitSession(w) PROVE OneRow'
    BY <1>5 DEF CommitSession
  <1>6. ASSUME NEW w \in Workers, Store(w) PROVE OneRow'
    BY <1>6 DEF Store
  <1>7. ASSUME NEW w \in Workers, Release(w) PROVE OneRow'
    BY <1>7 DEF Release, Free
  <1>8. ASSUME NEW s \in sessions, Delete(s) PROVE OneRow'
    BY <1>8 DEF Delete, AnswersWithout
  <1>9. CASE Crash
    BY <1>9 DEF Crash, Free
  <1>10. CASE UNCHANGED vars
    BY <1>10 DEF vars
  <1> QED BY <1>1, <1>2, <1>3, <1>4, <1>5, <1>6, <1>7, <1>8, <1>9, <1>10 DEF Next, Create

\* Every step leaves finitely many sessions; a commit adds one at most.
LEMMA NextFinite == IsFiniteSet(sessions) /\ [Next]_vars => IsFiniteSet(sessions)'
PROOF
  <1> SUFFICES ASSUME IsFiniteSet(sessions), [Next]_vars PROVE IsFiniteSet(sessions)' OBVIOUS
  <1>1. ASSUME NEW w \in Workers, CommitSession(w) PROVE IsFiniteSet(sessions)'
    <2>1. PICK s : sessions' = sessions \cup {s} BY <1>1 DEF CommitSession
    <2> QED BY <2>1, FS_AddElement
  <1>2. ASSUME NEW s \in sessions, Delete(s) PROVE IsFiniteSet(sessions)'
    BY <1>2, FS_RemoveElement DEF Delete
  <1>3. CASE UNCHANGED sessions BY <1>3
  <1>4. ASSUME NEW w \in Workers,
               \/ CountSessions(w) \/ ReadIndex(w) \/ Insert(w) \/ Store(w) \/ Release(w)
               \/ \E r \in Requests : Receive(w, r)
        PROVE  UNCHANGED sessions
    BY <1>4 DEF CountSessions, ReadIndex, Insert, Store, Release, Receive
  <1>5. CASE Crash BY <1>5, <1>3 DEF Crash
  <1>6. CASE UNCHANGED vars BY <1>6, <1>3 DEF vars
  <1> QED BY <1>1, <1>2, <1>3, <1>4, <1>5, <1>6 DEF Next, Create

\* Sets of threads that grow and shrink with the sessions keep the sum.
LEMMA SumKept ==
  ASSUME NEW S, NEW T, NEW A, NEW C \in SUBSET Workers, IsFiniteSet(S), A \in SUBSET Workers,
         \/ T \subseteq S /\ C \subseteq A
         \/ \E w \in A : C = A \ {w} /\ \E s : T = S \cup {s}
  PROVE  Cardinality(T) + Cardinality(C) <= Cardinality(S) + Cardinality(A)
PROOF
  <1>1. IsFiniteSet(A) /\ IsFiniteSet(C) BY WorkersAssumption, FS_Subset
  <1>2. Cardinality(A) \in Nat /\ Cardinality(C) \in Nat /\ Cardinality(S) \in Nat
    BY <1>1, FS_CardinalityType
  <1>3. CASE T \subseteq S /\ C \subseteq A
    <2>1. IsFiniteSet(T) /\ Cardinality(T) <= Cardinality(S) BY <1>3, FS_Subset
    <2>2. Cardinality(C) <= Cardinality(A) BY <1>1, <1>3, FS_Subset
    <2>3. Cardinality(T) \in Nat BY <2>1, FS_CardinalityType
    <2> QED BY <1>2, <2>1, <2>2, <2>3
  <1>4. CASE \E w \in A : C = A \ {w} /\ \E s : T = S \cup {s}
    <2>1. PICK w \in A : C = A \ {w} BY <1>4
    <2>2. Cardinality(C) = Cardinality(A) - 1 BY <1>1, <2>1, FS_RemoveElement
    <2>3. PICK s : T = S \cup {s} BY <1>4
    <2>4. Cardinality(T) = Cardinality(S) \/ Cardinality(T) = Cardinality(S) + 1
      BY <2>3, FS_AddElement
    <2> QED BY <1>2, <2>2, <2>4
  <1> QED BY <1>3, <1>4

\* Every step leaves the sessions and those that counted them within the sum: a
\* creation that joins has found the budget not used up.
LEMMA NextBudget == TypeOK /\ IsFiniteSet(sessions) /\ Budget /\ [Next]_vars => Budget'
PROOF
  <1> SUFFICES ASSUME TypeOK, IsFiniteSet(sessions), Budget, [Next]_vars,
                      image_budget_sessions > 0, Workers # {}
               PROVE  Cardinality(sessions') + Cardinality(Counted')
                        <= image_budget_sessions + Cardinality(Workers) - 1
    BY DEF Budget
  <1>1. Cardinality(sessions) \in Nat BY FS_CardinalityType
  <1>2. /\ Counted \in SUBSET Workers /\ Counted' \in SUBSET Workers
        /\ IsFiniteSet(sessions') BY NextFinite DEF Counted
  <1>3. /\ Cardinality(sessions') \in Nat /\ Cardinality(Counted) \in Nat
        /\ Cardinality(Counted') \in Nat /\ Cardinality(Workers) \in Nat
    BY <1>2, WorkersAssumption, FS_Subset, FS_CardinalityType
  <1>4. Cardinality(sessions) + Cardinality(Counted)
          <= image_budget_sessions + Cardinality(Workers) - 1
    BY DEF Budget
  <1>5. CASE \/ sessions' \subseteq sessions /\ Counted' \subseteq Counted
             \/ \E w \in Counted : Counted' = Counted \ {w} /\ \E s : sessions' = sessions \cup {s}
    <2>1. Cardinality(sessions') + Cardinality(Counted')
            <= Cardinality(sessions) + Cardinality(Counted)
      BY <1>2, <1>5, SumKept
    <2> QED BY <1>1, <1>3, <1>4, <2>1, BudgetAssumption
  <1>6. ASSUME NEW w \in Workers, CountSessions(w), handler'[w].at = "numbering"
        PROVE  Cardinality(sessions') + Cardinality(Counted')
                 <= image_budget_sessions + Cardinality(Workers) - 1
    <2>1. ~Full /\ sessions' = sessions BY <1>6 DEF CountSessions, Replies, TypeOK, Handlers
    <2>2. Cardinality(sessions') < image_budget_sessions
      BY <1>1, <2>1, BudgetAssumption DEF Full
    <2>3. Cardinality(Counted') <= Cardinality(Workers) BY <1>2, WorkersAssumption, FS_Subset
    <2> QED BY <1>3, <2>2, <2>3, BudgetAssumption
  <1>7. ASSUME NEW w \in Workers, CountSessions(w), handler'[w].at # "numbering"
        PROVE  sessions' \subseteq sessions /\ Counted' \subseteq Counted
    BY <1>7 DEF CountSessions, Replies, Goes, Counted, TypeOK, Handlers
  <1>8. ASSUME NEW w \in Workers, ReadIndex(w) \/ Insert(w) \/ Store(w) \/ Release(w)
        PROVE  sessions' \subseteq sessions /\ Counted' \subseteq Counted
    BY <1>8 DEF ReadIndex, Insert, Store, Release, Free, Replies, Goes, Counted, TypeOK, Handlers
  <1>9. ASSUME NEW w \in Workers, CommitSession(w)
        PROVE  \E v \in Counted : Counted' = Counted \ {v} /\ \E s : sessions' = sessions \cup {s}
    <2>1. w \in Counted BY <1>9 DEF CommitSession, Counted
    <2>2. Counted' = Counted \ {w}
      BY <1>9 DEF CommitSession, Goes, Counted, TypeOK, Handlers
    <2>3. \E s : sessions' = sessions \cup {s} BY <1>9 DEF CommitSession
    <2> QED BY <2>1, <2>2, <2>3
  <1>10. ASSUME NEW w \in Workers, NEW r \in Requests, Receive(w, r)
         PROVE  sessions' \subseteq sessions /\ Counted' \subseteq Counted
    <2>1. UNCHANGED sessions BY <1>10 DEF Receive
    <2>2. handler'[w].at \in {"done", "counting"} BY <1>10, Received
    <2>3. \A v \in Workers \ {w} : handler'[v].at = handler[v].at
      BY <1>10, Received DEF Untouched
    <2> QED BY <2>1, <2>2, <2>3 DEF Counted
  <1>11. ASSUME NEW s \in sessions, Delete(s)
         PROVE  sessions' \subseteq sessions /\ Counted' \subseteq Counted
    BY <1>11 DEF Delete, Running, Counted, TypeOK, Handlers
  <1>12. CASE Crash BY <1>5, <1>12 DEF Crash, Free, Counted
  <1>13. CASE UNCHANGED vars BY <1>5, <1>13 DEF vars, Counted
  <1> QED BY <1>5, <1>6, <1>7, <1>8, <1>9, <1>10, <1>11, <1>12, <1>13 DEF Next, Create

\* The invariant holds before the first session.
LEMMA InitIInv == Init => IInv
PROOF
  <1> SUFFICES ASSUME Init PROVE IInv OBVIOUS
  <1> USE DEF Init, Free
  <1>1. TypeOK BY DEF TypeOK, Handlers
  <1>2. Given /\ HasLast /\ IdsBelong BY DEF Given, HasLast, IdsBelong
  <1>3. AnswerNamesItsSession /\ LoneFits /\ LoneCreationFits /\ OneRow
    BY DEF AnswerNamesItsSession, LoneFits, LoneCreationFits, OneRow, Running
  <1>4. IsFiniteSet(sessions) /\ Cardinality(sessions) = 0 BY FS_EmptySet
  <1>5. Counted = {} BY DEF Counted
  <1>6. Cardinality(Counted) = 0 BY <1>5, FS_EmptySet
  <1>7. Workers # {} => Cardinality(Workers) \in Nat \ {0}
    BY WorkersAssumption, FS_EmptySet, FS_CardinalityType
  <1>8. Budget BY <1>4, <1>6, <1>7, BudgetAssumption DEF Budget
  <1> QED BY <1>1, <1>2, <1>3, <1>4, <1>8 DEF IInv

\* The invariant is inductive.
THEOREM Inductive == Spec => []IInv
PROOF
  <1>1. IInv /\ [Next]_vars => IInv'
    BY NextTypeOK, NextGiven, NextHasLast, NextIdsBelong, NextAnswerNamesItsSession, NextLoneFits,
       NextLoneCreationFits, NextOneRow, NextFinite, NextBudget DEF IInv
  <1> QED BY <1>1, InitIInv, PTL DEF Spec

\* The state of every thread and row is of its kind, for any requests and threads.
THEOREM TypeCorrect == Spec => []TypeOK
PROOF
  <1>1. IInv => TypeOK BY DEF IInv
  <1> QED BY <1>1, Inductive, PTL

\* sessions.py:190: however a deletion and a retry fall between the two commits, a stored
\* answer names the session that its own request made.
THEOREM AnswersNameTheirSession == Spec => []AnswerNamesItsSession
PROOF
  <1>1. IInv => AnswerNamesItsSession BY DEF IInv
  <1> QED BY <1>1, Inductive, PTL

\* sessions.py:143: the budget is passed by the creations that counted together, and by
\* no more of them than there are threads besides one.
THEOREM BudgetStaysBounded == Spec => []BudgetBounded
PROOF
  <1>1. IInv => BudgetBounded
    <2> SUFFICES ASSUME IInv, image_budget_sessions > 0, Workers # {}
                 PROVE  Cardinality(sessions)
                          <= image_budget_sessions + Cardinality(Workers) - 1
      BY DEF BudgetBounded
    <2>1. IsFiniteSet(sessions) BY DEF IInv
    <2>2. Cardinality(sessions) \in Nat BY <2>1, FS_CardinalityType
    <2>3. Cardinality(sessions) + Cardinality(Counted)
            <= image_budget_sessions + Cardinality(Workers) - 1
      BY DEF IInv, Budget
    <2> QED BY <2>2, <2>3, CountedIsFinite, BudgetAssumption
  <1> QED BY <1>1, Inductive, PTL

\* sessions.py:154: whatever was deleted before, a creation that nobody meets gets a
\* number that the unique key takes.
THEOREM LoneCreationsFit == Spec => []LoneCreationFits
PROOF
  <1>1. IInv => LoneCreationFits BY DEF IInv
  <1> QED BY <1>1, Inductive, PTL

\* sessions.py:133: a request that does not overlap itself and is not cut between its
\* commits makes one session, however often it is sent.
THEOREM LoneRequestsMakeOne == Spec => []LoneRequestMakesOne
PROOF
  <1>1. IInv => LoneRequestMakesOne
    <2> SUFFICES ASSUME IInv, NEW r \in Requests \ disturbed
                 PROVE  Cardinality({s \in sessions : s.by = r}) <= 1
      BY DEF LoneRequestMakesOne
    <2> DEFINE mine == {s \in sessions : s.by = r}
    <2>1. \A s, t \in mine : s = t
      <3> SUFFICES ASSUME NEW s \in mine, NEW t \in mine PROVE s = t OBVIOUS
      <3>1. /\ answers[r] = s.id \/ \E w \in Workers : /\ Running(w) /\ handler[w].request = r
                                                     /\ handler[w].id = s.id
            /\ answers[r] = t.id \/ \E w \in Workers : /\ Running(w) /\ handler[w].request = r
                                                     /\ handler[w].id = t.id
        BY DEF IInv, OneRow, Running
      <3>2. s.id # 0 /\ t.id # 0 BY DEF IInv, Given, TypeOK
      <3>3. s.id = t.id BY <3>1, <3>2 DEF IInv, OneRow
      <3> QED BY <3>3 DEF IInv, IdsBelong
    <2>2. mine = {} \/ \E s : mine = {s} BY <2>1
    <2>3. Cardinality(mine) = 0 \/ Cardinality(mine) = 1
      BY ONLY <2>2, FS_EmptySet, FS_Singleton
    <2> HIDE DEF mine
    <2>4. Cardinality(mine) <= 1 BY <2>3
    <2> QED BY <2>4 DEF mine
  <1> QED BY <1>1, Inductive, PTL
=============================================================================
