---------------------------- MODULE SessionSlots ----------------------------
(***************************************************************************)
(* The sessions of one invite code: POST /sessions numbers a new one,      *)
(* commits it, and stores its answer in a second transaction;              *)
(* DELETE /sessions/{id} takes one away with the answers that name it.     *)
(*                                                                         *)
(* A worker is a thread of the server with a database session of its own   *)
(* in READ COMMITTED: every statement sees what is committed when it runs. *)
(* The unique key (code_id, index) is the only thing the statements of two *)
(* creations have in common: a second insert of a key waits for the        *)
(* transaction that holds it.  MAX_MADE bounds the rows ever inserted.     *)
(***************************************************************************)
EXTENDS Integers, FiniteSets

CONSTANTS Requests, NoRequest, Workers, image_budget_sessions,
          InvalidRequests, \* the requests whose presets lack an axis or name no choice
          MAX_MADE

ASSUME RequestsAssumption == NoRequest \notin Requests
ASSUME WorkersAssumption == IsFiniteSet(Workers)
ASSUME BudgetAssumption == image_budget_sessions \in Nat

VARIABLES
  sessions,  \* the committed rows: their id, index and the request that made them
  answers,   \* of each request: the id its stored answer names, 0 before there is one
  made,      \* the rows inserted so far; the next id is made + 1
  handler,   \* of each worker: the request it serves, and how far it is
  disturbed  \* the requests that overlapped themselves or died between their commits

vars == << sessions, answers, made, handler, disturbed >>

Sessions == [id : Nat, index : Nat, by : Requests]

Handlers ==
  [ at      : {"idle", "counting", "numbering", "inserting", "painting", "storing", "done"},
    request : Requests \cup {NoRequest},
    index   : Nat,
    id      : Nat,
    reply   : {"none", "ok", "refused", "failed"},
    alone   : BOOLEAN ]   \* no other creation and no deletion has met this one

Free == [ at |-> "idle", request |-> NoRequest, index |-> 0, id |-> 0,
          reply |-> "none", alone |-> TRUE ]

Init ==
  /\ sessions = {}
  /\ answers = [r \in Requests |-> 0]
  /\ made = 0
  /\ handler = [w \in Workers |-> Free]
  /\ disturbed = {}

Running(w) == handler[w].at \notin {"idle", "done"}

Goes(w, at) == handler' = [handler EXCEPT ![w].at = at]

Replies(w, reply) == handler' = [handler EXCEPT ![w].at = "done", ![w].reply = reply]

\* get_cached_response: the request has been answered before.
Stored(r) == answers[r] # 0

\* A request arrives and its stored answer is looked up.
Receive(w, r) ==
  /\ handler[w].at = "idle"
  /\ made + Cardinality({v \in Workers : Running(v)}) < MAX_MADE
  /\ handler' =
       [v \in Workers |->
          CASE v = w      -> [Free EXCEPT !.request = r,
                                          !.at      = IF Stored(r) THEN "done" ELSE "counting",
                                          !.reply   = IF Stored(r) THEN "ok" ELSE "none",
                                          !.alone   = \A u \in Workers : ~Running(u)]
            [] Running(v) -> [handler[v] EXCEPT !.alone = FALSE]
            [] OTHER      -> handler[v]]
  /\ disturbed' = IF \E v \in Workers : Running(v) /\ handler[v].request = r
                    THEN disturbed \cup {r} ELSE disturbed
  /\ UNCHANGED << sessions, answers, made >>

BugFull == Cardinality(sessions) > image_budget_sessions  \* mutant: off by one

\* The code has no session left.
Full == Cardinality(sessions) >= image_budget_sessions

\* Presets that are not valid are refused before anything is read, and a code
\* that is used up after the count.
CountSessions(w) ==
  /\ handler[w].at = "counting"
  /\ IF handler[w].request \in InvalidRequests \/ Full
       THEN Replies(w, "refused")
       ELSE Goes(w, "numbering")
  /\ UNCHANGED << sessions, answers, made, disturbed >>

BugNextIndex == Cardinality(sessions) + 1  \* mutant: the number of sessions left, as before

\* MAX(index) + 1, of the sessions committed when this statement runs.
NextIndex ==
  CHOOSE n \in 1 .. made + 1 :
    /\ \A s \in sessions : s.index < n
    /\ n = 1 \/ \E s \in sessions : s.index = n - 1

ReadIndex(w) ==
  /\ handler[w].at = "numbering"
  /\ handler' = [handler EXCEPT ![w].at = "inserting", ![w].index = NextIndex]
  /\ UNCHANGED << sessions, answers, made, disturbed >>

\* mutant: the key is taken when the number is read
BugKeyHeld(w) ==
  \E v \in Workers \ {w} :
    handler[v].at \in {"inserting", "painting"} /\ handler[v].index = handler[w].index

\* Another transaction has inserted the key and not committed.
KeyHeld(w) ==
  \E v \in Workers \ {w} : handler[v].at = "painting" /\ handler[v].index = handler[w].index

\* The flush of the new row: it waits for a key that another transaction holds,
\* and fails on one that is committed.  The portrait is then painted.
Insert(w) ==
  /\ handler[w].at = "inserting"
  /\ ~KeyHeld(w)
  /\ IF \E s \in sessions : s.index = handler[w].index
       THEN Replies(w, "failed") /\ UNCHANGED made
       ELSE /\ handler' = [handler EXCEPT ![w].at = "painting", ![w].id = made + 1]
            /\ made' = made + 1
  /\ UNCHANGED << sessions, answers, disturbed >>

\* The first commit, with a portrait or with a failed job.
CommitSession(w) ==
  /\ handler[w].at = "painting"
  /\ sessions' = sessions \cup
       {[id |-> handler[w].id, index |-> handler[w].index, by |-> handler[w].request]}
  /\ Goes(w, "storing")
  /\ UNCHANGED << answers, made, disturbed >>

\* The second transaction.  It fails when the session is gone, and on the primary
\* key when another run of the request has stored its answer.
Store(w) ==
  LET h == handler[w] IN
  /\ h.at = "storing"
  /\ IF answers[h.request] = 0 /\ \E s \in sessions : s.id = h.id
       THEN Replies(w, "ok") /\ answers' = [answers EXCEPT ![h.request] = h.id]
       ELSE Replies(w, "failed") /\ UNCHANGED answers
  /\ UNCHANGED << sessions, made, disturbed >>

Release(w) ==
  /\ handler[w].at = "done"
  /\ handler' = [handler EXCEPT ![w] = Free]
  /\ UNCHANGED << sessions, answers, made, disturbed >>

Create(w) ==
  CountSessions(w) \/ ReadIndex(w) \/ Insert(w) \/ CommitSession(w) \/ Store(w) \/ Release(w)

BugAnswersWithout(s) == answers  \* mutant: the key of requests does not cascade

\* ON DELETE CASCADE: the answers that name the session go with it.
AnswersWithout(s) == [r \in Requests |-> IF answers[r] = s.id THEN 0 ELSE answers[r]]

Delete(s) ==
  /\ s \in sessions
  /\ sessions' = sessions \ {s}
  /\ answers' = AnswersWithout(s)
  /\ handler' = [w \in Workers |->
       IF Running(w) THEN [handler[w] EXCEPT !.alone = FALSE] ELSE handler[w]]
  /\ UNCHANGED << made, disturbed >>

\* The process dies: what is not committed is gone, and so is the second
\* transaction of a creation that has committed its first.
Crash ==
  /\ \E w \in Workers : handler[w].at # "idle"
  /\ disturbed' = disturbed \cup
       {handler[w].request : w \in {v \in Workers : handler[v].at = "storing"}}
  /\ handler' = [w \in Workers |-> Free]
  /\ UNCHANGED << sessions, answers, made >>

Next ==
  \/ \E w \in Workers : Create(w) \/ \E r \in Requests : Receive(w, r)
  \/ \E s \in sessions : Delete(s)
  \/ Crash

\* A thread of a running process goes on; nothing makes a player create or delete.
Spec == Init /\ [][Next]_vars /\ \A w \in Workers : WF_vars(Create(w))
-----------------------------------------------------------------------------
TypeOK ==
  /\ sessions \subseteq Sessions
  /\ answers \in [Requests -> Nat]
  /\ made \in Nat
  /\ handler \in [Workers -> Handlers]
  /\ disturbed \subseteq Requests

\* A stored answer names a session that is there, and that this request made
\* (the cascade of requests.session_id; store_response after a deletion).
AnswerNamesItsSession ==
  \A r \in Requests : answers[r] # 0 => \E s \in sessions : s.id = answers[r] /\ s.by = r

\* The creations between their count and their first commit.
Counted == {w \in Workers : handler[w].at \in {"numbering", "inserting", "painting"}}

\* Creations that counted together pass the budget of the code by no more than the
\* threads the server has besides one (the count of create_session).
BudgetBounded ==
  image_budget_sessions > 0 /\ Workers # {}
    => Cardinality(sessions) <= image_budget_sessions + Cardinality(Workers) - 1

\* A creation that no other creation and no deletion meets is never turned down by
\* the unique key, whatever was deleted before it (MAX(index), not count()).
LoneCreationFits ==
  \A w \in Workers : handler[w].reply = "failed" => ~handler[w].alone

\* A request that was never under way twice at once, and did not die between its
\* two commits, has one session however often it is sent (get_cached_response).
LoneRequestMakesOne ==
  \A r \in Requests \ disturbed : Cardinality({s \in sessions : s.by = r}) <= 1

\* Every creation ends: threads that wait for a key wait for one that goes on.
CreationEnds == \A w \in Workers : handler[w].at # "idle" ~> handler[w].at = "idle"
=============================================================================
