----------------------------- MODULE Facts_proofs -----------------------------
(***************************************************************************)
(* The facts of the session and the quotations of its ending, with one     *)
(* browser that stays on its page.                                         *)
(*                                                                         *)
(* WorldIsReplay speaks of recursive functions over the transcript, and    *)
(* nothing here proves by induction what such a function computes.  The    *)
(* argument goes by the steps of the behaviour instead: that the replay of *)
(* the transcript exists, and where every replay of it ends, holds at the  *)
(* start and is kept when a commit appends one entry (ReplayGrows,         *)
(* WalkGrows).  FactsInv carries that along, and for a turn that is under  *)
(* way that what it has confirmed goes on from what is committed.          *)
(*                                                                         *)
(* An ending quotes the first five of the turns that explain something.    *)
(* They are the turns with less than five before them (AtMostFive,         *)
(* AfterFive), whatever order the quotations were collected in.            *)
(***************************************************************************)
EXTENDS Play_proofs, FiniteSetTheorems
-----------------------------------------------------------------------------
(* Replays *)

\* The events of a turn, each with the turn.
Marks(events, turn) == [k \in 1..Len(events) |-> [event |-> events[k], turn |-> turn]]

\* The events a transcript can confirm.
MarkedEvents == [event : ConfirmedEvents, turn : Turns]

\* f lists for each prefix of the entries what they confirmed.
IsReplay(entries, f) ==
  f = [i \in 0..Len(entries) |->
        IF i = 0 THEN << >> ELSE f[i - 1] \o Marks(entries[i].confirmed, entries[i].turn)]

\* The entries have a replay, and each of theirs ends in these events.
Replayed(entries, all) ==
  /\ \E f : IsReplay(entries, f)
  /\ \A f : IsReplay(entries, f) => f[Len(entries)] = all

\* f gives for each prefix of the events the facts they lead to.
IsWalk(all, f) ==
  f = [i \in 0..Len(all) |-> IF i = 0 THEN InitialWorld ELSE Applied(f[i - 1], all[i].event)]

Allowed(world, fact) ==
  \/ fact.event.type = "door_locked"
  \/ Admissible(world, SceneAfter(fact.turn - 1), fact.event)

\* The events can be followed from the first evening on, and lead to these facts.
LeadsTo(all, world) ==
  /\ \E f : IsWalk(all, f)
  /\ \A f : IsWalk(all, f) =>
       /\ f[Len(all)] = world
       /\ \A i \in 1..Len(all) : Allowed(f[i - 1], all[i])

\* Marked events are events with their turn.
LEMMA MarksTyped ==
  ASSUME NEW events \in Seq(ConfirmedEvents), NEW turn \in Turns
  PROVE  Marks(events, turn) \in Seq(MarkedEvents)
PROOF BY DEF Marks, MarkedEvents

\* One more confirmed event is one more mark at the end.
LEMMA MarksGrow ==
  ASSUME NEW events \in Seq(ConfirmedEvents), NEW turn \in Turns, NEW e \in ConfirmedEvents,
         NEW all \in Seq(MarkedEvents)
  PROVE  all \o Marks(Append(events, e), turn)
           = Append(all \o Marks(events, turn), [event |-> e, turn |-> turn])
PROOF
  <1> DEFINE m == [event |-> e, turn |-> turn]
             s == Marks(events, turn)
             t == Marks(Append(events, e), turn)
             n == Len(events)
  <1>1. m \in MarkedEvents BY DEF MarkedEvents
  <1>2. s \in Seq(MarkedEvents) /\ t \in Seq(MarkedEvents)
    <2>1. Append(events, e) \in Seq(ConfirmedEvents) OBVIOUS
    <2> QED BY <2>1, MarksTyped
  <1>3. n \in Nat /\ Len(s) = n /\ Len(t) = n + 1 BY DEF Marks
  <1>4. \A k \in 1..n : t[k] = s[k] BY DEF Marks
  <1>5. t[n + 1] = m BY DEF Marks
  <1> HIDE DEF m, s, t, n
  <1>6. t = Append(s, m) BY <1>1, <1>2, <1>3, <1>4, <1>5
  <1>7. all \o Append(s, m) = Append(all \o s, m) BY <1>1, <1>2
  <1> QED BY <1>6, <1>7 DEF m, s, t

\* One more entry, one more stretch of events.
LEMMA ReplayGrows ==
  ASSUME NEW entries \in Seq(Entries), NEW entry \in Entries, NEW all, Replayed(entries, all)
  PROVE  Replayed(Append(entries, entry), all \o Marks(entry.confirmed, entry.turn))
PROOF
  <1> DEFINE n == Len(entries)
             more == Append(entries, entry)
             M(i) == Marks(more[i].confirmed, more[i].turn)
             whole == all \o Marks(entry.confirmed, entry.turn)
  <1>1. /\ n \in Nat /\ Len(more) = n + 1
        /\ more[n + 1] = entry /\ \A i \in 1..n : more[i] = entries[i]
    OBVIOUS
  <1>2. \E g : IsReplay(more, g)
    <2>1. PICK f : IsReplay(entries, f) BY DEF Replayed
    <2>2. f[n] = all BY <2>1 DEF Replayed
    <2>3. \A i \in 0..n : f[i] = IF i = 0 THEN << >> ELSE f[i - 1] \o M(i)
      BY <1>1, <2>1 DEF IsReplay
    <2> DEFINE g == [i \in 0..n + 1 |-> IF i = n + 1 THEN f[n] \o M(n + 1) ELSE f[i]]
    <2> HIDE DEF M, more, n
    <2>4. \A i \in 0..n + 1 : g[i] = IF i = 0 THEN << >> ELSE g[i - 1] \o M(i)
      BY <1>1, <2>3
    <2>5. g = [i \in 0..n + 1 |-> IF i = 0 THEN << >> ELSE g[i - 1] \o M(i)]
      BY <2>4
    <2> QED BY <1>1, <2>5 DEF IsReplay, M
  <1>3. ASSUME NEW g, IsReplay(more, g) PROVE g[n + 1] = whole
    <2>1. \A i \in 0..n + 1 : g[i] = IF i = 0 THEN << >> ELSE g[i - 1] \o M(i)
      BY <1>1, <1>3 DEF IsReplay
    <2> DEFINE f == [i \in 0..n |-> g[i]]
    <2>2. \A i \in 1..n : M(i) = Marks(entries[i].confirmed, entries[i].turn) BY <1>1
    <2> HIDE DEF M, more
    <2>3. \A i \in 0..n : f[i] = IF i = 0 THEN << >>
                                 ELSE f[i - 1] \o Marks(entries[i].confirmed, entries[i].turn)
      BY <1>1, <2>1, <2>2
    <2>4. IsReplay(entries, f) BY <2>3 DEF IsReplay
    <2>5. g[n] = all BY <1>1, <2>4 DEF Replayed
    <2>6. M(n + 1) = Marks(entry.confirmed, entry.turn) BY <1>1 DEF M
    <2> HIDE DEF n
    <2>7. n + 1 \in 0..n + 1 /\ n + 1 # 0 /\ (n + 1) - 1 = n BY <1>1
    <2>8. g[n + 1] = g[(n + 1) - 1] \o M(n + 1) BY <2>1, <2>7
    <2> QED BY <2>5, <2>6, <2>7, <2>8
  <1> QED BY <1>1, <1>2, <1>3 DEF Replayed

\* One more event that is allowed.
LEMMA WalkGrows ==
  ASSUME NEW all \in Seq(MarkedEvents), NEW fact \in MarkedEvents, NEW world,
         LeadsTo(all, world), Allowed(world, fact)
  PROVE  LeadsTo(Append(all, fact), Applied(world, fact.event))
PROOF
  <1> DEFINE n == Len(all)
             more == Append(all, fact)
             E(i) == more[i].event
  <1>1. n \in Nat /\ Len(more) = n + 1 /\ more[n + 1] = fact /\ \A i \in 1..n : more[i] = all[i]
    OBVIOUS
  <1>2. \E g : IsWalk(more, g)
    <2>1. PICK f : IsWalk(all, f) BY DEF LeadsTo
    <2>3. \A i \in 0..n : f[i] = IF i = 0 THEN InitialWorld ELSE Applied(f[i - 1], E(i))
      BY <1>1, <2>1 DEF IsWalk
    <2> DEFINE g == [i \in 0..n + 1 |-> IF i = n + 1 THEN Applied(f[n], E(n + 1)) ELSE f[i]]
    <2> HIDE DEF E, more, n
    <2>4. \A i \in 0..n + 1 : g[i] = IF i = 0 THEN InitialWorld ELSE Applied(g[i - 1], E(i))
      BY <1>1, <2>3
    <2>5. g = [i \in 0..n + 1 |-> IF i = 0 THEN InitialWorld ELSE Applied(g[i - 1], E(i))]
      BY <2>4
    <2> QED BY <1>1, <2>5 DEF IsWalk, E
  <1>3. ASSUME NEW g, IsWalk(more, g)
        PROVE  /\ g[n + 1] = Applied(world, fact.event)
               /\ \A i \in 1..n + 1 : Allowed(g[i - 1], more[i])
    <2>1. \A i \in 0..n + 1 : g[i] = IF i = 0 THEN InitialWorld ELSE Applied(g[i - 1], E(i))
      BY <1>1, <1>3 DEF IsWalk
    <2> DEFINE f == [i \in 0..n |-> g[i]]
    <2>2. \A i \in 1..n : E(i) = all[i].event BY <1>1
    <2> HIDE DEF E, more
    <2>3. \A i \in 0..n : f[i] = IF i = 0 THEN InitialWorld ELSE Applied(f[i - 1], all[i].event)
      BY <1>1, <2>1, <2>2
    <2>4. IsWalk(all, f) BY <2>3 DEF IsWalk
    <2>5. g[n] = world /\ \A i \in 1..n : Allowed(g[i - 1], all[i])
      BY <1>1, <2>4 DEF LeadsTo
    <2>6. E(n + 1) = fact.event BY <1>1 DEF E
    <2> QED BY <1>1, <2>1, <2>5, <2>6
  <1> QED BY <1>1, <1>2, <1>3 DEF LeadsTo

\* The events of the transcript are those of its replay.
LEMMA ConfirmedReplayed ==
  ASSUME NEW all, Replayed(transcript, all)
  PROVE  AllConfirmed = all
PROOF
  <1> DEFINE r == CHOOSE f : IsReplay(transcript, f)
  <1>1. IsReplay(transcript, r) BY DEF Replayed
  <1>2. AllConfirmed = r[Len(transcript)] BY Zenon DEF AllConfirmed, IsReplay, Marks
  <1> QED BY <1>1, <1>2 DEF Replayed

\* Facts that the events of the transcript lead to are their replay.
LEMMA FactsReplayed ==
  ASSUME NEW all, Replayed(transcript, all), LeadsTo(all, session.world)
  PROVE  WorldIsReplay
PROOF
  <1> DEFINE f == CHOOSE g : IsWalk(all, g)
  <1>1. IsWalk(all, f) BY DEF LeadsTo
  <1>2. AllConfirmed = all BY ConfirmedReplayed
  <1>3. session.world = f[Len(all)] /\ \A i \in 1..Len(all) : Allowed(f[i - 1], all[i])
    BY <1>1 DEF LeadsTo
  <1> QED BY Zenon, <1>2, <1>3 DEF WorldIsReplay, IsWalk, Allowed
-----------------------------------------------------------------------------
(* What the handlers confirm *)

\* A handler has confirmed nothing before it is told what to confirm, and judges in the
\* scene it loaded; an end leaves the facts alone.
WorkOK(h) ==
  /\ h.pc \in {"arrived", "loaded", "unanswered", "llm"} => h.confirmed = << >>
  /\ h.pc \in {"llm", "confirming"} => h.row.scene_id = h.loaded.scene_id
  /\ h.pc = "writing" /\ Kind[h.req] = "end" => h.row.world = h.loaded.world

\* So it is with every handler.
WorkInv == \A w \in Workers : WorkOK(handler[w])

\* Every step of the server keeps what the handlers confirm.
LEMMA WorkStep == TypeInv /\ RowInv /\ WorkInv /\ [Next]_vars => WorkInv'
PROOF
  <1> SUFFICES ASSUME TypeInv, RowInv, WorkInv, [Next]_vars PROVE WorkInv' OBVIOUS
  <1>1. handler \in [Workers -> Handlers] BY DEF TypeInv, TypeOK
  <1>2. ASSUME NEW w \in Workers, NEW h, Becomes(w, h), WorkOK(h) PROVE WorkInv'
    <2>1. \A v \in Workers : handler'[v] = IF v = w THEN h ELSE handler[v]
      BY <1>1, <1>2 DEF Becomes
    <2> QED BY <1>2, <2>1 DEF WorkInv, WorkOK
  <1>3. ASSUME NEW w \in Workers, NEW answer, Becomes(w, Replied(w, answer)) PROVE WorkInv'
    <2>1. WorkOK(Replied(w, answer)) BY DEF WorkOK, Replied, Free
    <2> QED BY <1>2, <1>3, <2>1
  <1>4. WorkOK(Free) BY DEF WorkOK, Free
  <1>5. ASSUME NEW w \in Workers
        PROVE  /\ handler[w] \in Handlers /\ handler[w].row \in Sessions
               /\ RowOK(handler[w]) /\ WorkOK(handler[w]) /\ WorkerOK(handler[w])
    BY <1>1 DEF RowInv, TypeInv, WorkInv, Handlers
  <1>6. ASSUME NEW w \in Workers, NEW r \in Requests, Receive(w, r) PROVE WorkInv'
    <2>1. WorkOK([Free EXCEPT !.pc = "arrived", !.req = r]) BY DEF WorkOK, Free
    <2> QED BY <1>2, <1>6, <2>1 DEF Receive
  <1>7. ASSUME NEW w \in Workers, LoadSession(w) PROVE WorkInv'
    <2>1. WorkOK([handler[w] EXCEPT !.pc = "loaded", !.loaded = session, !.row = session])
      BY <1>5, <1>7 DEF WorkOK, Handlers, LoadSession, At
    <2> QED BY <1>2, <1>7, <2>1 DEF LoadSession
  <1>8. ASSUME NEW w \in Workers, Miss(w) PROVE WorkInv'
    <2>1. WorkOK([handler[w] EXCEPT !.pc = "unanswered"])
      BY <1>5, <1>8 DEF WorkOK, Handlers, Miss, At
    <2> QED BY <1>2, <1>8, <2>1 DEF Miss
  <1>9. ASSUME NEW w \in Workers, StartTurn(w) PROVE WorkInv'
    <2>1. ASSUME NEW c
          PROVE  WorkOK([handler[w] EXCEPT !.pc = "llm", !.loadedCard = card, !.card = c])
      BY <1>5, <1>9 DEF WorkOK, RowOK, Handlers, StartTurn, At
    <2> QED BY <1>2, <1>9, <2>1 DEF StartTurn
  <1>10. ASSUME NEW w \in Workers, Generate(w) PROVE WorkInv'
    <2>1. ASSUME NEW p PROVE WorkOK([handler[w] EXCEPT !.pc = "confirming", !.proposed = p])
      BY <1>5, <1>10 DEF WorkOK, Handlers, Generate, At
    <2> QED BY <1>2, <1>10, <2>1 DEF Generate
  <1>11. ASSUME NEW w \in Workers, ConfirmNext(w) PROVE WorkInv'
    <2>1. handler[w].pc = "confirming" BY <1>11 DEF ConfirmNext, At
    <2>2. ASSUME NEW p, NEW facts, NEW c
          PROVE  /\ WorkOK([ handler[w] EXCEPT !.proposed = p, !.row.world = facts,
                                               !.confirmed = c ])
                 /\ WorkOK([handler[w] EXCEPT !.proposed = p])
      BY <1>5, <2>1 DEF WorkOK, Handlers, Sessions
    <2> QED BY <1>2, <1>11, <2>2 DEF ConfirmNext
  <1>12. ASSUME NEW w \in Workers, FinishTurn(w) PROVE WorkInv'
    <2>1. Kind[handler[w].req] # "end" BY <1>5, <1>12 DEF FinishTurn, At, WorkerOK
    <2>2. ASSUME NEW s, NEW c
          PROVE  /\ WorkOK([handler[w] EXCEPT !.pc = "writing", !.row = s])
                 /\ WorkOK([handler[w] EXCEPT !.pc = "writing", !.row = s, !.confirmed = c])
      BY <1>5, <2>1 DEF WorkOK, Handlers
    <2>3. \E s, c : \/ Becomes(w, [handler[w] EXCEPT !.pc = "writing", !.row = s])
                    \/ Becomes(w, [handler[w] EXCEPT !.pc = "writing", !.row = s, !.confirmed = c])
      BY <1>12 DEF FinishTurn
    <2> QED BY <1>2, <2>2, <2>3
  <1>13. ASSUME NEW w \in Workers, StartEnd(w) PROVE WorkInv'
    <2> DEFINE h == handler[w]
               ended == Ended(h.row, "ended_early", SelectEvidence(transcript, Said(transcript)))
    <2>1. h.row = h.loaded BY <1>5, <1>13 DEF StartEnd, At, RowOK
    <2>2. ended.world = h.loaded.world BY <1>5, <2>1 DEF Ended, Sessions
    <2>3. WorkOK([h EXCEPT !.pc = "writing", !.row = ended])
      BY <1>5, <2>2 DEF WorkOK, Handlers
    <2> QED BY <1>2, <1>13, <2>3 DEF StartEnd
  <1>14. ASSUME NEW w \in Workers,
                Answer(w) \/ Refuse(w) \/ Commit(w) \/ Conflict(w) \/ Fail(w)
         PROVE  WorkInv'
    BY <1>3, <1>14 DEF Answer, Refuse, Commit, Conflict, Fail
  <1>15. ASSUME NEW w \in Workers, Release(w) PROVE WorkInv' BY <1>2, <1>4, <1>15 DEF Release
  <1>16. CASE Crash BY <1>4, <1>16 DEF Crash, WorkInv
  <1>17. CASE UNCHANGED vars BY <1>17 DEF vars, WorkInv, WorkOK
  <1> QED BY <1>6, <1>7, <1>8, <1>9, <1>10, <1>11, <1>12, <1>13, <1>14, <1>15, <1>16, <1>17
          DEF Next, Handle

\* It holds in every state of the server.
LEMMA WorkInvariant == Spec => []WorkInv
PROOF
  <1>1. Init => WorkInv BY DEF Init, WorkInv, WorkOK, Free
  <1> QED BY <1>1, WorkStep, TypeInvariant, RowInvariant, PTL DEF Spec

\* A turn that is under way was under way, or starts.
LEMMA TurnMoves ==
  ASSUME TypeInv, [Next]_vars, NEW v \in Workers, Carries(handler'[v])
  PROVE  \/ StartTurn(v)
         \/ /\ Carries(handler[v])
            /\ \/ handler'[v] = handler[v]
               \/ Generate(v)
               \/ ConfirmNext(v)
               \/ FinishTurn(v)
PROOF
  <1>1. handler \in [Workers -> Handlers] /\ WorkerOK(handler[v]) BY DEF TypeInv, TypeOK
  <1>2. ASSUME NEW g, Becomes(v, g) PROVE handler'[v] = g BY <1>1, <1>2 DEF Becomes
  <1>3. ASSUME NEW w \in Workers, w # v, NEW g, Becomes(w, g) PROVE handler'[v] = handler[v]
    BY <1>1, <1>3 DEF Becomes
  <1>4. ASSUME Generate(v) \/ ConfirmNext(v) \/ FinishTurn(v) PROVE Carries(handler[v])
    BY <1>1, <1>4 DEF Generate, ConfirmNext, FinishTurn, At, Carries, WorkerOK
  <1>5. ASSUME NEW answer, Becomes(v, Replied(v, answer)) PROVE FALSE
    BY <1>2, <1>5 DEF Replied, Free, Carries
  <1>6. ASSUME Answer(v) \/ Refuse(v) \/ Commit(v) \/ Conflict(v) \/ Fail(v) PROVE FALSE
    BY <1>5, <1>6 DEF Answer, Refuse, Commit, Conflict, Fail
  <1>7. ASSUME LoadSession(v) \/ Miss(v) PROVE FALSE
    BY <1>1, <1>2, <1>7 DEF LoadSession, Miss, Carries, Handlers
  <1>8. ASSUME StartEnd(v) PROVE FALSE
    <2>1. handler'[v].req = handler[v].req BY <1>1, <1>8 DEF StartEnd, Becomes, Handlers
    <2> QED BY <1>8, <2>1 DEF StartEnd, Carries
  <1>9. ASSUME NEW w \in Workers, w # v, Handle(w) PROVE handler'[v] = handler[v]
    BY <1>9, HandleMoves
  <1>10. ASSUME NEW w \in Workers, Release(w) \/ \E r \in Requests : Receive(w, r)
         PROVE  handler'[v] = handler[v]
    <2>1. CASE Release(w) BY <1>1, <2>1 DEF Release, Becomes, Free, Carries
    <2>2. ASSUME NEW r \in Requests, Receive(w, r) PROVE handler'[v] = handler[v]
      <3>1. [Free EXCEPT !.pc = "arrived", !.req = r].pc = "arrived" BY DEF Free
      <3> QED BY <1>1, <2>2, <3>1 DEF Receive, Becomes, Carries
    <2> QED BY <1>10, <2>1, <2>2
  <1>11. ASSUME Crash PROVE FALSE BY <1>11 DEF Crash, Free, Carries
  <1>12. ASSUME UNCHANGED vars PROVE handler'[v] = handler[v] BY <1>12 DEF vars
  <1>13. ASSUME handler'[v] = handler[v] PROVE Carries(handler[v]) BY <1>13
  <1>14. ASSUME NEW w \in Workers, Handle(w) PROVE StartTurn(v) \/ handler'[v] = handler[v]
                                 \/ Generate(v) \/ ConfirmNext(v) \/ FinishTurn(v)
    <2>1. CASE w = v BY <1>6, <1>7, <1>8, <1>14, <2>1 DEF Handle
    <2> QED BY <1>9, <1>14, <2>1
  <1> QED BY <1>4, <1>10, <1>11, <1>12, <1>13, <1>14 DEF Next
-----------------------------------------------------------------------------
(* The facts *)

\* What this turn has confirmed goes on from what is committed, up to the facts of its row.
Follows(entries, h) ==
  \E all \in Seq(MarkedEvents) :
    /\ Replayed(entries, all)
    /\ LeadsTo(all \o Marks(h.confirmed, NextTurn(h)), h.row.world)

\* The facts of the session are what the transcript leads to.
Rooted ==
  \E all \in Seq(MarkedEvents) : Replayed(transcript, all) /\ LeadsTo(all, session.world)

FactsInv ==
  /\ Rooted
  /\ \A w \in Workers : Live(w) =>
       /\ ~At(w, "arrived") => handler[w].loaded.world = session.world
       /\ Carries(handler[w]) => Follows(transcript, handler[w])

\* A turn starts with the facts of the session.
LEMMA StartFollows ==
  ASSUME Ground, WorkInv, Rooted, NEW w \in Workers, StartTurn(w),
         handler[w].loaded.world = session.world
  PROVE  Follows(transcript, handler'[w])
PROOF
  <1> DEFINE h == handler[w]
  <1>1. h \in Handlers /\ handler \in [Workers -> Handlers] /\ h.pc = "unanswered"
        /\ h.row = h.loaded /\ h.confirmed = << >>
    BY DEF Ground, TypeInv, TypeOK, StartTurn, At, RowInv, RowOK, WorkInv, WorkOK
  <1>2. \E c : handler'[w] = [h EXCEPT !.pc = "llm", !.loadedCard = card, !.card = c]
    BY <1>1 DEF StartTurn, Becomes
  <1>3. handler'[w].confirmed = << >> /\ handler'[w].row.world = session.world
    BY <1>1, <1>2 DEF Handlers
  <1>4. \A t : Marks(<< >>, t) = << >> BY DEF Marks
  <1>5. PICK all \in Seq(MarkedEvents) : Replayed(transcript, all) /\ LeadsTo(all, session.world)
    BY DEF Rooted
  <1>6. all \o << >> = all OBVIOUS
  <1> QED BY <1>3, <1>4, <1>5, <1>6 DEF Follows

\* The loop of the confirmation goes on from fact to fact, in the scene of the turn.
LEMMA ConfirmFollows ==
  ASSUME Ground, WorkInv, NEW w \in Workers, ConfirmNext(w), Follows(transcript, handler[w]),
         handler[w].loaded.scene_id = SceneAfter(handler[w].loaded.completed_turns)
  PROVE  Follows(transcript, handler'[w])
PROOF
  <1> DEFINE h == handler[w]
             e == Head(h.proposed)
             turn == NextTurn(h)
  <1>1. h \in Handlers /\ handler \in [Workers -> Handlers] /\ h.row \in Sessions
        /\ WorkerOK(h) /\ h.pc = "confirming" /\ h.proposed \in Seq(ProposedEvents) \ {<< >>}
    BY DEF Ground, TypeInv, TypeOK, Handlers, ConfirmNext, At
  <1>2. turn \in Turns /\ h.row.scene_id = SceneAfter(turn - 1)
    <2>1. h.loaded.completed_turns \in Nat BY <1>1 DEF Handlers, Sessions, MAX_TURNS
    <2>2. (h.loaded.completed_turns + 1) - 1 = h.loaded.completed_turns BY <2>1
    <2>3. h.row.scene_id = h.loaded.scene_id BY <1>1 DEF WorkInv, WorkOK
    <2> QED BY <1>1, <2>2, <2>3, NextTurnTyped DEF WorkerOK, NextTurn
  <1>3. CASE Admissible(h.row.world, h.row.scene_id, e)
    <2>1. handler'[w] = [ h EXCEPT !.proposed = Tail(h.proposed),
                                   !.row.world = Applied(h.row.world, e),
                                   !.confirmed = Append(h.confirmed, e) ]
      BY <1>1, <1>3 DEF ConfirmNext, Becomes
    <2>2. /\ handler'[w].confirmed = Append(h.confirmed, e)
          /\ handler'[w].row.world = Applied(h.row.world, e)
          /\ handler'[w].loaded = h.loaded
      BY <1>1, <2>1 DEF Handlers, Sessions
    <2>3. e \in ConfirmedEvents /\ h.confirmed \in Seq(ConfirmedEvents)
      BY <1>1, <1>3, AdmissibleTyped DEF Handlers
    <2>4. PICK all \in Seq(MarkedEvents) :
            Replayed(transcript, all) /\ LeadsTo(all \o Marks(h.confirmed, turn), h.row.world)
      BY DEF Follows
    <2> DEFINE fact == [event |-> e, turn |-> turn]
               whole == all \o Marks(h.confirmed, turn)
    <2>5. fact \in MarkedEvents /\ fact.event = e /\ fact.turn = turn
      BY <1>2, <2>3 DEF MarkedEvents
    <2>6. whole \in Seq(MarkedEvents)
      <3>1. Marks(h.confirmed, turn) \in Seq(MarkedEvents) BY <1>2, <2>3, MarksTyped
      <3> QED BY <3>1
    <2>7. Allowed(h.row.world, fact) BY <1>2, <1>3, <2>5 DEF Allowed
    <2>8. all \o Marks(Append(h.confirmed, e), turn) = Append(whole, fact)
      BY <1>2, <2>3, MarksGrow
    <2>9. LeadsTo(Append(whole, fact), Applied(h.row.world, e))
      <3> HIDE DEF whole, fact, e
      <3> QED BY <2>4, <2>5, <2>6, <2>7, WalkGrows DEF whole
    <2> QED BY <2>2, <2>4, <2>8, <2>9 DEF Follows, NextTurn
  <1>4. CASE ~Admissible(h.row.world, h.row.scene_id, e)
    <2>1. handler'[w] = [h EXCEPT !.proposed = Tail(h.proposed)]
      BY <1>1, <1>4 DEF ConfirmNext, Becomes
    <2>2. /\ handler'[w].confirmed = h.confirmed /\ handler'[w].row = h.row
          /\ handler'[w].loaded = h.loaded
      BY <1>1, <2>1 DEF Handlers
    <2> QED BY <2>2 DEF Follows, NextTurn
  <1> QED BY <1>3, <1>4

\* Neither the advance nor the locked door changes a fact.
LEMMA FinishFollows ==
  ASSUME Ground, NEW w \in Workers, FinishTurn(w), Follows(transcript, handler[w])
  PROVE  Follows(transcript, handler'[w])
PROOF
  <1> DEFINE h == handler[w]
             turn == NextTurn(h)
             advanced == Advanced(h.row, turn)
             locked == [type |-> "door_locked", text |-> NoPlan]
  <1>1. h \in Handlers /\ handler \in [Workers -> Handlers] /\ h.row \in Sessions
        /\ WorkerOK(h) /\ h.pc = "confirming" /\ h.confirmed \in Seq(ConfirmedEvents)
    BY DEF Ground, TypeInv, TypeOK, Handlers, FinishTurn, At
  <1>2. turn \in Turns BY <1>1, NextTurnTyped DEF WorkerOK
  <1>3. advanced \in Sessions /\ advanced.world = h.row.world
    BY <1>1, <1>2, AdvancedTyped DEF Advanced, Sessions
  <1>4. CASE turn < MAX_TURNS
    <2>1. turn # MAX_TURNS BY <1>2, <1>4 DEF Turns, MAX_TURNS
    <2>2. Becomes(w, [h EXCEPT !.pc = "writing", !.row = advanced])
      BY <2>1, Zenon DEF FinishTurn
    <2> HIDE DEF advanced
    <2>3. /\ handler'[w].confirmed = h.confirmed /\ handler'[w].row = advanced
          /\ handler'[w].loaded = h.loaded
      BY <1>1, <2>2 DEF Becomes, Handlers
    <2> QED BY <1>3, <2>3 DEF Follows, NextTurn
  <1>5. CASE turn = MAX_TURNS
    <2> DEFINE s(evidence) == Ended([advanced EXCEPT !.door_locked = TRUE], "completed", evidence)
    <2>1. ~(turn < MAX_TURNS) BY <1>2, <1>5 DEF Turns, MAX_TURNS
    <2>2. PICK evidence : Becomes(w, [h EXCEPT !.pc = "writing", !.row = s(evidence),
                                               !.confirmed = Append(h.confirmed, locked)])
      BY <2>1, Zenon DEF FinishTurn
    <2>3. s(evidence).world = h.row.world BY <1>3 DEF Ended, Sessions
    <2> HIDE DEF s
    <2>4. /\ handler'[w].confirmed = Append(h.confirmed, locked)
          /\ handler'[w].row.world = h.row.world
          /\ handler'[w].loaded = h.loaded
      BY <1>1, <2>2, <2>3 DEF Becomes, Handlers
    <2>5. PICK all \in Seq(MarkedEvents) :
            Replayed(transcript, all) /\ LeadsTo(all \o Marks(h.confirmed, turn), h.row.world)
      BY DEF Follows
    <2> DEFINE fact == [event |-> locked, turn |-> turn]
               whole == all \o Marks(h.confirmed, turn)
    <2>6. locked \in ConfirmedEvents BY DEF ConfirmedEvents, EventTypes
    <2>7. fact \in MarkedEvents /\ fact.event = locked BY <1>2, <2>6 DEF MarkedEvents
    <2>8. whole \in Seq(MarkedEvents)
      <3>1. Marks(h.confirmed, turn) \in Seq(MarkedEvents) BY <1>1, <1>2, MarksTyped
      <3> QED BY <3>1
    <2>9. Allowed(h.row.world, fact) BY DEF Allowed
    <2>10. Applied(h.row.world, locked) = h.row.world BY DEF Applied
    <2>11. all \o Marks(Append(h.confirmed, locked), turn) = Append(whole, fact)
      BY <1>1, <1>2, <2>6, MarksGrow
    <2>12. LeadsTo(Append(whole, fact), h.row.world)
      <3> HIDE DEF whole, fact, locked
      <3> QED BY <2>5, <2>7, <2>8, <2>9, <2>10, WalkGrows DEF whole
    <2> QED BY <2>4, <2>5, <2>11, <2>12 DEF Follows, NextTurn
  <1> QED BY <1>2, <1>4, <1>5 DEF Turns, MAX_TURNS

\* An UPDATE of a row whose facts are the committed ones, or that leaves them alone.
LEMMA UpdatedFacts ==
  ASSUME NEW now \in World, NEW new \in World
  PROVE  UpdatedWorld(now, now, new) = new /\ UpdatedWorld(now, new, new) = now
PROOF BY DEF UpdatedWorld, Column, World
\* A handler that works keeps its request and the row it loaded, or reads the row.
LEMMA WorkMoves ==
  ASSUME TypeInv, [Next]_vars, NEW v \in Workers,
         handler'[v].pc \notin {"free", "replied", "arrived"}
  PROVE  /\ handler[v].pc \notin {"free", "replied"}
         /\ handler'[v].req = handler[v].req
         /\ handler'[v].loaded = IF handler[v].pc = "arrived" THEN session ELSE handler[v].loaded
PROOF
  <1> DEFINE Goal == /\ handler[v].pc \notin {"free", "replied"}
                     /\ handler'[v].req = handler[v].req
                     /\ handler'[v].loaded = IF handler[v].pc = "arrived" THEN session
                                             ELSE handler[v].loaded
  <1>1. handler \in [Workers -> Handlers] BY DEF TypeInv, TypeOK
  <1>2. ASSUME NEW w \in Workers, Handle(w)
        PROVE  IF w = v THEN Goal ELSE handler'[v] = handler[v]
    BY <1>2, HandleMoves
  <1>3. ASSUME NEW w \in Workers, Release(w) \/ \E r \in Requests : Receive(w, r)
        PROVE  handler'[v] = handler[v]
    <2>1. CASE Release(w) BY <1>1, <2>1 DEF Release, Becomes, Free
    <2>2. ASSUME NEW r \in Requests, Receive(w, r) PROVE handler'[v] = handler[v]
      <3>1. [Free EXCEPT !.pc = "arrived", !.req = r].pc = "arrived" BY DEF Free
      <3> QED BY <1>1, <2>2, <3>1 DEF Receive, Becomes
    <2> QED BY <1>3, <2>1, <2>2
  <1>4. ASSUME Crash PROVE FALSE BY <1>4 DEF Crash, Free
  <1>5. ASSUME UNCHANGED vars PROVE handler'[v] = handler[v] BY <1>5 DEF vars
  <1>6. handler'[v] = handler[v] => Goal BY DEF Handlers
  <1> HIDE DEF Goal
  <1>7. Goal BY <1>2, <1>3, <1>4, <1>5, <1>6 DEF Next
  <1> QED BY <1>7 DEF Goal

\* Between two commits the facts of the turns under way grow from those of the session.
LEMMA FactsKept ==
  ASSUME Ground, ClockFollows, PlayInv, WorkInv, FactsInv, [Next]_vars, UNCHANGED rows
  PROVE  FactsInv'
PROOF
  <1>1. session' = session /\ transcript' = transcript BY DEF rows
  <1>2. Rooted' BY <1>1 DEF FactsInv, Rooted
  <1>3. ASSUME NEW v \in Workers, Live(v)', ~At(v, "arrived")'
        PROVE  Live(v) /\ handler'[v].loaded.world = session.world
    <2>1. /\ handler[v].pc \notin {"free", "replied"} /\ handler'[v].req = handler[v].req
          /\ handler'[v].loaded = IF handler[v].pc = "arrived" THEN session ELSE handler[v].loaded
      BY <1>3, WorkMoves DEF Ground, Live, At
    <2>2. Live(v) BY <1>3, <2>1, SameRows DEF Live, Unanswered
    <2> QED BY <2>1, <2>2 DEF FactsInv, At
  <1>4. ASSUME NEW v \in Workers, Live(v)', Carries(handler'[v])
        PROVE  Follows(transcript, handler'[v])
    <2>1. Live(v) BY <1>3, <1>4 DEF Carries, At
    <2>2. CASE StartTurn(v)
      <3>1. handler[v].loaded.world = session.world BY <2>1, <2>2 DEF FactsInv, StartTurn, At
      <3> QED BY <2>2, <3>1, StartFollows DEF FactsInv
    <2>3. CASE Carries(handler[v]) /\ ~StartTurn(v)
      <3>1. Follows(transcript, handler[v]) BY <2>1, <2>3 DEF FactsInv
      <3>2. CASE handler'[v] = handler[v] BY <3>1, <3>2
      <3>3. CASE Generate(v)
        <4>1. /\ handler'[v].confirmed = handler[v].confirmed /\ handler'[v].row = handler[v].row
              /\ handler'[v].loaded = handler[v].loaded
          BY <3>3 DEF Generate, Becomes, Ground, TypeInv, TypeOK, Handlers
        <4> QED BY <3>1, <4>1 DEF Follows, NextTurn
      <3>4. CASE ConfirmNext(v)
        <4>1. Clock(handler[v].loaded) = Clock(session)
          BY <2>1, <2>3 DEF PlayInv, LoadedNow, Carries, At
        <4>2. handler[v].loaded.scene_id = SceneAfter(handler[v].loaded.completed_turns)
          BY <4>1 DEF ClockFollows, Clock, ClockAfter
        <4> QED BY <3>1, <3>4, <4>2, ConfirmFollows
      <3>5. CASE FinishTurn(v) BY <3>1, <3>5, FinishFollows
      <3> QED BY <1>4, <2>3, <3>2, <3>3, <3>4, <3>5, TurnMoves DEF Ground
    <2> QED BY <1>4, <2>2, <2>3, TurnMoves DEF Ground
  <1> QED BY <1>1, <1>2, <1>3, <1>4 DEF FactsInv, At

\* A turn that commits makes its facts those of the session.
LEMMA FactsCommit ==
  ASSUME Ground, PlayInv, FactsInv, NEW w \in Workers, Serve(w), Commit(w),
         Kind[handler[w].req] # "end"
  PROVE  FactsInv'
PROOF
  <1> DEFINE h == handler[w]
  <1>1. h \in Handlers /\ h.pc = "writing" /\ h.row.world \in World /\ session.world \in World
        /\ h.confirmed \in Seq(ConfirmedEvents) /\ transcript \in Seq(Entries)
    BY DEF Ground, TypeInv, TypeOK, Handlers, Sessions, Commit, At
  <1>2. Live(w) /\ Carries(h) /\ ~At(w, "arrived")
    BY <1>1 DEF Commit, Storable, Live, Carries, At
  <1>3. h.loaded.world = session.world /\ Follows(transcript, h) BY <1>2 DEF FactsInv
  <1>4. session'.world = h.row.world
    <2>1. session'.world = UpdatedWorld(session.world, h.loaded.world, h.row.world)
      BY DEF Commit, UpdatedSession
    <2> QED BY <1>1, <1>3, <2>1, UpdatedFacts
  <1>5. NewEntry(w) \in Entries BY <1>1, WrittenTyped DEF Ground, At
  <1>6. NewEntry(w).confirmed = h.confirmed /\ NewEntry(w).turn = NextTurn(h)
    BY <1>1 DEF NewEntry, Ground, RowInv, RowOK
  <1>7. NextTurn(h) \in Turns BY <1>5, <1>6 DEF Entries
  <1>8. PICK all \in Seq(MarkedEvents) :
          Replayed(transcript, all) /\ LeadsTo(all \o Marks(h.confirmed, NextTurn(h)), h.row.world)
    BY <1>3 DEF Follows
  <1>9. Marks(h.confirmed, NextTurn(h)) \in Seq(MarkedEvents) BY <1>1, <1>7, MarksTyped
  <1>10. Replayed(transcript', all \o Marks(h.confirmed, NextTurn(h)))
    <2>1. transcript' = Append(transcript, NewEntry(w)) BY DEF Commit
    <2> QED BY <1>1, <1>5, <1>6, <1>8, <2>1, ReplayGrows
  <1>11. Rooted'
    <2> DEFINE whole == all \o Marks(h.confirmed, NextTurn(h))
    <2>1. whole \in Seq(MarkedEvents) BY <1>9
    <2>2. Replayed(transcript', whole) /\ LeadsTo(whole, session'.world) BY <1>4, <1>8, <1>10
    <2> HIDE DEF whole
    <2> QED BY <2>1, <2>2 DEF Rooted
  <1>12. \A v \in Workers : ~Live(v)' BY NoneLeft
  <1> QED BY <1>11, <1>12 DEF FactsInv

\* An end leaves the facts alone.
LEMMA FactsEnd ==
  ASSUME Ground, PlayInv, WorkInv, FactsInv, NEW w \in Workers, Serve(w), Commit(w),
         Kind[handler[w].req] = "end"
  PROVE  FactsInv'
PROOF
  <1> DEFINE h == handler[w]
  <1>1. h.pc = "writing" /\ h.row.world \in World /\ session.world \in World
    BY DEF Ground, TypeInv, TypeOK, Handlers, Sessions, Commit, At
  <1>2. session'.world = session.world
    <2>1. session'.world = UpdatedWorld(session.world, h.loaded.world, h.row.world)
      BY DEF Commit, UpdatedSession
    <2>2. h.row.world = h.loaded.world BY <1>1 DEF WorkInv, WorkOK
    <2> QED BY <1>1, <2>1, <2>2, UpdatedFacts
  <1>3. transcript' = transcript BY DEF Commit
  <1>4. \A v \in Workers : Live(v)' => Live(v) /\ handler'[v] = handler[v] BY CommitKeepsIds
  <1>5. Rooted' BY <1>2, <1>3 DEF FactsInv, Rooted
  <1> QED BY <1>2, <1>3, <1>4, <1>5 DEF FactsInv, At

\* Every step of one browser and the server keeps the facts.
LEMMA FactsStep ==
  Ground /\ ClockFollows /\ PlayInv /\ WorkInv /\ FactsInv /\ [PlayNext]_playVars => FactsInv'
PROOF
  <1> SUFFICES ASSUME Ground, ClockFollows, PlayInv, WorkInv, FactsInv, [PlayNext]_playVars
               PROVE  FactsInv'
    OBVIOUS
  <1>1. [Next]_vars BY PlayStepTyped DEF Ground
  <1> QED BY <1>1, ServedCommits, FactsKept, FactsCommit, FactsEnd

\* One turn played before the model starts: nothing, or something personal.
LEMMA PlayedFacts ==
  ASSUME NEW entries \in Seq(Entries), NEW t \in Turns,
         \E all \in Seq(MarkedEvents) : Replayed(entries, all) /\ LeadsTo(all, InitialWorld)
  PROVE  /\ Append(entries, PlayedEntry(t)) \in Seq(Entries)
         /\ \E all \in Seq(MarkedEvents) :
              Replayed(Append(entries, PlayedEntry(t)), all) /\ LeadsTo(all, InitialWorld)
PROOF
  <1> DEFINE told == [type |-> "personal_detail_shared", text |-> NoPlan]
             fact == [event |-> told, turn |-> t]
             entry == PlayedEntry(t)
  <1>1. told \in ConfirmedEvents BY DEF ConfirmedEvents, EventTypes, APPLIERS
  <1>2. entry.turn = t /\ entry.confirmed = IF t \in ToldTurns THEN << told >> ELSE << >>
    BY DEF PlayedEntry
  <1>3. entry \in Entries
    <2>1. << told >> \in Seq(ConfirmedEvents) /\ << >> \in Seq(ConfirmedEvents) BY <1>1
    <2> HIDE DEF told
    <2> QED BY <2>1 DEF PlayedEntry, Entries, told
  <1>4. PICK all \in Seq(MarkedEvents) : Replayed(entries, all) /\ LeadsTo(all, InitialWorld)
    OBVIOUS
  <1>5. Replayed(Append(entries, entry), all \o Marks(entry.confirmed, t))
    <2> HIDE DEF entry
    <2> QED BY <1>2, <1>3, <1>4, ReplayGrows
  <1>6. CASE t \notin ToldTurns
    <2>1. Marks(entry.confirmed, t) = << >> BY <1>2, <1>6 DEF Marks
    <2>2. all \o << >> = all OBVIOUS
    <2> QED BY <1>3, <1>4, <1>5, <2>1, <2>2
  <1>7. CASE t \in ToldTurns
    <2>1. Marks(entry.confirmed, t) = << fact >> BY <1>2, <1>7 DEF Marks
    <2>2. fact \in MarkedEvents /\ fact.event = told BY <1>1 DEF MarkedEvents
    <2>3. Allowed(InitialWorld, fact) BY DEF Allowed, Admissible
    <2>4. Applied(InitialWorld, told) = InitialWorld BY DEF Applied
    <2> HIDE DEF told, fact, entry
    <2>5. all \o << fact >> = Append(all, fact) /\ Append(all, fact) \in Seq(MarkedEvents)
      BY <2>2
    <2>6. LeadsTo(Append(all, fact), InitialWorld) BY <1>4, <2>2, <2>3, <2>4, WalkGrows
    <2>7. Replayed(Append(entries, entry), Append(all, fact)) BY <1>5, <2>1, <2>5
    <2>8. Append(entries, entry) \in Seq(Entries) BY <1>3
    <2> QED BY <2>5, <2>6, <2>7, <2>8 DEF entry
  <1> QED BY <1>6, <1>7

\* A session of any length starts with the facts its transcript leads to.
LEMMA FactsInit == PlayInit => FactsInv
PROOF
  <1> SUFFICES ASSUME PlayInit PROVE FactsInv OBVIOUS
  <1> DEFINE Played(n) == [t \in 1..n |-> PlayedEntry(t)]
             Good(n) == /\ Played(n) \in Seq(Entries)
                        /\ \E all \in Seq(MarkedEvents) :
                             Replayed(Played(n), all) /\ LeadsTo(all, InitialWorld)
  <1>1. PICK n \in StartTurns : session = NewSession(n) /\ transcript = Played(n)
    BY DEF PlayInit, Init
  <1>2. n \in 0..11 BY <1>1, StartTurnsAssumption DEF MAX_TURNS
  <1>3. Good(0)
    <2>1. Played(0) = << >> OBVIOUS
    <2>2. Replayed(<< >>, << >>)
      <3>1. IsReplay(<< >>, [i \in 0..0 |-> << >>]) BY DEF IsReplay
      <3>2. \A f : IsReplay(<< >>, f) => f[0] = << >> BY DEF IsReplay
      <3> QED BY <3>1, <3>2 DEF Replayed
    <2>3. LeadsTo(<< >>, InitialWorld)
      <3>1. IsWalk(<< >>, [i \in 0..0 |-> InitialWorld]) BY DEF IsWalk
      <3>2. \A f : IsWalk(<< >>, f) => f[0] = InitialWorld BY DEF IsWalk
      <3> QED BY <3>1, <3>2 DEF LeadsTo
    <2>4. << >> \in Seq(Entries) /\ << >> \in Seq(MarkedEvents) OBVIOUS
    <2> HIDE DEF Played
    <2> QED BY <2>1, <2>2, <2>3, <2>4
  <1>4. ASSUME NEW k \in 0..10, Good(k) PROVE Good(k + 1)
    <2>1. k + 1 \in Turns BY DEF Turns, MAX_TURNS
    <2>2. Played(k + 1) = Append(Played(k), PlayedEntry(k + 1))
      <3>1. Len(Played(k)) = k OBVIOUS
      <3>2. \A t \in 1..k : Played(k)[t] = PlayedEntry(t) OBVIOUS
      <3> QED BY <1>4, <3>1, <3>2
    <2> HIDE DEF Played
    <2> QED BY <1>4, <2>1, <2>2, PlayedFacts
  <1> HIDE DEF Good
  <1>5. Good(1) /\ Good(2) /\ Good(3)
    <2>1. Good(0 + 1) BY <1>3, <1>4
    <2>2. Good(1 + 1) BY <1>4, <2>1
    <2>3. Good(2 + 1) BY <1>4, <2>2
    <2> QED BY <2>1, <2>2, <2>3
  <1>6. Good(4) /\ Good(5) /\ Good(6)
    <2>1. Good(3 + 1) BY <1>4, <1>5
    <2>2. Good(4 + 1) BY <1>4, <2>1
    <2>3. Good(5 + 1) BY <1>4, <2>2
    <2> QED BY <2>1, <2>2, <2>3
  <1>7. Good(7) /\ Good(8) /\ Good(9)
    <2>1. Good(6 + 1) BY <1>4, <1>6
    <2>2. Good(7 + 1) BY <1>4, <2>1
    <2>3. Good(8 + 1) BY <1>4, <2>2
    <2> QED BY <2>1, <2>2, <2>3
  <1>8. Good(10) /\ Good(11)
    <2>1. Good(9 + 1) BY <1>4, <1>7
    <2>2. Good(10 + 1) BY <1>4, <2>1
    <2> QED BY <2>1, <2>2
  <1>9. Good(n)
    <2>1. n \in {0, 1, 2, 3, 4, 5, 6, 7, 8, 9, 10, 11} BY <1>2
    <2> QED BY <1>3, <1>5, <1>6, <1>7, <1>8, <2>1
  <1>10. Rooted
    <2>1. session.world = InitialWorld BY <1>1 DEF NewSession
    <2> QED BY <1>1, <1>9, <2>1 DEF Rooted, Good
  <1>11. \A w \in Workers : handler[w].pc = "free" BY DEF PlayInit, Init, Free
  <1> QED BY <1>10, <1>11 DEF FactsInv, Live

\* turns.py, engine/state.py: with one browser that stays on its page the facts of the
\* session are the confirmed events of its turns, each admissible where it stands, whatever
\* is given up, retried, reloaded or lost in a crash, also with an early end.
THEOREM FactsAreReplay == OneBrowser => (PlaySpec => []WorldIsReplay)
PROOF
  <1> SUFFICES ASSUME OneBrowser PROVE PlaySpec => []WorldIsReplay OBVIOUS
  <1>1. PlayInit => FactsInv /\ ClockFollows
    <2>1. PlayInit => ClockFollows
      BY DEF PlayInit, Init, NewSession, ClockFollows, Clock, ClockAfter
    <2> QED BY <2>1, FactsInit
  <1>2. FactsInv => WorldIsReplay BY FactsReplayed DEF FactsInv, Rooted
  <1> QED BY <1>1, <1>2, ClockFollowsStep, FactsStep, PlayInvariant, GroundHolds, WorkInvariant,
             ServerInPlay, PTL DEF PlaySpec
-----------------------------------------------------------------------------
(* The first five of a set of turns *)

\* The turns of Q before t, and those of Q with less than five before them.
Before(Q, t) == {u \in Q : u < t}

First5(Q) == {t \in Q : Cardinality(Before(Q, t)) < MAX_EVIDENCE}

\* Sets of turns are finite.
LEMMA FiniteTurns ==
  ASSUME NEW Q \in SUBSET Turns
  PROVE  IsFiniteSet(Q) /\ Cardinality(Q) \in Nat /\ \A t : IsFiniteSet(Before(Q, t))
PROOF
  <1>1. IsFiniteSet(Turns)
    <2>1. PICK a, b \in Int : a = 1 /\ b = 12 OBVIOUS
    <2>2. IsFiniteSet(a..b) BY FS_Interval
    <2> QED BY <2>1, <2>2 DEF Turns, MAX_TURNS
  <1>2. Q \subseteq Turns /\ \A t : Before(Q, t) \subseteq Turns BY DEF Before
  <1> QED BY <1>1, <1>2, FS_Subset, FS_CardinalityType

\* A later turn has more before it.
LEMMA BeforeGrows ==
  ASSUME NEW Q \in SUBSET Turns, NEW s \in Q, NEW t \in Q, s < t
  PROVE  Cardinality(Before(Q, s)) + 1 <= Cardinality(Before(Q, t))
PROOF
  <1>1. IsFiniteSet(Before(Q, s)) /\ IsFiniteSet(Before(Q, t)) BY FiniteTurns
  <1>2. s \in Nat /\ t \in Nat BY DEF Turns, MAX_TURNS
  <1>3. s \notin Before(Q, s) BY <1>2 DEF Before
  <1>4. Cardinality(Before(Q, s) \cup {s}) = Cardinality(Before(Q, s)) + 1
    BY <1>1, <1>3, FS_AddElement
  <1>5. Before(Q, s) \cup {s} \subseteq Before(Q, t)
    <2>1. \A u \in Q : u \in Nat BY DEF Turns, MAX_TURNS
    <2>2. \A u \in Q : u < s => u < t BY <1>2, <2>1
    <2> QED BY <2>2 DEF Before
  <1> QED BY <1>1, <1>4, <1>5, FS_Subset

\* Of any turns there is an earliest.
LEMMA LeastTurn ==
  ASSUME NEW S \in SUBSET Turns, S # {}
  PROVE  \E r \in S : \A u \in S : r <= u
PROOF
  <1> SUFFICES ASSUME \A r \in S : \E u \in S : u < r PROVE FALSE
    BY DEF Turns, MAX_TURNS
  <1>1. \A r \in S : r \in 1..12 BY DEF Turns, MAX_TURNS
  <1>2. 1 \notin S /\ 2 \notin S /\ 3 \notin S /\ 4 \notin S BY <1>1
  <1>3. 5 \notin S /\ 6 \notin S /\ 7 \notin S /\ 8 \notin S BY <1>1, <1>2
  <1>4. 9 \notin S /\ 10 \notin S /\ 11 \notin S /\ 12 \notin S BY <1>1, <1>2, <1>3
  <1> QED BY <1>1, <1>2, <1>3, <1>4

\* At most five are among the first, for no two have as many before them.
LEMMA AtMostFive ==
  ASSUME NEW Q \in SUBSET Turns
  PROVE  Cardinality(First5(Q)) \in Nat /\ Cardinality(First5(Q)) <= 5
PROOF
  <1>1. First5(Q) \subseteq Q BY DEF First5
  <1>2. IsFiniteSet(First5(Q)) /\ Cardinality(First5(Q)) \in Nat BY <1>1, FiniteTurns
  <1>3. SUFFICES ASSUME ~(Cardinality(First5(Q)) <= 5) PROVE FALSE BY <1>2
  <1>4. IsFiniteSet(0..4) /\ Cardinality(0..4) = 5
    <2>1. PICK a, b \in Int : a = 0 /\ b = 4 OBVIOUS
    <2>2. IsFiniteSet(a..b) /\ Cardinality(a..b) = IF a > b THEN 0 ELSE b - a + 1 BY FS_Interval
    <2> QED BY <2>1, <2>2
  <1> DEFINE f == [t \in First5(Q) |-> Cardinality(Before(Q, t))]
  <1>5. f \in [First5(Q) -> 0..4]
    <2>1. \A t \in First5(Q) : Cardinality(Before(Q, t)) \in Nat BY FiniteTurns, FS_CardinalityType
    <2> QED BY <2>1 DEF First5, MAX_EVIDENCE
  <1>6. PICK s, t \in First5(Q) : s # t /\ f[s] = f[t]
    <2>1. Cardinality(0..4) < Cardinality(First5(Q)) BY <1>2, <1>3, <1>4
    <2> HIDE DEF f
    <2>2. \A g \in [First5(Q) -> 0..4] : \E s, t \in First5(Q) : s # t /\ g[s] = g[t]
      BY <1>2, <1>4, <2>1, FS_PigeonHole, Zenon
    <2> QED BY <1>5, <2>2
  <1>7. s \in Nat /\ t \in Nat /\ s \in Q /\ t \in Q
    <2>1. s \in Q /\ t \in Q BY <1>1
    <2> QED BY <2>1 DEF Turns, MAX_TURNS
  <1>8. Cardinality(Before(Q, s)) = Cardinality(Before(Q, t))
        /\ Cardinality(Before(Q, s)) \in Nat
    BY <1>6, FiniteTurns, FS_CardinalityType
  <1>9. s < t \/ t < s BY <1>6, <1>7
  <1> QED BY <1>7, <1>8, <1>9, BeforeGrows

\* Who is not among the first comes after five of them.
LEMMA AfterFive ==
  ASSUME NEW Q \in SUBSET Turns, NEW t \in Q, t \notin First5(Q)
  PROVE  Cardinality(First5(Q)) = 5 /\ \A u \in First5(Q) : u < t
PROOF
  <1>1. \A u \in Q : u \in Nat /\ Cardinality(Before(Q, u)) \in Nat
    BY FiniteTurns, FS_CardinalityType DEF Turns, MAX_TURNS
  <1>2. ASSUME NEW r \in Q, r \notin First5(Q), NEW u \in First5(Q) PROVE u < r
    <2>1. u \in Q /\ Cardinality(Before(Q, u)) < 5 BY DEF First5, MAX_EVIDENCE
    <2>2. ~(Cardinality(Before(Q, r)) < 5) BY <1>2 DEF First5, MAX_EVIDENCE
    <2>3. r < u => Cardinality(Before(Q, r)) + 1 <= Cardinality(Before(Q, u))
      BY <2>1, BeforeGrows
    <2>4. u # r BY <1>2
    <2> QED BY <1>1, <2>1, <2>2, <2>3, <2>4
  <1>3. PICK r \in Q \ First5(Q) : \A u \in Q \ First5(Q) : r <= u
    <2>1. Q \ First5(Q) \in SUBSET Turns /\ Q \ First5(Q) # {} OBVIOUS
    <2> QED BY <2>1, LeastTurn
  <1>4. Before(Q, r) = First5(Q)
    <2>1. ASSUME NEW u \in Q, u < r PROVE u \in First5(Q)
      <3>1. u \in Nat /\ r \in Nat BY <1>1
      <3>2. ~(r <= u) BY <2>1, <3>1
      <3> QED BY <1>3, <3>2
    <2>2. \A u \in First5(Q) : u \in Q /\ u < r BY <1>2 DEF First5
    <2> QED BY <2>1, <2>2 DEF Before
  <1>5. ~(Cardinality(Before(Q, r)) < 5) BY DEF First5, MAX_EVIDENCE
  <1> QED BY <1>1, <1>2, <1>4, <1>5, AtMostFive

-----------------------------------------------------------------------------
(* The quotations *)

\* What the ending may quote of the entries, and how.
Quotables(entries) ==
  {i \in DOMAIN entries : entries[i].kind = "player" /\ Effects(entries[i]) # {}}

QuotedAs(entry) == [turn |-> entry.turn, effects |-> Effects(entry)]

\* The evidence query, where each turn has one entry and a turn without entry may be asked for.
LEMMA EvidenceQuotes ==
  ASSUME NEW entries \in Seq(Entries),
         \A i, j \in DOMAIN entries : entries[i].turn = entries[j].turn => i = j,
         NEW said \in SUBSET Turns, Said(entries) \subseteq said,
         \A t \in said \ Said(entries) : \A i \in DOMAIN entries : entries[i].turn # t,
         NEW quotes, quotes = SelectEvidence(entries, said)
  PROVE  /\ quotes \subseteq {QuotedAs(entries[i]) : i \in Quotables(entries)}
         /\ Cardinality(quotes) <= 5
         /\ \A i \in Quotables(entries) :
              \/ QuotedAs(entries[i]) \in quotes
              \/ Cardinality(quotes) = 5 /\ \A q \in quotes : q.turn < entries[i].turn
PROOF
  <1> DEFINE EffectsOf(t) ==
               UNION {Effects(entries[i]) : i \in {j \in DOMAIN entries : entries[j].turn = t}}
             Q == {t \in said : EffectsOf(t) # {}}
             Quote(t) == [turn |-> t, effects |-> EffectsOf(t)]
  <1>1. ASSUME NEW i \in DOMAIN entries PROVE EffectsOf(entries[i].turn) = Effects(entries[i])
    <2>1. {j \in DOMAIN entries : entries[j].turn = entries[i].turn} = {i} OBVIOUS
    <2> QED BY <2>1
  <1>2. Q \in SUBSET Turns OBVIOUS
  <1>3. quotes = {Quote(t) : t \in First5(Q)}
    BY Zenon DEF SelectEvidence, First5, Before
  <1>4. ASSUME NEW t \in Q
        PROVE  \E i \in Quotables(entries) : entries[i].turn = t /\ QuotedAs(entries[i]) = Quote(t)
    <2>1. PICK i \in DOMAIN entries : entries[i].turn = t OBVIOUS
    <2>2. t \in Said(entries) BY <2>1
    <2>3. entries[i].kind = "player" BY <2>1, <2>2 DEF Said
    <2>4. EffectsOf(t) = Effects(entries[i]) BY <1>1, <2>1
    <2>5. i \in Quotables(entries) BY <2>3, <2>4 DEF Quotables
    <2> QED BY <2>1, <2>4, <2>5 DEF QuotedAs
  <1>5. ASSUME NEW i \in Quotables(entries)
        PROVE  entries[i].turn \in Q /\ QuotedAs(entries[i]) = Quote(entries[i].turn)
    <2>1. i \in DOMAIN entries /\ entries[i].kind = "player" /\ Effects(entries[i]) # {}
      BY DEF Quotables
    <2>2. entries[i].turn \in Said(entries) BY <2>1 DEF Said
    <2>3. EffectsOf(entries[i].turn) = Effects(entries[i]) BY <1>1, <2>1
    <2> QED BY <2>1, <2>2, <2>3 DEF QuotedAs
  <1> HIDE DEF Q
  <1>6. First5(Q) \subseteq Q BY DEF First5
  <1>7. Cardinality(quotes) = Cardinality(First5(Q))
    <2> DEFINE f == [t \in First5(Q) |-> Quote(t)]
    <2>1. \A t : Quote(t).turn = t OBVIOUS
    <2>2. f \in Bijection(First5(Q), quotes)
      <3> HIDE DEF Quote
      <3>1. f \in [First5(Q) -> quotes] BY <1>3
      <3>2. \A s, t \in First5(Q) : f[s] = f[t] => s = t
        <4>1. ASSUME NEW s \in First5(Q), NEW t \in First5(Q), f[s] = f[t] PROVE s = t
          <5>1. Quote(s) = Quote(t) BY <4>1
          <5> QED BY <2>1, <5>1
        <4> QED BY <4>1
      <3>3. \A q \in quotes : \E t \in First5(Q) : f[t] = q BY <1>3
      <3> QED BY <3>1, <3>2, <3>3 DEF Bijection, Injection, Surjection, IsInjective
    <2>3. IsFiniteSet(First5(Q)) BY <1>2, <1>6, FiniteTurns
    <2> HIDE DEF f
    <2> QED BY <2>2, <2>3, FS_Bijection DEF ExistsBijection
  <1>8. quotes \subseteq {QuotedAs(entries[i]) : i \in Quotables(entries)}
    <2>1. ASSUME NEW q \in quotes PROVE \E i \in Quotables(entries) : q = QuotedAs(entries[i])
      <3>1. PICK t \in First5(Q) : q = Quote(t) BY <1>3
      <3> HIDE DEF Quote
      <3> QED BY <1>4, <1>6, <3>1
    <2> QED BY <2>1
  <1>9. ASSUME NEW i \in Quotables(entries)
        PROVE  \/ QuotedAs(entries[i]) \in quotes
               \/ Cardinality(quotes) = 5 /\ \A q \in quotes : q.turn < entries[i].turn
    <2> DEFINE t == entries[i].turn
    <2>1. t \in Q /\ QuotedAs(entries[i]) = Quote(t) BY <1>5
    <2>2. CASE t \in First5(Q)
      <3> HIDE DEF Quote, t
      <3> QED BY <1>3, <2>1, <2>2
    <2>3. CASE t \notin First5(Q)
      <3>1. Cardinality(First5(Q)) = 5 /\ \A u \in First5(Q) : u < t
        BY <1>2, <2>1, <2>3, AfterFive
      <3>2. \A u : Quote(u).turn = u OBVIOUS
      <3>3. ASSUME NEW q \in quotes PROVE q.turn < t
        <4> HIDE DEF Quote, t
        <4>1. PICK u \in First5(Q) : q = Quote(u) BY <1>3
        <4> QED BY <3>1, <3>2, <4>1
      <3> QED BY <1>7, <3>1, <3>3
    <2> QED BY <2>2, <2>3
  <1> QED BY <1>2, <1>7, <1>8, <1>9, AtMostFive

\* An ending that is about to be stored quotes what is committed.
QuoteInv ==
  /\ EndingQuotesConfirmed
  /\ \A w \in Workers : Live(w) /\ At(w, "writing") /\ EndsStory(w) =>
       handler[w].row.ending.evidence = SelectEvidence(transcript, Quotable(w))

\* The answer that ends the story quotes the transcript with the last turn.
LEMMA FinishQuotes ==
  ASSUME Ground, EndInv, NEW w \in Workers, FinishTurn(w), UNCHANGED rows, EndsStory(w)'
  PROVE  handler'[w].row.ending.evidence = SelectEvidence(transcript, Quotable(w)')
PROOF
  <1> DEFINE h == handler[w]
             turn == NextTurn(h)
             advanced == Advanced(h.row, turn)
  <1>1. h \in Handlers /\ handler \in [Workers -> Handlers] /\ h.row \in Sessions
        /\ WorkerOK(h) /\ RowOK(h) /\ h.pc = "confirming"
    BY DEF Ground, TypeInv, TypeOK, RowInv, Handlers, FinishTurn, At
  <1>2. turn \in Turns BY <1>1, NextTurnTyped DEF WorkerOK
  <1>3. advanced \in Sessions /\ advanced.ending = h.row.ending
    BY <1>1, <1>2, AdvancedTyped DEF Advanced, Sessions
  <1>4. CASE turn < MAX_TURNS
    <2>1. turn # MAX_TURNS BY <1>2, <1>4 DEF Turns, MAX_TURNS
    <2>2. Becomes(w, [h EXCEPT !.pc = "writing", !.row = advanced])
      BY <2>1, Zenon DEF FinishTurn
    <2> HIDE DEF advanced
    <2>3. handler'[w].row = advanced BY <1>1, <2>2 DEF Becomes, Handlers
    <2>4. ~h.loaded.ending.written /\ h.row.ending = h.loaded.ending
      BY <1>1 DEF RowOK, SameEnd, EndInv
    <2> QED BY <1>3, <2>3, <2>4 DEF EndsStory
  <1>5. CASE turn = MAX_TURNS
    <2> DEFINE evidence == SelectEvidence(transcript, Quotable(w))
               s == Ended([advanced EXCEPT !.door_locked = TRUE], "completed", evidence)
    <2>1. ~(turn < MAX_TURNS) BY <1>2, <1>5 DEF Turns, MAX_TURNS
    <2>2. \E c : Becomes(w, [h EXCEPT !.pc = "writing", !.row = s, !.confirmed = c])
      BY <2>1, Zenon DEF FinishTurn
    <2>3. s.ending.evidence = evidence BY <1>3 DEF Ended, Sessions
    <2> HIDE DEF s
    <2>4. handler'[w].row = s /\ handler'[w].req = h.req /\ handler'[w].loaded = h.loaded
      BY <1>1, <2>2 DEF Becomes, Handlers
    <2>5. transcript' = transcript BY DEF rows
    <2>6. Quotable(w)' = Quotable(w) BY <2>4, <2>5 DEF Quotable, NextTurn
    <2> QED BY <2>3, <2>4, <2>6
  <1> QED BY <1>2, <1>4, <1>5 DEF Turns, MAX_TURNS

\* Between two commits.
LEMMA QuotesKept ==
  ASSUME Ground, EndInv, QuoteInv, [Next]_vars, UNCHANGED rows
  PROVE  QuoteInv'
PROOF
  <1>1. session' = session /\ transcript' = transcript /\ scheduled' = scheduled BY DEF rows
  <1>2. EndingQuotesConfirmed' BY <1>1 DEF QuoteInv, EndingQuotesConfirmed
  <1>3. ASSUME NEW v \in Workers, Live(v)', At(v, "writing")', EndsStory(v)'
        PROVE  handler'[v].row.ending.evidence = SelectEvidence(transcript, Quotable(v)')
    <2>1. Carries(handler'[v]) BY <1>3 DEF Carries, Live, At
    <2>2. handler \in [Workers -> Handlers] BY DEF Ground, TypeInv, TypeOK
    <2>3. CASE FinishTurn(v) BY <1>3, <2>3, FinishQuotes
    <2>4. CASE handler'[v] = handler[v]
      <3>1. Quotable(v)' = Quotable(v) BY <1>1, <2>4 DEF Quotable
      <3>2. Live(v) /\ At(v, "writing") /\ EndsStory(v)
        BY <1>3, <2>4, SameRows DEF Live, At, EndsStory, Unanswered
      <3> QED BY <2>4, <3>1, <3>2 DEF QuoteInv
    <2>5. ASSUME StartTurn(v) \/ Generate(v) PROVE FALSE
      BY <1>3, <2>2, <2>5 DEF StartTurn, Generate, Becomes, At, Handlers
    <2>6. ASSUME ConfirmNext(v) PROVE FALSE
      <3>1. handler'[v].pc = handler[v].pc BY <2>2, <2>6 DEF ConfirmNext, Becomes, Handlers
      <3> QED BY <1>3, <2>6, <3>1 DEF ConfirmNext, At
    <2> QED BY <2>1, <2>3, <2>4, <2>5, <2>6, TurnMoves DEF Ground
  <1> QED BY <1>1, <1>2, <1>3 DEF QuoteInv

\* The ending that a turn commits quotes the entries before its own.
LEMMA QuotesCommit ==
  ASSUME Ground, PlayInv, EndInv, OncePerRequest, NoEarlyEnd, QuoteInv, NEW w \in Workers,
         Serve(w), Commit(w)
  PROVE  EndingQuotesConfirmed'
PROOF
  <1> DEFINE h == handler[w]
             said == Quotable(w)
             quotes == session'.ending.evidence
  <1>1. /\ session.status = "in_progress" /\ h.req \in Requests /\ Unanswered(h.req)
        /\ Kind[h.req] # "end"
    BY TurnCommitsNow
  <1>2. ~session.ending.written /\ scheduled = {} BY <1>1 DEF EndInv, EndingHasItsCause
  <1>3. transcript \in Seq(Entries) /\ h.pc = "writing"
    BY DEF Ground, TypeInv, TypeOK, Commit, At
  <1>4. h.loaded = session /\ NewEntry(w).turn = session.completed_turns + 1
    BY <1>1, TurnCommits
  <1>5. CASE ~EndsStory(w)
    <2>1. ~session'.ending.written BY <1>2, <1>5, CommitEnds DEF Ground
    <2> QED BY <2>1 DEF EndingQuotesConfirmed
  <1>6. CASE EndsStory(w)
    <2>1. Live(w) BY <1>1, <1>3 DEF Live
    <2>2. h.row.ending.evidence = SelectEvidence(transcript, said)
      BY <1>3, <1>6, <2>1 DEF QuoteInv, At
    <2>3. session'.ending = h.row.ending
      BY <1>4 DEF Commit, UpdatedSession, Column
    <2>4. scheduled' = {h.req} BY <1>2, <1>6 DEF Commit
    <2>5. /\ DOMAIN transcript' = DOMAIN transcript \cup {Len(transcript) + 1}
          /\ \A i \in DOMAIN transcript : transcript'[i] = transcript[i]
          /\ transcript'[Len(transcript) + 1] = NewEntry(w)
      BY <1>1, CommitAppends DEF Ground
    <2>6. \A i \in DOMAIN transcript : transcript[i].req # h.req
      BY <1>1, RequestsAssumption DEF OncePerRequest, Unanswered
    <2>7. NewEntry(w).req = h.req BY DEF NewEntry
    <2>8. {i \in DOMAIN transcript' : transcript'[i].req \notin scheduled'} = DOMAIN transcript
      <3> DEFINE last == Len(transcript) + 1
      <3> HIDE DEF last
      <3>1. /\ DOMAIN transcript' = DOMAIN transcript \cup {last}
            /\ transcript'[last].req \in scheduled'
        BY <2>4, <2>5, <2>7 DEF last
      <3>2. \A i \in DOMAIN transcript : transcript'[i].req \notin scheduled'
        BY <2>4, <2>5, <2>6
      <3> QED BY <3>1, <3>2
    <2>9. /\ said \in SUBSET Turns /\ Said(transcript) \subseteq said
          /\ \A t \in said \ Said(transcript) : \A i \in DOMAIN transcript : transcript[i].turn # t
      <3>1. said \subseteq Said(transcript) \cup {session.completed_turns + 1}
            /\ Said(transcript) \subseteq said
        BY <1>4 DEF Quotable, NextTurn
      <3>2. session.completed_turns + 1 \in Turns /\ session.completed_turns \in Nat
        <4>1. NewEntry(w) \in Entries BY <1>1, <1>3, WrittenTyped DEF Ground, At
        <4> QED BY <1>4, <4>1 DEF Entries, Ground, TypeInv, TypeOK, Sessions, MAX_TURNS
      <3>3. \A i \in DOMAIN transcript : transcript[i].turn # session.completed_turns + 1
        <4>1. \A i \in DOMAIN transcript : transcript[i] \in Entries BY <1>3
        <4> QED BY <3>2, <4>1 DEF PlayInv, TurnsCounted, Entries, Turns, MAX_TURNS
      <3> QED BY <1>3, <3>1, <3>2, <3>3, SaidTyped
    <2>10. \A i, j \in DOMAIN transcript : transcript[i].turn = transcript[j].turn => i = j
      BY DEF PlayInv, TurnsCounted, OneTurnAtATime
    <2>11. quotes = SelectEvidence(transcript, said) BY <2>2, <2>3
    <2> DEFINE quotable == Quotables(transcript)
    <2> HIDE DEF quotes, said
    <2>12. /\ quotes \subseteq {QuotedAs(transcript[i]) : i \in quotable}
           /\ Cardinality(quotes) <= 5
           /\ \A i \in quotable :
                \/ QuotedAs(transcript[i]) \in quotes
                \/ Cardinality(quotes) = 5 /\ \A q \in quotes : q.turn < transcript[i].turn
      BY <1>3, <2>9, <2>10, <2>11, EvidenceQuotes
    <2>13. /\ quotable = {i \in DOMAIN transcript : transcript'[i].kind = "player"
                                                    /\ Effects(transcript'[i]) # {}}
           /\ \A i \in quotable : transcript'[i] = transcript[i]
      BY <2>5 DEF Quotables
    <2> HIDE DEF quotable
    <2>14. /\ quotes \subseteq {QuotedAs(transcript'[i]) : i \in quotable}
           /\ \A i \in quotable :
                \/ QuotedAs(transcript'[i]) \in quotes
                \/ Cardinality(quotes) = 5 /\ \A q \in quotes : q.turn < transcript'[i].turn
      BY <2>12, <2>13
    <2> QED BY <2>8, <2>12, <2>13, <2>14 DEF EndingQuotesConfirmed, QuotedAs, quotes
  <1> QED BY <1>5, <1>6

\* Every step of one browser and the server keeps the quotations.
LEMMA QuotesStep ==
  Ground /\ PlayInv /\ EndInv /\ OncePerRequest /\ NoEarlyEnd /\ QuoteInv /\ [PlayNext]_playVars
    => QuoteInv'
PROOF
  <1> SUFFICES ASSUME Ground, PlayInv, EndInv, OncePerRequest, NoEarlyEnd, QuoteInv,
                      [PlayNext]_playVars
               PROVE  QuoteInv'
    OBVIOUS
  <1>1. [Next]_vars BY PlayStepTyped DEF Ground
  <1>2. ASSUME NEW w \in Workers, Serve(w), Commit(w) PROVE QuoteInv'
    <2>1. Kind[handler[w].req] # "end" BY <1>2, TurnCommitsNow
    <2>2. \A v \in Workers : ~Live(v)' BY <1>2, <2>1, NoneLeft
    <2> QED BY <1>2, <2>2, QuotesCommit DEF QuoteInv
  <1> QED BY <1>1, <1>2, QuotesKept, ServedCommits

\* What Turns_proofs shows of repeated requests and of the endings, in one.
LEMMA OnceInvariant == Spec => [](OncePerRequest /\ EndInv)
PROOF
  <1> QED BY OncePerRequestHolds, EndInit, EndStep, TypeInvariant, RowInvariant, PTL DEF Spec

\* engine/ending.py: with one browser and no early end, the ending quotes the earliest
\* turns that have something to explain, five at most, and each with what it confirmed,
\* however the last turn was retried or raced by its own copies.
THEOREM EndingQuotesCommitted ==
  OneBrowser /\ NoEarlyEnd => (PlaySpec => []EndingQuotesConfirmed)
PROOF
  <1> SUFFICES ASSUME OneBrowser, NoEarlyEnd PROVE PlaySpec => []EndingQuotesConfirmed OBVIOUS
  <1>1. PlayInit => QuoteInv
    <2> SUFFICES ASSUME PlayInit PROVE QuoteInv OBVIOUS
    <2>1. ~session.ending.written BY DEF PlayInit, Init, NewSession
    <2>2. \A w \in Workers : handler[w].pc = "free" BY DEF PlayInit, Init, Free
    <2> QED BY <2>1, <2>2 DEF QuoteInv, EndingQuotesConfirmed, Live
  <1>2. QuoteInv => EndingQuotesConfirmed BY DEF QuoteInv
  <1>3. Ground /\ PlayInv /\ EndInv /\ OncePerRequest /\ QuoteInv /\ [PlayNext]_playVars
          => QuoteInv'
    BY QuotesStep
  <1> QED BY <1>1, <1>2, <1>3, PlayInvariant, GroundHolds, OnceInvariant, ServerInPlay, PTL
          DEF PlaySpec
===============================================================================
