---------------------------- MODULE Turns_proofs ----------------------------
(***************************************************************************)
(* Proofs about module Turns: what the handlers keep for every set of      *)
(* requests, workers and proposals.                                        *)
(***************************************************************************)
EXTENDS Turns, TLAPS
-----------------------------------------------------------------------------
(* The tables and the rows *)

\* Every turn has a scene and a time.
LEMMA TableTyped ==
  ASSUME NEW turn \in Turns
  PROVE  /\ SceneAfter(turn) \in Scenes
         /\ StoryTimeAfter(turn) \in Nat
<1>1. turn \in 1..12
  BY DEF Turns, MAX_TURNS
<1>2. turn \in {1, 2, 3, 4, 5, 6, 7, 8, 9, 10, 11, 12}
  BY <1>1
<1>3. TurnScene[turn] \in Scenes /\ TurnStoryTime[turn] \in Nat
  BY <1>2 DEF TurnScene, TurnStoryTime, Scenes
<1>4. TransitionsTo(turn) # 0 => TransitionsTo(turn) \in Scenes
  BY <1>2 DEF TransitionsTo, Scenes
<1>5. QED
  BY <1>2, <1>3, <1>4 DEF SceneAfter, StoryTimeAfter

\* A session that starts after `played` turns is well formed.
LEMMA NewSessionTyped ==
  ASSUME NEW played \in 0..(MAX_TURNS - 1)
  PROVE  NewSession(played) \in Sessions
<1>1. InitialWorld \in World
  BY DEF InitialWorld, World
<1>2. SceneAfter(played) \in Scenes /\ StoryTimeAfter(played) \in Nat
  <2>1. CASE played = 0
    BY <2>1 DEF TransitionsTo, SceneAfter, StoryTimeAfter, INITIAL_SCENE, INITIAL_STORY_TIME, Scenes
  <2>2. CASE played # 0
    <3>1. played \in Turns
      BY <2>2 DEF Turns, MAX_TURNS
    <3>2. QED
      BY <3>1, TableTyped
  <2>3. QED
    BY <2>1, <2>2
<1>3. QED
  BY <1>1, <1>2 DEF NewSession, Sessions, MAX_TURNS

\* The appliers keep the facts well formed.
LEMMA AppliedTyped ==
  ASSUME NEW w \in World, NEW e \in ProposedEvents
  PROVE  Applied(w, e) \in World
BY DEF Applied, World, ProposedEvents

\* What is confirmed is an event that has an applier.
LEMMA AdmissibleTyped ==
  ASSUME NEW w, NEW scene, NEW e \in ProposedEvents, Admissible(w, scene, e)
  PROVE  e \in ConfirmedEvents
<1>1. e.type \in APPLIERS
  BY DEF Admissible, APPLIERS
<1>2. QED
  BY <1>1 DEF ProposedEvents, ConfirmedEvents, EventTypes

\* The evidence query returns quotations of turns.
LEMMA EvidenceTyped ==
  ASSUME NEW written \in Seq(Entries), NEW said \in SUBSET Turns
  PROVE  SelectEvidence(written, said) \subseteq Evidence
<1>1. EvidenceTypes \subseteq EventTypes
  BY DEF EvidenceTypes, EventTypes, APPLIERS
<1>2. \A entry : Effects(entry) \subseteq EventTypes
  BY <1>1 DEF Effects
<1> DEFINE EffectsOf(t) ==
             UNION {Effects(written[i]) : i \in {j \in DOMAIN written : written[j].turn = t}}
<1>3. \A t : EffectsOf(t) \in SUBSET EventTypes
  BY <1>2
<1>4. \A q \in SelectEvidence(written, said) :
        \E t \in said : q = [turn |-> t, effects |-> EffectsOf(t)]
  BY Zenon DEF SelectEvidence
<1> HIDE DEF EffectsOf
<1>5. QED
  BY <1>3, <1>4 DEF Evidence

\* The turns with a player message are turns.
LEMMA SaidTyped ==
  ASSUME NEW written \in Seq(Entries)
  PROVE  Said(written) \subseteq Turns
<1>1. \A i \in DOMAIN written : written[i] \in Entries
  OBVIOUS
<1>2. QED
  BY <1>1 DEF Said, Entries

\* An UPDATE of changed columns leaves a well formed session row.
LEMMA UpdatedSessionTyped ==
  ASSUME NEW now \in Sessions, NEW loaded \in Sessions, NEW new \in Sessions
  PROVE  UpdatedSession(now, loaded, new) \in Sessions
<1>1. UpdatedWorld(now.world, loaded.world, new.world) \in World
  BY DEF UpdatedWorld, Column, World, Sessions
<1>2. QED
  BY <1>1 DEF UpdatedSession, Column, Sessions

\* The same of the card row.
LEMMA UpdatedCardTyped ==
  ASSUME NEW now \in Cards, NEW loaded \in Cards, NEW new \in Cards
  PROVE  UpdatedCard(now, loaded, new) \in Cards
BY DEF UpdatedCard, Column, Cards
-----------------------------------------------------------------------------
(* Type correctness *)

\* What a worker's record says at each step, beyond its type: the request is a
\* real one, and a turn has been given a number of the table.
WorkerOK(h) ==
  /\ h.pc # "free" => h.req \in Requests
  /\ h.pc \in {"llm", "confirming"} =>
       Kind[h.req] # "end" /\ h.loaded.completed_turns < MAX_TURNS
  /\ h.pc = "writing" /\ Kind[h.req] # "end" => h.row.completed_turns \in Turns

\* The type invariant, made inductive.
TypeInv ==
  /\ TypeOK
  /\ \A w \in Workers : WorkerOK(handler[w])

\* A step that gives one worker a good record keeps all records good.
LEMMA BecomesTyped ==
  ASSUME TypeInv, NEW w \in Workers, NEW h \in Handlers, WorkerOK(h), Becomes(w, h)
  PROVE  /\ handler' \in [Workers -> Handlers]
         /\ \A v \in Workers : WorkerOK(handler'[v])
<1>1. handler \in [Workers -> Handlers]
  BY DEF TypeInv, TypeOK
<1>2. \A v \in Workers : handler'[v] = IF v = w THEN h ELSE handler[v]
  BY <1>1 DEF Becomes
<1>3. QED
  BY <1>1, <1>2 DEF TypeInv, Becomes

LEMMA FreeTyped == Free \in Handlers /\ WorkerOK(Free)
<1>1. 0 \in 0..(MAX_TURNS - 1)
  BY DEF MAX_TURNS
<1>2. NewSession(0) \in Sessions
  BY <1>1, NewSessionTyped
<1>3. BlankCard \in Cards
  BY DEF BlankCard, Cards, MAX_TURNS
<1>4. NoReply \in Replies
  BY DEF NoReply, PlainReply, Replies, MAX_TURNS
<1>5. << >> \in Seq(ProposedEvents) /\ << >> \in Seq(ConfirmedEvents)
  OBVIOUS
<1>6. Free \in Handlers
  BY <1>2, <1>3, <1>4, <1>5 DEF Free, Handlers
<1>7. QED
  BY <1>6 DEF Free, WorkerOK

\* A worker that has an answer to send.
LEMMA RepliedTyped ==
  ASSUME NEW w \in Workers, handler[w].req \in Requests, NEW answer \in Replies
  PROVE  Replied(w, answer) \in Handlers /\ WorkerOK(Replied(w, answer))
<1>1. Free \in Handlers
  BY FreeTyped
<1>2. QED
  BY <1>1 DEF Replied, Handlers, WorkerOK

LEMMA PlainReplyTyped ==
  ASSUME NEW kind \in {"none", "turn", "ended", "refused", "error"}
  PROVE  PlainReply(kind) \in Replies
BY DEF PlainReply, Replies, MAX_TURNS

\* The number a handler gives its turn is one of the table.
LEMMA NextTurnTyped ==
  ASSUME NEW h \in Handlers, h.loaded.completed_turns < MAX_TURNS
  PROVE  NextTurn(h) \in Turns
BY DEF NextTurn, Handlers, Sessions, Turns, MAX_TURNS

\* What a handler that writes is about to store.
LEMMA WrittenTyped ==
  ASSUME TypeInv, NEW w \in Workers, At(w, "writing")
  PROVE  /\ Snapshot(w) \in Replies
         /\ Kind[handler[w].req] # "end" => NewEntry(w) \in Entries
<1> DEFINE h == handler[w]
<1>1. h \in Handlers /\ WorkerOK(h) /\ h.pc = "writing"
  BY DEF TypeInv, TypeOK, At
<1>2. h.req \in Requests
  BY <1>1 DEF WorkerOK
<1>3. Snapshot(w) \in Replies
  <2>1. PlainReply("ended") \in Replies
    BY PlainReplyTyped
  <2>2. h.row.completed_turns \in 0..MAX_TURNS
    BY <1>1 DEF Handlers, Sessions
  <2>3. IsCardAvailable(h.row, h.card) \in BOOLEAN
    BY DEF IsCardAvailable
  <2>4. QED
    BY <2>1, <2>2, <2>3 DEF Snapshot, Replies
<1>4. ASSUME Kind[h.req] # "end" PROVE NewEntry(w) \in Entries
  <2>1. h.row.completed_turns \in Turns /\ h.confirmed \in Seq(ConfirmedEvents)
    BY <1>1, <1>4 DEF WorkerOK, Handlers
  <2>2. QED
    BY <1>2, <2>1 DEF NewEntry, Entries
<1>5. QED
  BY <1>3, <1>4

LEMMA TypeInit == Init => TypeInv
<1> SUFFICES ASSUME Init PROVE TypeInv
  OBVIOUS
<1>1. PICK played \in StartTurns :
        /\ session = NewSession(played)
        /\ transcript = [t \in 1..played |-> PlayedEntry(t)]
  BY DEF Init
<1>2. played \in 0..(MAX_TURNS - 1)
  BY <1>1, StartTurnsAssumption
<1>3. session \in Sessions
  BY <1>1, <1>2, NewSessionTyped
<1>4. card \in Cards
  BY DEF Init, BlankCard, Cards, MAX_TURNS
<1>5. transcript \in Seq(Entries)
  <2>1. ASSUME NEW t \in 1..played PROVE PlayedEntry(t) \in Entries
    <3>1. t \in Turns
      BY <1>2 DEF Turns, MAX_TURNS
    <3>2. [type |-> "personal_detail_shared", text |-> NoPlan] \in ConfirmedEvents
      BY DEF ConfirmedEvents, EventTypes, APPLIERS
    <3>3. PlayedEntry(t).confirmed \in Seq(ConfirmedEvents)
      BY <3>2 DEF PlayedEntry
    <3>4. QED
      BY <3>1, <3>3 DEF PlayedEntry, Entries
  <2>2. played \in Nat
    BY <1>2 DEF MAX_TURNS
  <2>3. QED
    BY <1>1, <2>1, <2>2
<1>6. log \in [Requests -> Replies]
  BY PlainReplyTyped DEF Init, NoReply
<1>7. scheduled \subseteq Requests
  BY DEF Init
<1>8. handler \in [Workers -> Handlers] /\ \A w \in Workers : WorkerOK(handler[w])
  BY FreeTyped DEF Init
<1>9. QED
  BY <1>3, <1>4, <1>5, <1>6, <1>7, <1>8 DEF TypeInv, TypeOK

\* A step that leaves the rows alone and gives one worker a good record.
LEMMA QuietTyped ==
  ASSUME TypeInv, NEW w \in Workers, NEW h \in Handlers, WorkerOK(h),
         Becomes(w, h), UNCHANGED rows
  PROVE  TypeInv'
<1>1. /\ handler' \in [Workers -> Handlers]
      /\ \A v \in Workers : WorkerOK(handler'[v])
  BY BecomesTyped
<1>2. QED
  BY <1>1 DEF TypeInv, TypeOK, rows, WorkerOK

\* The steps that only prepare an answer.
LEMMA AnswerTyped ==
  ASSUME TypeInv, NEW w \in Workers, handler[w].pc # "free", NEW answer \in Replies,
         Becomes(w, Replied(w, answer)), UNCHANGED rows
  PROVE  TypeInv'
<1>1. handler[w].req \in Requests
  BY DEF TypeInv, WorkerOK
<1>2. QED
  BY <1>1, RepliedTyped, QuietTyped

LEMMA ReceiveTyped ==
  ASSUME TypeInv, NEW w \in Workers, NEW r \in Requests, Receive(w, r)
  PROVE  TypeInv'
<1>1. [Free EXCEPT !.pc = "arrived", !.req = r] \in Handlers
  BY FreeTyped DEF Handlers
<1>2. WorkerOK([Free EXCEPT !.pc = "arrived", !.req = r])
  BY <1>1 DEF WorkerOK, Handlers
<1>3. QED
  BY <1>1, <1>2, QuietTyped DEF Receive

LEMMA LoadSessionTyped ==
  ASSUME TypeInv, NEW w \in Workers, LoadSession(w)
  PROVE  TypeInv'
<1> DEFINE h == [handler[w] EXCEPT !.pc = "loaded", !.loaded = session, !.row = session]
<1>1. handler[w] \in Handlers /\ WorkerOK(handler[w]) /\ handler[w].pc = "arrived"
  BY DEF TypeInv, TypeOK, LoadSession, At
<1>2. h \in Handlers
  BY <1>1 DEF TypeInv, TypeOK, Handlers
<1>3. WorkerOK(h)
  BY <1>1 DEF WorkerOK, Handlers
<1>4. QED
  BY <1>2, <1>3, QuietTyped DEF LoadSession

LEMMA MissTyped ==
  ASSUME TypeInv, NEW w \in Workers, Miss(w)
  PROVE  TypeInv'
<1> DEFINE h == [handler[w] EXCEPT !.pc = "unanswered"]
<1>1. handler[w] \in Handlers /\ WorkerOK(handler[w]) /\ handler[w].pc = "loaded"
  BY DEF TypeInv, TypeOK, Miss, At
<1>2. h \in Handlers /\ WorkerOK(h)
  BY <1>1 DEF Handlers, WorkerOK
<1>3. QED
  BY <1>2, QuietTyped DEF Miss

LEMMA StartTurnTyped ==
  ASSUME TypeInv, NEW w \in Workers, StartTurn(w)
  PROVE  TypeInv'
<1> DEFINE r == handler[w].req
           turn == NextTurn(handler[w])
           decided == IF Kind[r] \in CardKinds THEN DecidedCard(card, r, turn) ELSE card
           h == [handler[w] EXCEPT !.pc = "llm", !.loadedCard = card, !.card = decided]
<1>1. /\ handler[w] \in Handlers
      /\ WorkerOK(handler[w])
      /\ handler[w].pc = "unanswered"
      /\ card \in Cards
  BY DEF TypeInv, TypeOK, StartTurn, At
<1>2. r \in Requests /\ Kind[r] # "end" /\ handler[w].loaded.completed_turns < MAX_TURNS
  BY <1>1 DEF StartTurn, Admitted, WorkerOK
<1>3. turn \in 0..MAX_TURNS
  BY <1>1, <1>2, NextTurnTyped DEF Turns, MAX_TURNS
<1>4. decided \in Cards
  BY <1>1, <1>2, <1>3 DEF DecidedCard, Cards
<1>5. h \in Handlers
  BY <1>1, <1>4 DEF Handlers
<1>6. WorkerOK(h)
  BY <1>1, <1>2 DEF WorkerOK, Handlers
<1>7. QED
  BY <1>5, <1>6, QuietTyped DEF StartTurn

LEMMA GenerateTyped ==
  ASSUME TypeInv, NEW w \in Workers, Generate(w)
  PROVE  TypeInv'
<1>1. /\ handler[w] \in Handlers
      /\ WorkerOK(handler[w])
      /\ handler[w].pc = "llm"
  BY DEF TypeInv, TypeOK, Generate, At
<1>2. PICK proposed \in Proposals :
        Becomes(w, [handler[w] EXCEPT !.pc = "confirming", !.proposed = proposed])
  BY DEF Generate
<1> DEFINE h == [handler[w] EXCEPT !.pc = "confirming", !.proposed = proposed]
<1>3. h \in Handlers
  BY <1>1, ProposalsAssumption DEF Handlers
<1>4. WorkerOK(h)
  BY <1>1 DEF WorkerOK, Handlers
<1>5. QED
  BY <1>2, <1>3, <1>4, QuietTyped DEF Generate

LEMMA ConfirmNextTyped ==
  ASSUME TypeInv, NEW w \in Workers, ConfirmNext(w)
  PROVE  TypeInv'
<1> DEFINE h == handler[w]
           e == Head(h.proposed)
           confirmed == [ h EXCEPT !.proposed = Tail(h.proposed),
                                   !.row.world = Applied(h.row.world, e),
                                   !.confirmed = Append(h.confirmed, e) ]
           dropped == [h EXCEPT !.proposed = Tail(h.proposed)]
<1>1. /\ h \in Handlers
      /\ WorkerOK(h)
      /\ h.pc = "confirming"
      /\ h.proposed \in Seq(ProposedEvents) \ {<< >>}
  BY DEF TypeInv, TypeOK, ConfirmNext, At, Handlers
<1>2. e \in ProposedEvents /\ Tail(h.proposed) \in Seq(ProposedEvents)
  BY <1>1
<1>3. CASE Admissible(h.row.world, h.row.scene_id, e)
  <2>1. h.row \in Sessions /\ h.row.world \in World /\ h.confirmed \in Seq(ConfirmedEvents)
    BY <1>1 DEF Handlers, Sessions
  <2>2. e \in ConfirmedEvents
    BY <1>2, <1>3, AdmissibleTyped
  <2>3. Applied(h.row.world, e) \in World
    BY <1>2, <2>1, AppliedTyped
  <2>4. [h.row EXCEPT !.world = Applied(h.row.world, e)] \in Sessions
    BY <2>1, <2>3 DEF Sessions
  <2>5. Append(h.confirmed, e) \in Seq(ConfirmedEvents)
    BY <2>1, <2>2
  <2>6. confirmed \in Handlers
    BY <1>1, <1>2, <2>4, <2>5 DEF Handlers
  <2>7. WorkerOK(confirmed)
    BY <1>1 DEF WorkerOK, Handlers
  <2>8. Becomes(w, confirmed) /\ UNCHANGED rows
    BY <1>3 DEF ConfirmNext
  <2>9. QED
    BY <2>6, <2>7, <2>8, QuietTyped
<1>4. CASE ~Admissible(h.row.world, h.row.scene_id, e)
  <2>1. dropped \in Handlers
    BY <1>1, <1>2 DEF Handlers
  <2>2. WorkerOK(dropped)
    BY <1>1 DEF WorkerOK, Handlers
  <2>3. Becomes(w, dropped) /\ UNCHANGED rows
    BY <1>4 DEF ConfirmNext
  <2>4. QED
    BY <2>1, <2>2, <2>3, QuietTyped
<1>5. QED
  BY <1>3, <1>4

\* A session object with an ending on it is well formed.
LEMMA EndedTyped ==
  ASSUME NEW s \in Sessions, NEW status \in {"completed", "ended_early"},
         NEW evidence \in SUBSET Evidence
  PROVE  Ended(s, status, evidence) \in Sessions
BY DEF Ended, Sessions

\* A session object after its turn is well formed.
LEMMA AdvancedTyped ==
  ASSUME NEW s \in Sessions, NEW turn \in Turns
  PROVE  Advanced(s, turn) \in Sessions
<1>1. SceneAfter(turn) \in Scenes /\ StoryTimeAfter(turn) \in Nat
  BY TableTyped
<1>2. turn \in 0..MAX_TURNS
  BY DEF Turns, MAX_TURNS
<1>3. QED
  BY <1>1, <1>2 DEF Advanced, Sessions

LEMMA FinishTurnTyped ==
  ASSUME TypeInv, NEW w \in Workers, FinishTurn(w)
  PROVE  TypeInv'
<1> DEFINE h == handler[w]
           turn == NextTurn(h)
           advanced == Advanced(h.row, turn)
           lock == [type |-> "door_locked", text |-> NoPlan]
           evidence == SelectEvidence(transcript, Quotable(w))
           ended == Ended([advanced EXCEPT !.door_locked = TRUE], "completed", evidence)
<1>1. h \in Handlers /\ WorkerOK(h) /\ h.pc = "confirming" /\ transcript \in Seq(Entries)
  BY DEF TypeInv, TypeOK, FinishTurn, At
<1>2. h.req \in Requests /\ Kind[h.req] # "end" /\ h.loaded.completed_turns < MAX_TURNS
  BY <1>1 DEF WorkerOK
<1>3. turn \in Turns
  BY <1>1, <1>2, NextTurnTyped
<1>4. h.row \in Sessions /\ h.confirmed \in Seq(ConfirmedEvents)
  BY <1>1 DEF Handlers
<1>5. advanced \in Sessions /\ advanced.completed_turns = turn
  BY <1>3, <1>4, AdvancedTyped DEF Advanced, Sessions
<1>6. CASE turn < MAX_TURNS
  <2>1. [h EXCEPT !.pc = "writing", !.row = advanced] \in Handlers
    BY <1>1, <1>5 DEF Handlers
  <2>2. WorkerOK([h EXCEPT !.pc = "writing", !.row = advanced])
    BY <1>1, <1>2, <1>3, <1>5 DEF WorkerOK, Handlers
  <2>3. Becomes(w, [h EXCEPT !.pc = "writing", !.row = advanced]) /\ UNCHANGED rows
    <3>1. turn # MAX_TURNS
      BY <1>3, <1>6 DEF Turns, MAX_TURNS
    <3>2. QED
      BY <3>1, Zenon DEF FinishTurn
  <2>4. QED
    BY <2>1, <2>2, <2>3, QuietTyped
<1>7. CASE turn = MAX_TURNS
  <2> DEFINE g == [ h EXCEPT !.pc = "writing",
                             !.row = ended,
                             !.confirmed = Append(h.confirmed, lock) ]
  <2>1. Quotable(w) \subseteq Turns
    BY <1>1, <1>3, SaidTyped DEF Quotable
  <2>2. evidence \subseteq Evidence
    BY <1>1, <2>1, EvidenceTyped
  <2>3. [advanced EXCEPT !.door_locked = TRUE] \in Sessions
    BY <1>5 DEF Sessions
  <2>4. ended \in Sessions
    BY <2>2, <2>3, EndedTyped
  <2>5. ended.completed_turns = turn
    BY <1>5 DEF Ended, Sessions
  <2>6. Append(h.confirmed, lock) \in Seq(ConfirmedEvents)
    BY <1>4 DEF ConfirmedEvents, EventTypes
  <2>7. g \in Handlers
    BY <1>1, <2>4, <2>6 DEF Handlers
  <2>8. WorkerOK(g)
    BY <1>1, <1>2, <1>3, <2>5 DEF WorkerOK, Handlers
  <2>9. Becomes(w, g) /\ UNCHANGED rows
    <3>1. ~(turn < MAX_TURNS)
      BY <1>3, <1>7 DEF Turns, MAX_TURNS
    <3>2. QED
      BY <3>1, Zenon DEF FinishTurn
  <2>10. QED
    BY <2>7, <2>8, <2>9, QuietTyped
<1>8. QED
  BY <1>6, <1>7 DEF FinishTurn

LEMMA StartEndTyped ==
  ASSUME TypeInv, NEW w \in Workers, StartEnd(w)
  PROVE  TypeInv'
<1> DEFINE evidence == SelectEvidence(transcript, Said(transcript))
           ended == Ended(handler[w].row, "ended_early", evidence)
           h == [handler[w] EXCEPT !.pc = "writing", !.row = ended]
<1>1. /\ handler[w] \in Handlers
      /\ WorkerOK(handler[w])
      /\ handler[w].pc = "unanswered"
      /\ transcript \in Seq(Entries)
      /\ Kind[handler[w].req] = "end"
  BY DEF TypeInv, TypeOK, StartEnd, At
<1>2. evidence \subseteq Evidence
  BY <1>1, SaidTyped, EvidenceTyped
<1>3. ended \in Sessions
  BY <1>1, <1>2, EndedTyped DEF Handlers
<1>4. h \in Handlers
  BY <1>1, <1>3 DEF Handlers
<1>5. WorkerOK(h)
  BY <1>1 DEF WorkerOK, Handlers
<1>6. QED
  BY <1>4, <1>5, QuietTyped DEF StartEnd

LEMMA CommitTyped ==
  ASSUME TypeInv, NEW w \in Workers, Commit(w)
  PROVE  TypeInv'
<1> DEFINE h == handler[w]
<1>1. h \in Handlers /\ WorkerOK(h) /\ At(w, "writing") /\ h.req \in Requests
  BY DEF TypeInv, TypeOK, Commit, At, WorkerOK
<1>2. /\ session \in Sessions
      /\ card \in Cards
      /\ transcript \in Seq(Entries)
      /\ log \in [Requests -> Replies]
      /\ scheduled \subseteq Requests
  BY DEF TypeInv, TypeOK
<1>3. Snapshot(w) \in Replies /\ (Kind[h.req] # "end" => NewEntry(w) \in Entries)
  BY <1>1, WrittenTyped
<1>4. session' \in Sessions
  BY <1>1, <1>2, UpdatedSessionTyped DEF Commit, Handlers
<1>5. card' \in Cards
  BY <1>1, <1>2, UpdatedCardTyped DEF Commit, Handlers
<1>6. transcript' \in Seq(Entries)
  BY <1>2, <1>3 DEF Commit
<1>7. log' \in [Requests -> Replies]
  BY <1>2, <1>3 DEF Commit
<1>8. scheduled' \subseteq Requests
  BY <1>1, <1>2 DEF Commit
<1>9. /\ handler' \in [Workers -> Handlers]
      /\ \A v \in Workers : WorkerOK(handler'[v])
  BY <1>1, <1>3, RepliedTyped, BecomesTyped DEF Commit
<1>10. QED
  BY <1>4, <1>5, <1>6, <1>7, <1>8, <1>9 DEF TypeInv, TypeOK, WorkerOK

\* Every step keeps the type invariant.
LEMMA TypeStep == TypeInv /\ [Next]_vars => TypeInv'
<1> SUFFICES ASSUME TypeInv, [Next]_vars PROVE TypeInv'
  OBVIOUS
<1>1. ASSUME NEW w \in Workers, NEW r \in Requests, Receive(w, r) PROVE TypeInv'
  BY <1>1, ReceiveTyped
<1>2. ASSUME NEW w \in Workers, LoadSession(w) PROVE TypeInv'
  BY <1>2, LoadSessionTyped
<1>3. ASSUME NEW w \in Workers, Answer(w) PROVE TypeInv'
  <2>1. handler[w].pc # "free" /\ handler[w].req \in Requests
    BY <1>3 DEF Answer, At, TypeInv, WorkerOK
  <2>2. log[handler[w].req] \in Replies
    BY <2>1 DEF TypeInv, TypeOK
  <2>3. QED
    BY <1>3, <2>1, <2>2, AnswerTyped DEF Answer
<1>4. ASSUME NEW w \in Workers, Miss(w) PROVE TypeInv'
  BY <1>4, MissTyped
<1>5. ASSUME NEW w \in Workers, Refuse(w) PROVE TypeInv'
  BY <1>5, PlainReplyTyped, AnswerTyped DEF Refuse, At
<1>6. ASSUME NEW w \in Workers, StartTurn(w) PROVE TypeInv'
  BY <1>6, StartTurnTyped
<1>7. ASSUME NEW w \in Workers, Generate(w) PROVE TypeInv'
  BY <1>7, GenerateTyped
<1>8. ASSUME NEW w \in Workers, ConfirmNext(w) PROVE TypeInv'
  BY <1>8, ConfirmNextTyped
<1>9. ASSUME NEW w \in Workers, FinishTurn(w) PROVE TypeInv'
  BY <1>9, FinishTurnTyped
<1>10. ASSUME NEW w \in Workers, StartEnd(w) PROVE TypeInv'
  BY <1>10, StartEndTyped
<1>11. ASSUME NEW w \in Workers, Commit(w) PROVE TypeInv'
  BY <1>11, CommitTyped
<1>12. ASSUME NEW w \in Workers, Conflict(w) PROVE TypeInv'
  BY <1>12, PlainReplyTyped, AnswerTyped DEF Conflict, At, Rejected
<1>13. ASSUME NEW w \in Workers, Fail(w) PROVE TypeInv'
  BY <1>13, PlainReplyTyped, AnswerTyped DEF Fail, At, Rejected
<1>14. ASSUME NEW w \in Workers, Release(w) PROVE TypeInv'
  BY <1>14, FreeTyped, QuietTyped DEF Release
<1>15. ASSUME Crash PROVE TypeInv'
  BY <1>15, FreeTyped DEF Crash, rows, TypeInv, TypeOK, WorkerOK
<1>16. ASSUME UNCHANGED vars PROVE TypeInv'
  BY <1>16 DEF vars, TypeInv, TypeOK, WorkerOK
<1>17. QED
  BY <1>1, <1>2, <1>3, <1>4, <1>5, <1>6, <1>7, <1>8, <1>9, <1>10, <1>11, <1>12, <1>13,
     <1>14, <1>15, <1>16 DEF Next, Handle

LEMMA TypeInvariant == Spec => []TypeInv
BY TypeInit, TypeStep, PTL DEF Spec

\* The rows, the stored answers and the workers are always well formed, in every
\* interleaving of any number of handlers: no turn leaves the table of twelve.
THEOREM TypeCorrect == Spec => []TypeOK
<1>1. TypeInv => TypeOK
  BY DEF TypeInv
<1>2. QED
  BY <1>1, TypeInvariant, PTL
-----------------------------------------------------------------------------
(* Answers and turns of a request *)

\* The rows change when a transaction commits, and at no other step.
LEMMA OnlyCommit ==
  ASSUME [Next]_vars
  PROVE  UNCHANGED rows \/ \E w \in Workers : Commit(w)
BY DEF Next, Handle, vars, rows, Receive, LoadSession, Answer, Miss, Refuse, StartTurn,
       Generate, ConfirmNext, FinishTurn, StartEnd, Conflict, Fail, Release, Crash

\* A commit stores an answer where there was none, and leaves the others.
LEMMA CommitStores ==
  ASSUME TypeInv, NEW w \in Workers, Commit(w)
  PROVE  /\ handler[w] \in Handlers
         /\ handler[w].req \in Requests
         /\ log[handler[w].req].kind = "none"
         /\ log'[handler[w].req] = Snapshot(w)
         /\ \A r \in Requests \ {handler[w].req} : log'[r] = log[r]
<1>1. handler[w] \in Handlers /\ handler[w].req \in Requests /\ log \in [Requests -> Replies]
  BY DEF Commit, At, TypeInv, TypeOK, WorkerOK
<1>2. QED
  BY <1>1 DEF Commit, Storable, Unanswered

LEMMA OnceInit == Init => OncePerRequest
<1> SUFFICES ASSUME Init PROVE OncePerRequest
  OBVIOUS
<1>1. \A i \in DOMAIN transcript : transcript[i].req = NoRequest
  BY DEF Init, PlayedEntry
<1>2. QED
  BY <1>1 DEF OncePerRequest

LEMMA OnceStep == TypeInv /\ OncePerRequest /\ [Next]_vars => OncePerRequest'
<1> SUFFICES ASSUME TypeInv, OncePerRequest, [Next]_vars PROVE OncePerRequest'
  OBVIOUS
<1>1. CASE UNCHANGED rows
  BY <1>1 DEF rows, OncePerRequest
<1>2. ASSUME NEW w \in Workers, Commit(w) PROVE OncePerRequest'
  <2> DEFINE h == handler[w]
  <2>1. /\ h \in Handlers
        /\ h.req \in Requests
        /\ log[h.req].kind = "none"
        /\ log'[h.req] = Snapshot(w)
        /\ \A r \in Requests \ {h.req} : log'[r] = log[r]
    BY <1>2, CommitStores
  <2>2. transcript \in Seq(Entries)
    BY DEF TypeInv, TypeOK
  <2>3. \A i \in DOMAIN transcript : transcript[i].req \in Requests \cup {NoRequest}
    <3>1. \A i \in DOMAIN transcript : transcript[i] \in Entries
      BY <2>2
    <3>2. QED
      BY <3>1 DEF Entries
  <2>4. \A i \in DOMAIN transcript : transcript[i].req # h.req
    BY <2>1, RequestsAssumption DEF OncePerRequest
  <2>5. \A i \in DOMAIN transcript :
          transcript[i].req # NoRequest => log'[transcript[i].req] = log[transcript[i].req]
    BY <2>1, <2>3, <2>4
  <2>6. CASE Kind[h.req] = "end"
    <3>1. transcript' = transcript
      BY <1>2, <2>6 DEF Commit
    <3>2. QED
      BY <2>5, <3>1 DEF OncePerRequest
  <2>7. CASE Kind[h.req] # "end"
    <3> DEFINE e == NewEntry(w)
    <3>1. transcript' = Append(transcript, e)
      BY <1>2, <2>7 DEF Commit
    <3>2. e.req = h.req /\ e.turn = h.row.completed_turns
      BY DEF NewEntry
    <3>3. log'[h.req].kind = "turn" /\ log'[h.req].completed_turns = e.turn
      BY <2>1, <2>7, <3>2 DEF Snapshot
    <3> HIDE DEF e
    <3>4. /\ DOMAIN transcript' = 1..(Len(transcript) + 1)
          /\ DOMAIN transcript = 1..Len(transcript)
          /\ Len(transcript) \in Nat
          /\ \A i \in DOMAIN transcript : transcript'[i] = transcript[i]
          /\ transcript'[Len(transcript) + 1] = e
      BY <2>2, <3>1
    <3>5. \A i \in DOMAIN transcript' : i \in DOMAIN transcript \/ i = Len(transcript) + 1
      BY <3>4
    <3>6. \A i, j \in DOMAIN transcript' :
            transcript'[i].req = transcript'[j].req /\ transcript'[i].req # NoRequest => i = j
      BY <2>4, <3>2, <3>4, <3>5 DEF OncePerRequest
    <3>7. \A i \in DOMAIN transcript' :
            transcript'[i].req # NoRequest =>
              /\ log'[transcript'[i].req].kind = "turn"
              /\ log'[transcript'[i].req].completed_turns = transcript'[i].turn
      BY <2>5, <3>2, <3>3, <3>4, <3>5 DEF OncePerRequest
    <3>8. QED
      BY <3>6, <3>7 DEF OncePerRequest
  <2>8. QED
    BY <2>6, <2>7
<1>3. QED
  BY <1>1, <1>2, OnlyCommit

\* A request consumes one turn at most, and its stored answer is the one of that
\* turn, however often it is sent and however many workers run it at once.
THEOREM OncePerRequestHolds == Spec => []OncePerRequest
BY TypeInvariant, OnceInit, OnceStep, PTL DEF Spec

\* What a step does to the record of a worker that has an answer to send.
LEMMA AnnouncedStep ==
  TypeInv /\ AnnouncedIsStored /\ [Next]_vars => AnnouncedIsStored'
<1> SUFFICES ASSUME TypeInv, AnnouncedIsStored, [Next]_vars PROVE AnnouncedIsStored'
  OBVIOUS
<1> DEFINE Told(h, stored) == h.reply.kind \in {"turn", "ended"} => stored[h.req] = h.reply
<1>1. handler \in [Workers -> Handlers]
  BY DEF TypeInv, TypeOK
<1>2. \A w \in Workers : Told(handler[w], log)
  BY DEF AnnouncedIsStored
<1>3. ASSUME NEW w \in Workers, NEW h, Becomes(w, h), Told(h, log), log' = log
      PROVE  AnnouncedIsStored'
  <2>1. \A v \in Workers : handler'[v] = IF v = w THEN h ELSE handler[v]
    BY <1>1, <1>3 DEF Becomes
  <2>2. QED
    BY <1>2, <1>3, <2>1 DEF AnnouncedIsStored
<1>4. ASSUME NEW w \in Workers, log' = log,
             handler'[w].reply = handler[w].reply,
             handler'[w].req = handler[w].req,
             \A v \in Workers \ {w} : handler'[v] = handler[v]
      PROVE  AnnouncedIsStored'
  BY <1>2, <1>4 DEF AnnouncedIsStored
<1>5. Told(Free, log)
  BY DEF Free, NoReply, PlainReply
<1>6. ASSUME NEW w \in Workers, NEW kind \in {"refused", "error"},
             Becomes(w, Replied(w, PlainReply(kind))), log' = log
      PROVE  AnnouncedIsStored'
  <2>1. Told(Replied(w, PlainReply(kind)), log)
    BY DEF Replied, Free, PlainReply
  <2>2. QED
    BY <1>3, <1>6, <2>1
<1> HIDE DEF Told
<1>7. ASSUME NEW w \in Workers, NEW r \in Requests, Receive(w, r) PROVE AnnouncedIsStored'
  <2>1. Told([Free EXCEPT !.pc = "arrived", !.req = r], log)
    BY DEF Told, Free, NoReply, PlainReply
  <2>2. QED
    BY <1>3, <1>7, <2>1 DEF Receive, rows
<1>8. ASSUME NEW w \in Workers, Answer(w) PROVE AnnouncedIsStored'
  <2>1. Told(Replied(w, log[handler[w].req]), log)
    BY DEF Told, Replied, Free
  <2>2. QED
    BY <1>3, <1>8, <2>1 DEF Answer, rows
<1>9. ASSUME NEW w \in Workers,
             LoadSession(w) \/ Miss(w) \/ StartTurn(w) \/ Generate(w) \/ ConfirmNext(w)
               \/ FinishTurn(w) \/ StartEnd(w)
      PROVE  AnnouncedIsStored'
  <2>1. handler[w] \in Handlers /\ log' = log
    BY <1>1, <1>9 DEF LoadSession, Miss, StartTurn, Generate, ConfirmNext, FinishTurn,
                      StartEnd, rows
  <2>2. /\ handler'[w].reply = handler[w].reply
        /\ handler'[w].req = handler[w].req
        /\ \A v \in Workers \ {w} : handler'[v] = handler[v]
    <3>1. CASE LoadSession(w)
      BY <1>1, <2>1, <3>1 DEF LoadSession, Becomes, Handlers
    <3>2. CASE Miss(w)
      BY <1>1, <2>1, <3>2 DEF Miss, Becomes, Handlers
    <3>3. CASE StartTurn(w)
      BY <1>1, <2>1, <3>3 DEF StartTurn, Becomes, Handlers
    <3>4. CASE Generate(w)
      BY <1>1, <2>1, <3>4 DEF Generate, Becomes, Handlers
    <3>5. CASE ConfirmNext(w)
      BY <1>1, <2>1, <3>5 DEF ConfirmNext, Becomes, Handlers
    <3>6. CASE FinishTurn(w)
      BY <1>1, <2>1, <3>6 DEF FinishTurn, Becomes, Handlers
    <3>7. CASE StartEnd(w)
      BY <1>1, <2>1, <3>7 DEF StartEnd, Becomes, Handlers
    <3>8. QED
      BY <1>9, <3>1, <3>2, <3>3, <3>4, <3>5, <3>6, <3>7
  <2>3. QED
    BY <1>4, <2>1, <2>2
<1>10. ASSUME NEW w \in Workers, Refuse(w) \/ Conflict(w) \/ Fail(w) PROVE AnnouncedIsStored'
  BY <1>6, <1>10 DEF Refuse, Conflict, Fail, Rejected, rows
<1>11. ASSUME NEW w \in Workers, Commit(w) PROVE AnnouncedIsStored'
  <2> DEFINE h == Replied(w, Snapshot(w))
  <2>1. /\ handler[w].req \in Requests
        /\ log[handler[w].req].kind = "none"
        /\ log'[handler[w].req] = Snapshot(w)
        /\ log \in [Requests -> Replies]
        /\ log' = [log EXCEPT ![handler[w].req] = Snapshot(w)]
    BY <1>11, CommitStores DEF TypeInv, TypeOK, Commit
  <2>2. \A v \in Workers : handler'[v] = IF v = w THEN h ELSE handler[v]
    BY <1>1, <1>11 DEF Commit, Becomes
  <2>3. Told(h, log')
    BY <2>1 DEF Told, Replied, Free
  <2>4. ASSUME NEW v \in Workers PROVE Told(handler[v], log')
    <3>1. CASE handler[v].req = handler[w].req
      BY <1>2, <2>1, <3>1 DEF Told
    <3>2. CASE handler[v].req # handler[w].req
      BY <1>2, <2>1, <3>2 DEF Told
    <3>3. QED
      BY <3>1, <3>2
  <2>5. QED
    BY <2>2, <2>3, <2>4 DEF AnnouncedIsStored, Told
<1>12. ASSUME NEW w \in Workers, Release(w) PROVE AnnouncedIsStored'
  BY <1>3, <1>5, <1>12 DEF Release, rows
<1>13. CASE Crash
  BY <1>13 DEF Crash, AnnouncedIsStored, Free, NoReply, PlainReply
<1>14. CASE UNCHANGED vars
  BY <1>14 DEF vars, AnnouncedIsStored
<1>15. QED
  BY <1>7, <1>8, <1>9, <1>10, <1>11, <1>12, <1>13, <1>14 DEF Next, Handle

\* A client hears of a turn or of the end only when its rows are committed.
THEOREM AnnouncedStaysStored == Spec => []AnnouncedIsStored
<1>1. Init => AnnouncedIsStored
  BY DEF Init, AnnouncedIsStored, Free, NoReply, PlainReply
<1>2. QED
  BY <1>1, TypeInvariant, AnnouncedStep, PTL DEF Spec
-----------------------------------------------------------------------------
(* The row a handler works on, beside the row it loaded *)

\* The story of this handler's row is as far from its end as the loaded one's.
SameEnd(h) ==
  /\ h.row.status = h.loaded.status
  /\ h.row.ending = h.loaded.ending
  /\ h.row.door_locked = h.loaded.door_locked

\* A handler changes the ends of the story on its row when it writes, and only
\* for an end request or the twelfth turn.
RowOK(h) ==
  /\ h.pc \in {"loaded", "unanswered"} => h.row = h.loaded
  /\ h.pc \in {"llm", "confirming"} => h.loaded.status = "in_progress" /\ SameEnd(h)
  /\ h.pc = "writing" => h.loaded.status = "in_progress"
  /\ h.pc = "writing" /\ Kind[h.req] = "end" =>
       /\ h.row.completed_turns = h.loaded.completed_turns
       /\ h.row.status = "ended_early"
       /\ h.row.ending.written
       /\ h.row.door_locked = h.loaded.door_locked
  /\ h.pc = "writing" /\ Kind[h.req] # "end" =>
       /\ h.row.completed_turns = NextTurn(h)
       /\ NextTurn(h) # MAX_TURNS => SameEnd(h)
       /\ NextTurn(h) = MAX_TURNS =>
            h.row.status = "completed" /\ h.row.ending.written /\ h.row.door_locked

RowInv == \A w \in Workers : RowOK(handler[w])

\* What every step does to the records of the workers.
LEMMA RowStep == TypeInv /\ RowInv /\ [Next]_vars => RowInv'
<1> SUFFICES ASSUME TypeInv, RowInv, [Next]_vars PROVE RowInv'
  OBVIOUS
<1>1. handler \in [Workers -> Handlers]
  BY DEF TypeInv, TypeOK
<1>2. ASSUME NEW w \in Workers, NEW h, Becomes(w, h), RowOK(h) PROVE RowInv'
  <2>1. \A v \in Workers : handler'[v] = IF v = w THEN h ELSE handler[v]
    BY <1>1, <1>2 DEF Becomes
  <2>2. QED
    BY <1>2, <2>1 DEF RowInv, RowOK
<1>3. ASSUME NEW w \in Workers, NEW answer, Becomes(w, Replied(w, answer)) PROVE RowInv'
  <2>1. RowOK(Replied(w, answer))
    BY DEF RowOK, Replied, Free
  <2>2. QED
    BY <1>2, <1>3, <2>1
<1>4. RowOK(Free)
  BY DEF RowOK, Free
<1>5. ASSUME NEW w \in Workers PROVE handler[w] \in Handlers /\ RowOK(handler[w])
                                      /\ WorkerOK(handler[w])
  BY <1>1 DEF RowInv, TypeInv
<1>6. ASSUME NEW w \in Workers, NEW r \in Requests, Receive(w, r) PROVE RowInv'
  <2>1. RowOK([Free EXCEPT !.pc = "arrived", !.req = r])
    BY DEF RowOK, Free
  <2>2. QED
    BY <1>2, <1>6, <2>1 DEF Receive
<1>7. ASSUME NEW w \in Workers, LoadSession(w) PROVE RowInv'
  <2>1. RowOK([handler[w] EXCEPT !.pc = "loaded", !.loaded = session, !.row = session])
    BY <1>5 DEF RowOK, Handlers
  <2>2. QED
    BY <1>2, <1>7, <2>1 DEF LoadSession
<1>8. ASSUME NEW w \in Workers, Miss(w) PROVE RowInv'
  <2>1. RowOK([handler[w] EXCEPT !.pc = "unanswered"])
    BY <1>5, <1>8 DEF RowOK, Handlers, Miss, At
  <2>2. QED
    BY <1>2, <1>8, <2>1 DEF Miss
<1>9. ASSUME NEW w \in Workers, StartTurn(w) PROVE RowInv'
  <2>1. ASSUME NEW c
        PROVE  RowOK([handler[w] EXCEPT !.pc = "llm", !.loadedCard = card, !.card = c])
    BY <1>5, <1>9 DEF RowOK, SameEnd, Handlers, StartTurn, Admitted, At
  <2>2. QED
    BY <1>2, <1>9, <2>1 DEF StartTurn
<1>10. ASSUME NEW w \in Workers, Generate(w) PROVE RowInv'
  <2>1. ASSUME NEW p PROVE RowOK([handler[w] EXCEPT !.pc = "confirming", !.proposed = p])
    BY <1>5, <1>10 DEF RowOK, SameEnd, Handlers, Generate, At
  <2>2. QED
    BY <1>2, <1>10, <2>1 DEF Generate
<1>11. ASSUME NEW w \in Workers, ConfirmNext(w) PROVE RowInv'
  <2>1. handler[w].pc = "confirming" /\ handler[w].row \in Sessions
    BY <1>5, <1>11 DEF ConfirmNext, At, Handlers
  <2>2. ASSUME NEW p, NEW facts, NEW c
        PROVE  /\ RowOK([ handler[w] EXCEPT !.proposed = p, !.row.world = facts,
                                            !.confirmed = c ])
               /\ RowOK([handler[w] EXCEPT !.proposed = p])
    BY <1>5, <2>1 DEF RowOK, SameEnd, Handlers, Sessions
  <2>3. QED
    BY <1>2, <1>11, <2>2 DEF ConfirmNext
<1>12. ASSUME NEW w \in Workers, FinishTurn(w) PROVE RowInv'
  <2> DEFINE h == handler[w]
             turn == NextTurn(h)
             advanced == Advanced(h.row, turn)
  <2>1. /\ h \in Handlers
        /\ h.pc = "confirming"
        /\ h.row \in Sessions
        /\ h.loaded.status = "in_progress"
        /\ SameEnd(h)
        /\ Kind[h.req] # "end"
    BY <1>5, <1>12 DEF FinishTurn, At, Handlers, RowOK, WorkerOK
  <2>2. turn \in Turns
    BY <1>5, <2>1, NextTurnTyped DEF WorkerOK
  <2>3. /\ advanced.completed_turns = turn
        /\ advanced.status = h.row.status
        /\ advanced.ending = h.row.ending
        /\ advanced.door_locked = h.row.door_locked
        /\ advanced \in Sessions
    BY <2>1, <2>2, AdvancedTyped DEF Advanced, Sessions
  <2>4. CASE turn < MAX_TURNS
    <3>1. turn # MAX_TURNS
      BY <2>2, <2>4 DEF Turns, MAX_TURNS
    <3>2. Becomes(w, [h EXCEPT !.pc = "writing", !.row = advanced])
      BY <1>12, <3>1, Zenon DEF FinishTurn
    <3>3. RowOK([h EXCEPT !.pc = "writing", !.row = advanced])
      BY <2>1, <2>3, <3>1 DEF RowOK, SameEnd, Handlers, NextTurn
    <3>4. QED
      BY <1>2, <3>2, <3>3
  <2>5. CASE turn = MAX_TURNS
    <3> DEFINE ended(evidence) ==
                 Ended([advanced EXCEPT !.door_locked = TRUE], "completed", evidence)
               g(evidence, c) ==
                 [h EXCEPT !.pc = "writing", !.row = ended(evidence), !.confirmed = c]
    <3>1. ~(turn < MAX_TURNS)
      BY <2>2, <2>5 DEF Turns, MAX_TURNS
    <3>2. PICK evidence, c : Becomes(w, g(evidence, c))
      BY <1>12, <3>1, Zenon DEF FinishTurn
    <3>3. /\ ended(evidence).completed_turns = turn
          /\ ended(evidence).status = "completed"
          /\ ended(evidence).ending.written
          /\ ended(evidence).door_locked
      BY <2>3 DEF Ended, Sessions
    <3>4. RowOK(g(evidence, c))
      BY <2>1, <2>5, <3>3 DEF RowOK, Handlers, NextTurn
    <3>5. QED
      BY <1>2, <3>2, <3>4
  <2>6. QED
    BY <1>12, <2>4, <2>5 DEF FinishTurn
<1>13. ASSUME NEW w \in Workers, StartEnd(w) PROVE RowInv'
  <2> DEFINE h == handler[w]
             ended == Ended(h.row, "ended_early", SelectEvidence(transcript, Said(transcript)))
  <2>1. /\ h \in Handlers
        /\ h.row = h.loaded
        /\ h.loaded \in Sessions
        /\ h.loaded.status = "in_progress"
        /\ Kind[h.req] = "end"
    BY <1>5, <1>13 DEF StartEnd, Admitted, At, Handlers, RowOK
  <2>2. /\ ended.completed_turns = h.loaded.completed_turns
        /\ ended.status = "ended_early"
        /\ ended.ending.written
        /\ ended.door_locked = h.loaded.door_locked
    BY <2>1 DEF Ended, Sessions
  <2>3. RowOK([h EXCEPT !.pc = "writing", !.row = ended])
    BY <2>1, <2>2 DEF RowOK, Handlers
  <2>4. QED
    BY <1>2, <1>13, <2>3 DEF StartEnd
<1>14. ASSUME NEW w \in Workers,
              Answer(w) \/ Refuse(w) \/ Commit(w) \/ Conflict(w) \/ Fail(w)
       PROVE  RowInv'
  BY <1>3, <1>14 DEF Answer, Refuse, Commit, Conflict, Fail
<1>15. ASSUME NEW w \in Workers, Release(w) PROVE RowInv'
  BY <1>2, <1>4, <1>15 DEF Release
<1>16. CASE Crash
  BY <1>4, <1>16 DEF Crash, RowInv
<1>17. CASE UNCHANGED vars
  BY <1>17 DEF vars, RowInv, RowOK
<1>18. QED
  BY <1>6, <1>7, <1>8, <1>9, <1>10, <1>11, <1>12, <1>13, <1>14, <1>15, <1>16, <1>17
     DEF Next, Handle

LEMMA RowInvariant == Spec => []RowInv
<1>1. Init => RowInv
  BY DEF Init, RowInv, RowOK, Free
<1>2. QED
  BY <1>1, RowStep, TypeInvariant, PTL DEF Spec

\* The row a handler loaded is the one it had, or a fresh reading of the session,
\* or, for a worker that becomes free, the filling of an idle record.
LEMMA LoadedFrom ==
  ASSUME TypeInv, [Next]_vars, NEW v \in Workers
  PROVE  handler'[v].loaded \in {handler[v].loaded, session, NewSession(0)}
<1> DEFINE Fresh(h) == h.loaded \in {handler[v].loaded, session, NewSession(0)}
<1>1. handler \in [Workers -> Handlers]
  BY DEF TypeInv, TypeOK
<1>2. ASSUME NEW w \in Workers, NEW h, Becomes(w, h), w = v => Fresh(h) PROVE Fresh(handler'[v])
  BY <1>1, <1>2 DEF Becomes
<1>3. Fresh(Free)
  BY DEF Free
<1>4. ASSUME NEW w \in Workers, NEW answer, Becomes(w, Replied(w, answer))
      PROVE  Fresh(handler'[v])
  BY <1>2, <1>4 DEF Replied, Free
<1>5. ASSUME NEW w \in Workers, NEW r \in Requests, Receive(w, r) PROVE Fresh(handler'[v])
  <2>1. Fresh([Free EXCEPT !.pc = "arrived", !.req = r])
    BY DEF Free
  <2>2. QED
    BY <1>2, <1>5, <2>1 DEF Receive
<1>6. ASSUME NEW w \in Workers, LoadSession(w) PROVE Fresh(handler'[v])
  <2>1. handler[w] \in Handlers
    BY <1>1
  <2>2. [handler[w] EXCEPT !.pc = "loaded", !.loaded = session, !.row = session].loaded = session
    BY <2>1 DEF Handlers
  <2>3. QED
    BY <1>2, <1>6, <2>2 DEF LoadSession
<1>7. ASSUME NEW w \in Workers,
             Miss(w) \/ StartTurn(w) \/ Generate(w) \/ ConfirmNext(w) \/ FinishTurn(w)
               \/ StartEnd(w)
      PROVE  Fresh(handler'[v])
  <2>1. handler[w] \in Handlers
    BY <1>1
  <2>2. handler'[w].loaded = handler[w].loaded
    <3>1. CASE Miss(w)
      BY <1>1, <2>1, <3>1 DEF Miss, Becomes, Handlers
    <3>2. CASE StartTurn(w)
      BY <1>1, <2>1, <3>2 DEF StartTurn, Becomes, Handlers
    <3>3. CASE Generate(w)
      BY <1>1, <2>1, <3>3 DEF Generate, Becomes, Handlers
    <3>4. CASE ConfirmNext(w)
      BY <1>1, <2>1, <3>4 DEF ConfirmNext, Becomes, Handlers
    <3>5. CASE FinishTurn(w)
      BY <1>1, <2>1, <3>5 DEF FinishTurn, Becomes, Handlers
    <3>6. CASE StartEnd(w)
      BY <1>1, <2>1, <3>6 DEF StartEnd, Becomes, Handlers
    <3>7. QED
      BY <1>7, <3>1, <3>2, <3>3, <3>4, <3>5, <3>6
  <2>3. w # v => handler'[v] = handler[v]
    BY <1>1, <1>7 DEF Miss, StartTurn, Generate, ConfirmNext, FinishTurn, StartEnd, Becomes
  <2>4. QED
    BY <2>2, <2>3
<1>8. ASSUME NEW w \in Workers,
             Answer(w) \/ Refuse(w) \/ Commit(w) \/ Conflict(w) \/ Fail(w)
      PROVE  Fresh(handler'[v])
  BY <1>4, <1>8 DEF Answer, Refuse, Commit, Conflict, Fail
<1>9. ASSUME NEW w \in Workers, Release(w) PROVE Fresh(handler'[v])
  BY <1>2, <1>3, <1>9 DEF Release
<1>10. CASE Crash
  BY <1>3, <1>10 DEF Crash
<1>11. CASE UNCHANGED vars
  BY <1>11 DEF vars
<1>12. QED
  BY <1>5, <1>6, <1>7, <1>8, <1>9, <1>10, <1>11 DEF Next, Handle

\* The transcript after a commit: an end request adds nothing, any other request
\* its entry.
LEMMA CommitAppends ==
  ASSUME TypeInv, NEW w \in Workers, Commit(w)
  PROVE  /\ transcript \in Seq(Entries)
         /\ Kind[handler[w].req] = "end" => transcript' = transcript
         /\ Kind[handler[w].req] # "end" =>
              /\ DOMAIN transcript' = DOMAIN transcript \cup {Len(transcript) + 1}
              /\ \A i \in DOMAIN transcript : transcript'[i] = transcript[i] /\ i < Len(transcript) + 1
              /\ transcript'[Len(transcript) + 1] = NewEntry(w)
<1>1. transcript \in Seq(Entries)
  BY DEF TypeInv, TypeOK
<1>2. Kind[handler[w].req] = "end" => transcript' = transcript
  BY DEF Commit
<1>3. ASSUME Kind[handler[w].req] # "end"
      PROVE  /\ DOMAIN transcript' = DOMAIN transcript \cup {Len(transcript) + 1}
             /\ \A i \in DOMAIN transcript :
                  transcript'[i] = transcript[i] /\ i < Len(transcript) + 1
             /\ transcript'[Len(transcript) + 1] = NewEntry(w)
  <2> DEFINE e == NewEntry(w)
  <2>1. transcript' = Append(transcript, e)
    BY <1>3 DEF Commit
  <2> HIDE DEF e
  <2>2. QED
    BY <1>1, <2>1 DEF e
<1>4. QED
  BY <1>1, <1>2, <1>3
-----------------------------------------------------------------------------
(* The numbers of the turns *)

\* Turn n is in the transcript (nothing needs to be for n = 0).
Reached(n) == n = 0 \/ \E j \in DOMAIN transcript : transcript[j].turn = n

\* The count of the session, and every count a handler loaded, is a turn that is
\* in the transcript: the turn a handler is about to add has a predecessor there.
SkipInv ==
  /\ NoTurnSkipped
  /\ Reached(session.completed_turns)
  /\ \A w \in Workers : Reached(handler[w].loaded.completed_turns)

LEMMA SkipInit == Init => SkipInv
<1> SUFFICES ASSUME Init PROVE SkipInv
  OBVIOUS
<1>1. PICK played \in StartTurns :
        /\ session = NewSession(played)
        /\ transcript = [t \in 1..played |-> PlayedEntry(t)]
  BY DEF Init
<1>2. played \in 0..(MAX_TURNS - 1)
  BY <1>1, StartTurnsAssumption
<1>3. DOMAIN transcript = 1..played /\ \A t \in 1..played : transcript[t].turn = t
  BY <1>1 DEF PlayedEntry
<1>4. Reached(session.completed_turns)
  <2>1. session.completed_turns = played
    BY <1>1 DEF NewSession
  <2>2. played # 0 => played \in 1..played
    BY <1>2 DEF MAX_TURNS
  <2>3. QED
    BY <1>3, <2>1, <2>2 DEF Reached
<1>5. NoTurnSkipped
  <2> SUFFICES ASSUME NEW t \in 1..played, t > 1
               PROVE  \E j \in 1..played : j < t /\ transcript[j].turn + 1 = t
    BY <1>3 DEF NoTurnSkipped
  <2>1. t - 1 \in 1..played /\ t - 1 < t /\ (t - 1) + 1 = t
    BY <1>2 DEF MAX_TURNS
  <2>2. transcript[t - 1].turn = t - 1
    BY <1>3, <2>1
  <2>3. QED
    BY <2>1, <2>2
<1>6. \A w \in Workers : Reached(handler[w].loaded.completed_turns)
  BY DEF Init, Free, NewSession, Reached
<1>7. QED
  BY <1>4, <1>5, <1>6 DEF SkipInv

LEMMA SkipStep == TypeInv /\ RowInv /\ SkipInv /\ [Next]_vars => SkipInv'
<1> SUFFICES ASSUME TypeInv, RowInv, SkipInv, [Next]_vars PROVE SkipInv'
  OBVIOUS
<1>1. ASSUME NEW n, Reached(n) PROVE Reached(n)'
  <2>1. CASE UNCHANGED rows
    BY <1>1, <2>1 DEF rows, Reached
  <2>2. ASSUME NEW w \in Workers, Commit(w) PROVE Reached(n)'
    BY <1>1, <2>2, CommitAppends DEF Reached
  <2>3. QED
    BY <2>1, <2>2, OnlyCommit
<1>2. \A w \in Workers : Reached(handler[w].loaded.completed_turns)'
  <2> SUFFICES ASSUME NEW w \in Workers
               PROVE  Reached(handler[w].loaded.completed_turns)'
    OBVIOUS
  <2>1. handler'[w].loaded \in {handler[w].loaded, session, NewSession(0)}
    BY LoadedFrom
  <2>2. Reached(NewSession(0).completed_turns)
    BY DEF Reached, NewSession
  <2>3. Reached(handler'[w].loaded.completed_turns)
    BY <2>1, <2>2 DEF SkipInv
  <2> DEFINE n == handler'[w].loaded.completed_turns
  <2>4. n = 0 \/ \E j \in DOMAIN transcript' : transcript'[j].turn = n
    BY <1>1, <2>3 DEF Reached
  <2>5. QED
    BY <2>4 DEF Reached
<1>3. CASE UNCHANGED rows
  BY <1>2, <1>3 DEF rows, SkipInv, NoTurnSkipped, Reached
<1>4. ASSUME NEW w \in Workers, Commit(w) PROVE SkipInv'
  <2> DEFINE h == handler[w]
             last == Len(transcript) + 1
  <2>1. h \in Handlers /\ h.loaded \in Sessions /\ h.pc = "writing"
    BY <1>4, CommitStores DEF Handlers, Commit, At
  <2>2. h.loaded.completed_turns \in Nat
    BY <2>1 DEF Sessions, MAX_TURNS
  <2>3. Reached(h.loaded.completed_turns)
    BY DEF SkipInv
  <2>4. session'.completed_turns \in {session.completed_turns, h.row.completed_turns}
    BY <1>4 DEF Commit, UpdatedSession, Column
  <2>5. CASE Kind[h.req] = "end"
    <3>1. transcript' = transcript
      BY <1>4, <2>5 DEF Commit
    <3>2. h.row.completed_turns = h.loaded.completed_turns
      BY <2>1, <2>5 DEF RowInv, RowOK
    <3>3. Reached(session'.completed_turns)
      BY <2>3, <2>4, <3>2 DEF SkipInv
    <3>4. QED
      BY <1>2, <3>1, <3>3 DEF SkipInv, NoTurnSkipped, Reached
  <2>6. CASE Kind[h.req] # "end"
    <3>1. h.row.completed_turns = h.loaded.completed_turns + 1
      BY <2>1, <2>6 DEF RowInv, RowOK, NextTurn
    <3>2. /\ DOMAIN transcript' = DOMAIN transcript \cup {last}
          /\ \A i \in DOMAIN transcript : transcript'[i] = transcript[i] /\ i < last
          /\ transcript'[last].turn = h.row.completed_turns
      <4>1. NewEntry(w).turn = h.row.completed_turns
        BY DEF NewEntry
      <4>2. QED
        BY <1>4, <2>6, <4>1, CommitAppends
    <3> HIDE DEF last
    <3>3. Reached(session.completed_turns)'
      <4>1. CASE session'.completed_turns = h.row.completed_turns
        BY <3>2, <4>1 DEF Reached
      <4>2. CASE session'.completed_turns = session.completed_turns
        <5>1. Reached(session.completed_turns)
          BY DEF SkipInv
        <5>2. QED
          BY <3>2, <4>2, <5>1 DEF Reached
      <4>3. QED
        BY <2>4, <4>1, <4>2
    <3>4. NoTurnSkipped'
      <4> SUFFICES ASSUME NEW i \in DOMAIN transcript', transcript'[i].turn > 1
                   PROVE  \E j \in DOMAIN transcript' :
                            j < i /\ transcript'[j].turn + 1 = transcript'[i].turn
        BY DEF NoTurnSkipped
      <4>1. CASE i \in DOMAIN transcript
        BY <3>2, <4>1 DEF SkipInv, NoTurnSkipped
      <4>2. CASE i = last
        <5>1. h.loaded.completed_turns # 0
          BY <2>2, <3>1, <3>2, <4>2
        <5>2. PICK j \in DOMAIN transcript : transcript[j].turn = h.loaded.completed_turns
          BY <2>3, <5>1 DEF Reached
        <5>3. QED
          BY <3>1, <3>2, <4>2, <5>2
      <4>3. QED
        BY <3>2, <4>1, <4>2
    <3>5. QED
      BY <1>2, <3>3, <3>4 DEF SkipInv
  <2>7. QED
    BY <2>5, <2>6
<1>5. QED
  BY <1>3, <1>4, OnlyCommit

\* However handlers race, a turn is committed only after the one before it.
THEOREM NoTurnIsSkipped == Spec => []NoTurnSkipped
<1>1. SkipInv => NoTurnSkipped
  BY DEF SkipInv
<1>2. QED
  BY <1>1, SkipInit, SkipStep, TypeInvariant, RowInvariant, PTL DEF Spec
-----------------------------------------------------------------------------
(* The end of the story *)

\* The story of a session, and of every row a handler loaded, has ended just when
\* its ending is written; what a handler loaded as ended or locked is so for good.
EndInv ==
  /\ EndingHasItsCause
  /\ \A r \in scheduled : log[r].kind # "none"
  /\ session.status # "in_progress" <=> session.ending.written
  /\ \A w \in Workers :
       LET s == handler[w].loaded
       IN  /\ s.status # "in_progress" <=> s.ending.written
           /\ s.ending.written => session.ending.written
           /\ s.door_locked => session.door_locked

LEMMA EndInit == Init => EndInv
<1> SUFFICES ASSUME Init PROVE EndInv
  OBVIOUS
<1>1. PICK played \in StartTurns :
        /\ session = NewSession(played)
        /\ transcript = [t \in 1..played |-> PlayedEntry(t)]
  BY DEF Init
<1>2. played \in 0..(MAX_TURNS - 1)
  BY <1>1, StartTurnsAssumption
<1>3. /\ session.status = "in_progress"
      /\ ~session.ending.written
      /\ ~session.door_locked
  BY <1>1 DEF NewSession
<1>4. ASSUME NEW i \in DOMAIN transcript PROVE transcript[i].turn # MAX_TURNS
  <2>1. i \in 1..played /\ transcript[i].turn = i
    BY <1>1, <1>4 DEF PlayedEntry
  <2>2. QED
    BY <1>2, <2>1 DEF MAX_TURNS
<1>5. scheduled = {}
  BY DEF Init
<1>6. \A w \in Workers :
        LET s == handler[w].loaded
        IN  s.status = "in_progress" /\ ~s.ending.written /\ ~s.door_locked
  BY DEF Init, Free, NewSession
<1>7. QED
  BY <1>3, <1>4, <1>5, <1>6 DEF EndInv, EndingHasItsCause

\* A commit of a handler that did not reach the end leaves the end alone; one that
\* did writes its status and ending, whatever was committed meanwhile.
LEMMA CommitEnds ==
  ASSUME TypeInv, RowInv, EndInv, NEW w \in Workers, Commit(w)
  PROVE  LET h == handler[w]
         IN  \/ /\ SameEnd(h)
                /\ Kind[h.req] # "end"
                /\ h.row.completed_turns # MAX_TURNS
                /\ ~EndsStory(w)
                /\ session'.status = session.status
                /\ session'.ending = session.ending
                /\ session'.door_locked = session.door_locked
             \/ /\ EndsStory(w)
                /\ session'.status # "in_progress"
                /\ session'.ending.written
                /\ \/ Kind[h.req] = "end" /\ session'.door_locked = session.door_locked
                   \/ /\ Kind[h.req] # "end"
                      /\ h.row.completed_turns = MAX_TURNS
                      /\ session'.door_locked
<1> DEFINE h == handler[w]
<1>1. RowOK(h) /\ h.pc = "writing"
  BY DEF RowInv, Commit, At
<1>2. /\ h.loaded.status = "in_progress"
      /\ ~h.loaded.ending.written
      /\ h.loaded.door_locked => session.door_locked
  BY <1>1 DEF EndInv, RowOK
<1>3. /\ session'.status = Column(session.status, h.loaded.status, h.row.status)
      /\ session'.ending = Column(session.ending, h.loaded.ending, h.row.ending)
      /\ session'.door_locked = Column(session.door_locked, h.loaded.door_locked, h.row.door_locked)
  BY DEF Commit, UpdatedSession
<1>4. CASE Kind[h.req] = "end"
  BY <1>1, <1>2, <1>3, <1>4 DEF RowOK, Column, EndsStory
<1>5. CASE Kind[h.req] # "end" /\ NextTurn(h) # MAX_TURNS
  BY <1>1, <1>2, <1>3, <1>5 DEF RowOK, SameEnd, Column, EndsStory
<1>6. CASE Kind[h.req] # "end" /\ NextTurn(h) = MAX_TURNS
  <2>1. /\ h.row.status = "completed"
        /\ h.row.ending.written
        /\ h.row.door_locked
        /\ h.row.completed_turns = MAX_TURNS
    BY <1>1, <1>6 DEF RowOK
  <2>2. session'.status = "completed" /\ session'.ending.written /\ EndsStory(w)
    BY <1>2, <1>3, <2>1 DEF Column, EndsStory
  <2>3. session'.door_locked
    BY <1>2, <1>3, <2>1 DEF Column
  <2>4. QED
    BY <1>6, <2>1, <2>2, <2>3
<1>7. QED
  BY <1>4, <1>5, <1>6

LEMMA EndStep == TypeInv /\ RowInv /\ EndInv /\ [Next]_vars => EndInv'
<1> SUFFICES ASSUME TypeInv, RowInv, EndInv, [Next]_vars PROVE EndInv'
  OBVIOUS
<1> DEFINE Loaded(s, ended, locked) ==
             /\ s.status # "in_progress" <=> s.ending.written
             /\ s.ending.written => ended
             /\ s.door_locked => locked
<1>1. ASSUME NEW w \in Workers
      PROVE  Loaded(handler'[w].loaded, session.ending.written, session.door_locked)
  <2>1. handler'[w].loaded \in {handler[w].loaded, session, NewSession(0)}
    BY LoadedFrom
  <2>2. Loaded(NewSession(0), session.ending.written, session.door_locked)
    BY DEF NewSession
  <2>3. QED
    BY <2>1, <2>2 DEF EndInv
<1>2. CASE UNCHANGED rows
  BY <1>1, <1>2 DEF rows, EndInv, EndingHasItsCause
<1>3. ASSUME NEW w \in Workers, Commit(w) PROVE EndInv'
  <2> DEFINE h == handler[w]
             last == Len(transcript) + 1
  <2>1. /\ h.req \in Requests
        /\ log[h.req].kind = "none"
        /\ log'[h.req] = Snapshot(w)
        /\ \A r \in Requests \ {h.req} : log'[r] = log[r]
        /\ scheduled \subseteq Requests
    BY <1>3, CommitStores DEF TypeInv, TypeOK
  <2>2. \A r \in scheduled : log'[r] = log[r]
    BY <2>1 DEF EndInv
  <2>3. Kind[h.req] # "end" =>
          /\ DOMAIN transcript' = DOMAIN transcript \cup {last}
          /\ \A i \in DOMAIN transcript : transcript'[i] = transcript[i] /\ i < last
          /\ transcript'[last].turn = h.row.completed_turns
    <3>1. NewEntry(w).turn = h.row.completed_turns
      BY DEF NewEntry
    <3>2. QED
      BY <1>3, <3>1, CommitAppends
  <2>4. Kind[h.req] = "end" => transcript' = transcript
    BY <1>3 DEF Commit
  <2>5. CASE ~EndsStory(w)
    <3>1. /\ Kind[h.req] # "end"
          /\ h.row.completed_turns # MAX_TURNS
          /\ session'.status = session.status
          /\ session'.ending = session.ending
          /\ session'.door_locked = session.door_locked
      BY <1>3, <2>5, CommitEnds
    <3>2. scheduled' = scheduled
      BY <1>3, <2>5 DEF Commit
    <3> HIDE DEF last
    <3>3. (\E i \in DOMAIN transcript' : transcript'[i].turn = MAX_TURNS)
            <=> \E i \in DOMAIN transcript : transcript[i].turn = MAX_TURNS
      BY <2>3, <3>1
    <3>4. EndingHasItsCause'
      BY <2>2, <3>1, <3>2, <3>3 DEF EndInv, EndingHasItsCause
    <3>5. QED
      BY <1>1, <2>2, <3>1, <3>2, <3>4 DEF EndInv
  <2>6. CASE EndsStory(w)
    <3>1. session'.status # "in_progress" /\ session'.ending.written
      BY <1>3, <2>6, CommitEnds
    <3>2. scheduled' = scheduled \cup {h.req}
      BY <1>3, <2>6 DEF Commit
    <3>3. Snapshot(w).kind = "ended" \/ (Snapshot(w).kind = "turn" /\ Snapshot(w).is_final_turn)
      BY <1>3, <2>6, CommitEnds DEF Snapshot, PlainReply
    <3>4. \A r \in scheduled' :
            log'[r].kind # "none" /\ (log'[r].kind = "ended" \/ log'[r].is_final_turn)
      BY <2>1, <2>2, <3>2, <3>3 DEF EndInv, EndingHasItsCause
    <3> HIDE DEF last
    <3>5. session'.door_locked <=> \E i \in DOMAIN transcript' : transcript'[i].turn = MAX_TURNS
      <4>1. CASE Kind[h.req] = "end"
        <5>1. session'.door_locked = session.door_locked
          BY <1>3, <2>6, <4>1, CommitEnds
        <5>2. QED
          BY <2>4, <4>1, <5>1 DEF EndInv, EndingHasItsCause
      <4>2. CASE Kind[h.req] # "end"
        <5>1. session'.door_locked /\ h.row.completed_turns = MAX_TURNS
          BY <1>3, <2>6, <4>2, CommitEnds
        <5>2. QED
          BY <2>3, <4>2, <5>1
      <4>3. QED
        BY <4>1, <4>2
    <3>6. session.door_locked => session'.door_locked
      BY <1>3, CommitEnds
    <3>7. EndingHasItsCause'
      BY <3>1, <3>2, <3>4, <3>5 DEF EndingHasItsCause
    <3>8. QED
      BY <1>1, <3>1, <3>4, <3>6, <3>7 DEF EndInv
  <2>7. QED
    BY <2>5, <2>6
<1>4. QED
  BY <1>2, <1>3, OnlyCommit

\* Whatever races: the door is locked by a twelfth turn only, and an ending is
\* written exactly when a job was left to paint it.
THEOREM EndingKeepsItsCause == Spec => []EndingHasItsCause
<1>1. EndInv => EndingHasItsCause
  BY DEF EndInv
<1>2. QED
  BY <1>1, EndInit, EndStep, TypeInvariant, RowInvariant, PTL DEF Spec
=============================================================================
