------------------------------- MODULE Turns -------------------------------
(***************************************************************************)
(* One playthrough on the server: the rows of its session, its card and    *)
(* its transcript, the table of answered requests, and the handlers of     *)
(* POST /turns, /card and /end that run concurrently in worker threads.    *)
(*                                                                         *)
(* The environment is open: any request may arrive at any moment, any      *)
(* number of times, in any number of workers.  Module Play closes it with  *)
(* the browser that sends the requests.                                    *)
(*                                                                         *)
(* A handler is one database transaction.  Between its steps others run    *)
(* and commit; each step reads what is committed then.  The steps are cut  *)
(* where the code reads shared rows or waits for the language model:       *)
(*   LoadSession -> Answer                                                 *)
(*   LoadSession -> Miss -> Refuse                                         *)
(*   LoadSession -> Miss -> StartTurn -> Generate -> ConfirmNext*          *)
(*     -> FinishTurn -> Commit or Conflict                                 *)
(*   LoadSession -> Miss -> StartEnd -> Commit or Conflict                 *)
(***************************************************************************)
EXTENDS WorldState, FiniteSets

CONSTANTS
  Requests,    \* request ids, each minted once by a client with its body
  Kind,        \* what a request asks for, [Requests -> Kinds]
  NoRequest,   \* the author of the turns played before the model starts
  Workers,     \* threads that run handlers
  Proposals,   \* the lists of events the language model may propose
  StartTurns,  \* numbers of turns already played in the initial states
  ToldTurns    \* those of them in which the player told something personal

\* A "long" card has at most 80 characters as the page counts them, and more as
\* the server does.
Kinds == {"turn", "write", "leave_blank", "long", "end"}

CardKinds == {"write", "leave_blank"}

ASSUME RequestsAssumption == NoRequest \notin Requests /\ Kind \in [Requests -> Kinds]

ASSUME ProposalsAssumption == Proposals \subseteq Seq(ProposedEvents)

ASSUME StartTurnsAssumption == StartTurns \subseteq 0..(MAX_TURNS - 1)

ASSUME ToldTurnsAssumption == ToldTurns \subseteq Turns

VARIABLES
  session,     \* the row of the session
  card,        \* the row of its card
  transcript,  \* message and event rows, one entry per committed turn
  log,         \* the requests table: the answer stored for each request id
  scheduled,   \* requests whose handler left an ending-image job to run
  handler      \* what each worker is doing

rows == <<session, card, transcript, log, scheduled>>

vars == <<session, card, transcript, log, scheduled, handler>>
-----------------------------------------------------------------------------
(* Rows *)

EventTypes == APPLIERS \cup {"door_locked"}

ConfirmedEvents == [type : EventTypes, text : Plans \cup {NoPlan}]

\* A quotation of the ending: the turn whose player message is quoted, and the
\* events that gave it its effect sentences.
Evidence == [turn : Turns, effects : SUBSET EventTypes]

Sessions ==
  [ status          : {"in_progress", "completed", "ended_early"},
    completed_turns : 0..MAX_TURNS,
    scene_id        : Scenes,
    story_time      : Nat,
    door_locked     : BOOLEAN,
    world           : World,
    ending          : [written : BOOLEAN, evidence : SUBSET Evidence] ]

\* The text of the card is known by the request that wrote it.
Cards ==
  [ decided      : BOOLEAN,
    text         : Requests \cup {NoRequest},
    decided_turn : 0..MAX_TURNS ]

\* What one turn adds: a player message, or the record message of a card, with
\* the reply (all written together), and the events it confirmed.
Entries ==
  [ turn      : Turns,
    kind      : {"player", "card"},
    req       : Requests \cup {NoRequest},
    confirmed : Seq(ConfirmedEvents) ]

Replies ==
  [ kind            : {"none", "turn", "ended", "refused", "error"},
    completed_turns : 0..MAX_TURNS,
    card_available  : BOOLEAN,
    is_final_turn   : BOOLEAN ]

PlainReply(kind) ==
  [ kind |-> kind, completed_turns |-> 0, card_available |-> FALSE, is_final_turn |-> FALSE ]

NoReply == PlainReply("none")

\* No answer is stored for request r.
Unanswered(r) == log[r].kind = "none"

\* `loaded` and `loadedCard` are the rows as the handler read them, `row` and
\* `card` the objects it works on.
Handlers ==
  [ pc         : {"free", "arrived", "loaded", "unanswered", "llm", "confirming", "writing",
                  "replied"},
    req        : Requests \cup {NoRequest},
    loaded     : Sessions,
    row        : Sessions,
    loadedCard : Cards,
    card       : Cards,
    proposed   : Seq(ProposedEvents),
    confirmed  : Seq(ConfirmedEvents),
    reply      : Replies ]

NewSession(played) ==
  [ status          |-> "in_progress",
    completed_turns |-> played,
    scene_id        |-> SceneAfter(played),
    story_time      |-> StoryTimeAfter(played),
    door_locked     |-> FALSE,
    world           |-> InitialWorld,
    ending          |-> [written |-> FALSE, evidence |-> {}] ]

BlankCard == [decided |-> FALSE, text |-> NoRequest, decided_turn |-> 0]

Free ==
  [ pc         |-> "free",
    req        |-> NoRequest,
    loaded     |-> NewSession(0),
    row        |-> NewSession(0),
    loadedCard |-> BlankCard,
    card       |-> BlankCard,
    proposed   |-> << >>,
    confirmed  |-> << >>,
    reply      |-> NoReply ]
-----------------------------------------------------------------------------
(* What the handlers compute *)

\* The event types that the ending explains with a quotation.
EvidenceTypes ==
  { "book_given", "book_returned", "bookmark_given", "bookmark_returned",
    "future_plan_accepted", "contact_exchanged", "help_completed",
    "personal_detail_shared" }

\* At most so many quotations; BugSixEvidence is one too many.
BugSixEvidence == 6

MAX_EVIDENCE == 5

\* The events an entry confirmed that deserve a quotation.
Effects(entry) ==
  {entry.confirmed[i].type : i \in DOMAIN entry.confirmed} \cap EvidenceTypes

\* select_evidence: the turns, earliest first and at most MAX_EVIDENCE, with an
\* explained event and a player message to quote.  `written` are the entries
\* whose events the query sees, `said` the turns whose player message it sees.
SelectEvidence(written, said) ==
  LET EffectsOf(t) ==
        UNION {Effects(written[i]) : i \in {j \in DOMAIN written : written[j].turn = t}}
      quotable == {t \in said : EffectsOf(t) # {}}
      first == {t \in quotable : Cardinality({u \in quotable : u < t}) < MAX_EVIDENCE}
  IN  {[turn |-> t, effects |-> EffectsOf(t)] : t \in first}

\* The turns with a player message among the entries.
Said(written) ==
  {written[i].turn : i \in {j \in DOMAIN written : written[j].kind = "player"}}

IsCardAvailable(s, c) == s.scene_id >= 3 /\ ~c.decided

\* An UPDATE carries the columns whose value the handler changed since it read
\* the row; the others keep what is committed now.
Column(now, loaded, new) == IF new # loaded THEN new ELSE now

UpdatedWorld(now, loaded, new) ==
  [ help_status          |-> Column(now.help_status, loaded.help_status, new.help_status),
    book_owner           |-> Column(now.book_owner, loaded.book_owner, new.book_owner),
    bookmark_owner       |-> Column(now.bookmark_owner, loaded.bookmark_owner, new.bookmark_owner),
    future_plan          |-> Column(now.future_plan, loaded.future_plan, new.future_plan),
    future_plan_accepted |-> Column(now.future_plan_accepted, loaded.future_plan_accepted,
                                    new.future_plan_accepted),
    contact_exchanged    |-> Column(now.contact_exchanged, loaded.contact_exchanged,
                                    new.contact_exchanged),
    player_present       |-> Column(now.player_present, loaded.player_present,
                                    new.player_present) ]

UpdatedSession(now, loaded, new) ==
  [ status          |-> Column(now.status, loaded.status, new.status),
    completed_turns |-> Column(now.completed_turns, loaded.completed_turns, new.completed_turns),
    scene_id        |-> Column(now.scene_id, loaded.scene_id, new.scene_id),
    story_time      |-> Column(now.story_time, loaded.story_time, new.story_time),
    door_locked     |-> Column(now.door_locked, loaded.door_locked, new.door_locked),
    world           |-> UpdatedWorld(now.world, loaded.world, new.world),
    ending          |-> Column(now.ending, loaded.ending, new.ending) ]

UpdatedCard(now, loaded, new) ==
  [ decided      |-> Column(now.decided, loaded.decided, new.decided),
    text         |-> Column(now.text, loaded.text, new.text),
    decided_turn |-> Column(now.decided_turn, loaded.decided_turn, new.decided_turn) ]

\* The number of the turn a handler takes, fixed from the row it loaded.
\* BugNextTurnByCount numbers the turn by what is in the transcript.
BugNextTurnByCount(h) == Len(transcript) + 1

NextTurn(h) == h.loaded.completed_turns + 1

\* The card object after a card request is applied to the row it loaded.
DecidedCard(c, r, turn) ==
  [ c EXCEPT !.decided = TRUE,
             !.text = IF Kind[r] = "write" THEN r ELSE NoRequest,
             !.decided_turn = turn ]
-----------------------------------------------------------------------------
(* Handlers *)

\* A turn played before the model starts.
PlayedEntry(t) ==
  [ turn      |-> t,
    kind      |-> "player",
    req       |-> NoRequest,
    confirmed |-> IF t \in ToldTurns
                  THEN << [type |-> "personal_detail_shared", text |-> NoPlan] >>
                  ELSE << >> ]

Init ==
  \E played \in StartTurns :
    /\ session = NewSession(played)
    /\ card = BlankCard
    /\ transcript = [t \in 1..played |-> PlayedEntry(t)]
    /\ log = [r \in Requests |-> NoReply]
    /\ scheduled = {}
    /\ handler = [w \in Workers |-> Free]

At(w, pc) == handler[w].pc = pc

\* The step leaves worker w with the record h, and the other workers alone.
Becomes(w, h) == handler' = [handler EXCEPT ![w] = h]

Replied(w, answer) ==
  [Free EXCEPT !.pc = "replied", !.req = handler[w].req, !.reply = answer]

\* A request reaches the server and is given a worker.
Receive(w, r) ==
  /\ At(w, "free")
  /\ Becomes(w, [Free EXCEPT !.pc = "arrived", !.req = r])
  /\ UNCHANGED rows

\* The handler's first query: the row of the session.
LoadSession(w) ==
  /\ At(w, "arrived")
  /\ Becomes(w, [handler[w] EXCEPT !.pc = "loaded", !.loaded = session, !.row = session])
  /\ UNCHANGED rows

\* The checks every handler makes on the row it loaded, and those on the card.
Admitted(w) ==
  LET r == handler[w].req
      s == handler[w].loaded
  IN  /\ s.status = "in_progress"
      /\ Kind[r] # "end" => s.completed_turns < MAX_TURNS
      /\ Kind[r] \in CardKinds => ~card.decided
      /\ Kind[r] # "long"

\* get_cached_response finds an answer; it is asked before anything is checked.
\* BugKnownAfterChecks asks it only of requests that pass the checks.
BugKnownAfterChecks(w) == ~Unanswered(handler[w].req) /\ Admitted(w)

Known(w) == ~Unanswered(handler[w].req)

\* The request id already has an answer: send that again.
Answer(w) ==
  /\ At(w, "loaded")
  /\ Known(w)
  /\ Becomes(w, Replied(w, log[handler[w].req]))
  /\ UNCHANGED rows

\* No answer yet: the request goes on to the checks.
Miss(w) ==
  /\ At(w, "loaded")
  /\ ~Known(w)
  /\ Becomes(w, [handler[w] EXCEPT !.pc = "unanswered"])
  /\ UNCHANGED rows

\* 409 for a finished session, a thirteenth turn or a decided card, 422 for a text
\* the server finds too long: nothing is written.
Refuse(w) ==
  /\ At(w, "unanswered")
  /\ ~Admitted(w)
  /\ Becomes(w, Replied(w, PlainReply("refused")))
  /\ UNCHANGED rows

\* A turn or a card action is admitted: the next turn number is fixed from the
\* loaded row and the language model is called.
StartTurn(w) ==
  LET r == handler[w].req
      turn == NextTurn(handler[w])
  IN  /\ At(w, "unanswered")
      /\ Kind[r] # "end"
      /\ Admitted(w)
      /\ Becomes(w,
              [ handler[w] EXCEPT
                  !.pc = "llm",
                  !.loadedCard = card,
                  !.card = IF Kind[r] \in CardKinds THEN DecidedCard(card, r, turn) ELSE card ])
      /\ UNCHANGED rows

\* The language model answers with a reply and a list of proposed events.
Generate(w) ==
  /\ At(w, "llm")
  /\ \E proposed \in Proposals :
       Becomes(w, [handler[w] EXCEPT !.pc = "confirming", !.proposed = proposed])
  /\ UNCHANGED rows

\* The loop of confirm_proposed_events: each proposal in the order given, judged
\* in the state the ones before it left, confirmed and applied or dropped.
ConfirmNext(w) ==
  LET h == handler[w]
      e == Head(h.proposed)
  IN  /\ At(w, "confirming")
      /\ h.proposed # << >>
      /\ \/ /\ Admissible(h.row.world, h.row.scene_id, e)
            /\ Becomes(w,
                    [ h EXCEPT !.proposed = Tail(h.proposed),
                               !.row.world = Applied(h.row.world, e),
                               !.confirmed = Append(h.confirmed, e) ])
         \/ /\ ~Admissible(h.row.world, h.row.scene_id, e)
            /\ Becomes(w, [h EXCEPT !.proposed = Tail(h.proposed)])
      /\ UNCHANGED rows

\* The session object after its turn: clock, scene and count advance.
Advanced(s, turn) ==
  [ s EXCEPT !.completed_turns = turn,
             !.story_time = StoryTimeAfter(turn),
             !.scene_id = SceneAfter(turn) ]

\* The session object with an ending written on it.
Ended(s, status, evidence) ==
  [ s EXCEPT !.status = status, !.ending = [written |-> TRUE, evidence |-> evidence] ]

\* The turns whose player message handler w can quote: the committed ones, and
\* its own, which it flushed before it called the language model.
Quotable(w) ==
  Said(transcript) \cup
    (IF Kind[handler[w].req] = "turn" THEN {NextTurn(handler[w])} ELSE {})

\* The loop is over.  The last turn locks the door, completes the session and
\* writes the ending.  Its evidence query runs before the events this handler
\* confirmed are flushed, so it sees the committed ones only.
FinishTurn(w) ==
  LET h == handler[w]
      turn == NextTurn(h)
      advanced == Advanced(h.row, turn)
      locked == [type |-> "door_locked", text |-> NoPlan]
  IN  /\ At(w, "confirming")
      /\ h.proposed = << >>
      /\ \/ /\ turn < MAX_TURNS
            /\ Becomes(w, [h EXCEPT !.pc = "writing", !.row = advanced])
         \/ /\ turn = MAX_TURNS
            /\ Becomes(w,
                    [ h EXCEPT
                        !.pc = "writing",
                        !.row = Ended([advanced EXCEPT !.door_locked = TRUE], "completed",
                                      SelectEvidence(transcript, Quotable(w))),
                        !.confirmed = Append(h.confirmed, locked) ])
      /\ UNCHANGED rows

\* An early end is admitted: the ending is written from what is committed.
StartEnd(w) ==
  /\ At(w, "unanswered")
  /\ Kind[handler[w].req] = "end"
  /\ Admitted(w)
  /\ Becomes(w,
          [ handler[w] EXCEPT
              !.pc = "writing",
              !.row = Ended(handler[w].row, "ended_early",
                            SelectEvidence(transcript, Said(transcript))) ])
  /\ UNCHANGED rows

\* The handler wrote an ending, so a job paints it once the answer is sent.
\* BugEndsStoryByRequestOnly forgets the twelfth turn.
BugEndsStoryByRequestOnly(w) == Kind[handler[w].req] = "end"

EndsStory(w) == handler[w].row.ending.written

\* What the handler answers and stores in the requests table.
Snapshot(w) ==
  LET h == handler[w]
  IN  IF Kind[h.req] = "end" THEN PlainReply("ended")
      ELSE [ kind            |-> "turn",
             completed_turns |-> h.row.completed_turns,
             card_available  |-> IsCardAvailable(h.row, h.card),
             is_final_turn   |-> h.row.completed_turns = MAX_TURNS ]

NewEntry(w) ==
  LET h == handler[w]
  IN  [ turn      |-> h.row.completed_turns,
        kind      |-> IF Kind[h.req] = "turn" THEN "player" ELSE "card",
        req       |-> h.req,
        confirmed |-> h.confirmed ]

\* The primary key of the requests table lets the stored answer in.
\* BugStorableAlways has no such key.
BugStorableAlways(w) == TRUE

Storable(w) == Unanswered(handler[w].req)

\* The transaction commits: changed columns, new rows and the stored answer
\* become visible together, and the ending-image job is left to run.
Commit(w) ==
  LET h == handler[w]
  IN  /\ At(w, "writing")
      /\ Storable(w)
      /\ Becomes(w, Replied(w, Snapshot(w)))
      /\ session' = UpdatedSession(session, h.loaded, h.row)
      /\ IF Kind[h.req] = "end"
         THEN UNCHANGED <<card, transcript>>
         ELSE /\ card' = UpdatedCard(card, h.loadedCard, h.card)
              /\ transcript' = Append(transcript, NewEntry(w))
      /\ log' = [log EXCEPT ![h.req] = Snapshot(w)]
      /\ scheduled' = IF EndsStory(w) THEN scheduled \cup {h.req} ELSE scheduled

\* What a rolled back handler answers: the server error of its exception.
\* BugRejectedAsSuccess swallows the exception.
BugRejectedAsSuccess(w) == Snapshot(w)

Rejected(w) == PlainReply("error")

\* The request id was stored by another transaction meanwhile: the primary key
\* refuses the row and everything is rolled back.
Conflict(w) ==
  /\ At(w, "writing")
  /\ ~Storable(w)
  /\ Becomes(w, Replied(w, Rejected(w)))
  /\ UNCHANGED rows

\* The language model cannot be reached: the exception ends the transaction.
Fail(w) ==
  /\ At(w, "llm") \/ (At(w, "writing") /\ EndsStory(w))
  /\ Becomes(w, Replied(w, Rejected(w)))
  /\ UNCHANGED rows

\* The answer has left the server (or its connection is gone).
Release(w) ==
  /\ At(w, "replied")
  /\ Becomes(w, Free)
  /\ UNCHANGED rows

\* The process dies: every open transaction is rolled back.
Crash ==
  /\ \E w \in Workers : handler[w].pc # "free"
  /\ handler' = [w \in Workers |-> Free]
  /\ UNCHANGED rows

\* Everything a worker does between the arrival and the answer.
Handle(w) ==
  \/ LoadSession(w)
  \/ Answer(w)
  \/ Miss(w)
  \/ Refuse(w)
  \/ StartTurn(w)
  \/ Generate(w)
  \/ ConfirmNext(w)
  \/ FinishTurn(w)
  \/ StartEnd(w)
  \/ Commit(w)
  \/ Conflict(w)
  \/ Fail(w)

Next ==
  \/ \E w \in Workers :
       \/ \E r \in Requests : Receive(w, r)
       \/ Handle(w)
       \/ Release(w)
  \/ Crash

Spec == Init /\ [][Next]_vars
-----------------------------------------------------------------------------
(* What the server promises to any clients whatever *)

\* Type invariant of the rows, the stored answers and the workers.
TypeOK ==
  /\ session \in Sessions
  /\ card \in Cards
  /\ transcript \in Seq(Entries)
  /\ log \in [Requests -> Replies]
  /\ scheduled \subseteq Requests
  /\ handler \in [Workers -> Handlers]

\* idempotency.py: however often a request id is sent, and however many workers
\* run it at once, it consumes one turn at most, and the answer stored for it
\* is the one of the turn it consumed.
OncePerRequest ==
  /\ \A i, j \in DOMAIN transcript :
       transcript[i].req = transcript[j].req /\ transcript[i].req # NoRequest => i = j
  /\ \A i \in DOMAIN transcript :
       transcript[i].req # NoRequest =>
         /\ log[transcript[i].req].kind = "turn"
         /\ log[transcript[i].req].completed_turns = transcript[i].turn

\* A client is told of a turn, or of the end, only when the rows of that turn
\* are committed: a crash after the answer loses nothing that was announced.
AnnouncedIsStored ==
  \A w \in Workers :
    handler[w].reply.kind \in {"turn", "ended"} => log[handler[w].req] = handler[w].reply

\* No turn number is skipped, even when handlers race: a turn is committed only
\* after the one before it.
NoTurnSkipped ==
  \A i \in DOMAIN transcript :
    transcript[i].turn > 1 =>
      \E j \in DOMAIN transcript : j < i /\ transcript[j].turn + 1 = transcript[i].turn

\* The door is locked by the twelfth turn and by nothing else; a session has an
\* ending when, and only when, a job to paint it was left to run.
EndingHasItsCause ==
  /\ session.door_locked <=> \E i \in DOMAIN transcript : transcript[i].turn = MAX_TURNS
  /\ session.ending.written <=> scheduled # {}
  /\ \A r \in scheduled : log[r].kind = "ended" \/ log[r].is_final_turn

\* The ending quotes what led to it: each quotation is of a player message whose
\* turn confirmed an explained event, at most five turns are quoted, and a turn
\* before the ending is left out only for five earlier ones.
EndingQuotesConfirmed ==
  LET quotes == session.ending.evidence
      before == {i \in DOMAIN transcript : transcript[i].req \notin scheduled}
      quotable == {i \in before : transcript[i].kind = "player" /\ Effects(transcript[i]) # {}}
      QuotedAs(i) == [turn |-> transcript[i].turn, effects |-> Effects(transcript[i])]
  IN  session.ending.written =>
        /\ quotes \subseteq {QuotedAs(i) : i \in quotable}
        /\ Cardinality(quotes) <= 5
        /\ \A i \in quotable :
             \/ QuotedAs(i) \in quotes
             \/ Cardinality(quotes) = 5 /\ \A q \in quotes : q.turn < transcript[i].turn

\* engine/state.py: confirming a personal detail makes the words of that turn a
\* candidate for the ending, whatever the turn.
EveryTurnMayBeQuoted ==
  session.ending.written /\ Cardinality(session.ending.evidence) < 5 =>
    \A i \in DOMAIN transcript :
      transcript[i].kind = "player" /\ Effects(transcript[i]) # {} =>
        \E q \in session.ending.evidence : q.turn = transcript[i].turn
=============================================================================
