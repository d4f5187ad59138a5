-------------------------------- MODULE Play --------------------------------
(***************************************************************************)
(* The playthrough server of module Turns together with the browsers that  *)
(* play it.  A browser keeps, for the session, the unanswered turn or card *)
(* request (`pending`, also in local storage), the id of an unanswered end *)
(* request, and what it shows.  It sends a request, waits for the answer,  *)
(* gives up after 45 seconds, sends the same request again, reloads the    *)
(* page, or leaves the page and returns while an answer is still awaited.  *)
(***************************************************************************)
EXTENDS Turns

CONSTANTS
  Devices,           \* browsers, each with a local storage of its own
  NoWorker,          \* no answer is awaited
  MayLeave           \* whether a player leaves the story page during a request

ASSUME NoWorkerAssumption == NoWorker \notin Workers

ASSUME MayLeaveAssumption == MayLeave \in BOOLEAN

VARIABLES
  device,            \* the state of each browser
  minted             \* the request ids already made

browserVars == <<device, minted>>

playVars == <<vars, browserVars>>
-----------------------------------------------------------------------------
\* What a story page shows of the session.
Views ==
  [ loaded : BOOLEAN,
    turns  : 0..MAX_TURNS,
    status : {"in_progress", "completed", "ended_early"},
    scene  : Scenes,
    card   : BOOLEAN ]

NothingShown ==
  [loaded |-> FALSE, turns |-> 0, status |-> "in_progress", scene |-> INITIAL_SCENE, card |-> FALSE]

\* A request with the number of the turn the page expected it to be.
Pendings == [req : Requests \cup {NoRequest}, turn : 0..(MAX_TURNS + 1)]

NothingPending == [req |-> NoRequest, turn |-> 0]

\* `sent` is the number of turns the page showed when it sent the end request it
\* waits for.
DeviceStates ==
  [ waiting    : Workers \cup {NoWorker},
    sent       : 0..MAX_TURNS,
    pending    : Pendings,
    endRequest : Requests \cup {NoRequest},
    view       : Views,
    loading    : {"no", "asked", "read"},
    fetched    : Views ]

\* get_session_state: the committed rows, as the page will show them.
SessionState ==
  [ loaded |-> TRUE,
    turns  |-> session.completed_turns,
    status |-> session.status,
    scene  |-> session.scene_id,
    card   |-> IsCardAvailable(session, card) ]

PlayInit ==
  /\ Init
  /\ minted = {}
  /\ device = [d \in Devices |->
                [ waiting    |-> NoWorker,
                  sent       |-> 0,
                  pending    |-> NothingPending,
                  endRequest |-> NoRequest,
                  view       |-> SessionState,
                  loading    |-> "no",
                  fetched    |-> NothingShown ]]

\* The page is ready for input: shown, no request gate held, story not over.
Ready(d) ==
  /\ device[d].view.loaded
  /\ device[d].loading = "no"
  /\ device[d].waiting = NoWorker
  /\ device[d].view.status = "in_progress"

\* The browser sends request r and holds the gate until w's answer.
Send(d, r, w, changed) ==
  /\ Receive(w, r)
  /\ minted' = minted \cup {r}
  /\ device' = [device EXCEPT ![d] = [changed EXCEPT !.waiting = w]]

\* send and sendCard: a new request, kept as pending before it is sent.  The
\* card is offered in the third scene only; its editor counts graphemes, where
\* the server counts code points, so a long card is sent as well.
Submit(d, r, w) ==
  /\ Ready(d)
  /\ device[d].pending = NothingPending
  /\ r \notin minted
  /\ \/ Kind[r] = "turn"
     \/ Kind[r] \in CardKinds \cup {"long"} /\ device[d].view.scene = 3 /\ device[d].view.card
  /\ Send(d, r, w,
          [device[d] EXCEPT !.pending = [req |-> r, turn |-> device[d].view.turns + 1]])

\* The retry button: the pending request again, under its own id.
Retry(d, w) ==
  /\ Ready(d)
  /\ device[d].pending # NothingPending
  /\ Send(d, device[d].pending.req, w, device[d])

\* endStory: a pending turn does not hold it back.
EndStory(d, r, w) ==
  /\ Ready(d)
  /\ \/ r = device[d].endRequest
     \/ device[d].endRequest = NoRequest /\ r \notin minted /\ Kind[r] = "end"
  /\ Send(d, r, w, [device[d] EXCEPT !.endRequest = r, !.sent = device[d].view.turns])

\* The page waits no longer.
Unheard(b) == [b EXCEPT !.waiting = NoWorker, !.sent = 0]

\* The page after an answer to the request it waited for.  The end is shown with
\* the number of turns of the moment it was asked for.
\* BugShownOptimistically takes any answer for the pending turn's success.
BugShownOptimistically(b, answer) ==
  [ b EXCEPT !.waiting = NoWorker,
             !.sent = 0,
             !.pending = NothingPending,
             !.view.turns = IF b.pending = NothingPending THEN b.view.turns ELSE b.pending.turn ]

Shown(b, answer) ==
  CASE answer.kind = "turn" ->
         [ b EXCEPT
             !.waiting = NoWorker,
             !.sent = 0,
             !.pending = NothingPending,
             !.view.turns = answer.completed_turns,
             !.view.status = IF answer.is_final_turn THEN "completed" ELSE b.view.status,
             !.view.scene = SceneAfter(answer.completed_turns),
             !.view.card = answer.card_available ]
    [] answer.kind = "ended" ->
         [ b EXCEPT
             !.waiting = NoWorker,
             !.sent = 0,
             !.endRequest = NoRequest,
             !.view.turns = b.sent,
             !.view.status = "ended_early" ]
    [] OTHER -> Unheard(b)

Deliver(d) ==
  LET w == device[d].waiting
  IN  /\ w # NoWorker
      /\ device' = [device EXCEPT ![d] = Shown(device[d], handler[w].reply)]
      /\ Release(w)
      /\ UNCHANGED minted

\* The 45-second timer, or a broken connection: the gate opens, the request
\* stays pending, the server goes on.
Timeout(d) ==
  /\ device[d].waiting # NoWorker
  /\ device' = [device EXCEPT ![d] = Unheard(device[d])]
  /\ UNCHANGED <<vars, minted>>

\* The page is loaded again: only local storage survives.
Reload(d) ==
  /\ device' = [device EXCEPT ![d] = [ Unheard(device[d]) EXCEPT !.view = NothingShown,
                                                                !.loading = "asked" ]]
  /\ UNCHANGED <<vars, minted>>

\* The player leaves the story page and returns to it while a request is under
\* way: the page loads the session again, the request is not aborted.
LeaveAndReturn(d) ==
  /\ MayLeave
  /\ device[d].waiting # NoWorker
  /\ device[d].loading = "no"
  /\ device' = [device EXCEPT ![d].loading = "asked"]
  /\ UNCHANGED <<vars, minted>>

\* The server reads the rows for a load ...
FetchState(d) ==
  /\ device[d].loading = "asked"
  /\ device' = [device EXCEPT ![d].loading = "read", ![d].fetched = SessionState]
  /\ UNCHANGED <<vars, minted>>

\* The pending request is not among the turns the server has completed.
\* BugStillPendingOffByOne takes the next turn for completed.
BugStillPendingOffByOne(b) == b.pending.turn > b.fetched.turns + 1

StillPending(b) == b.pending.turn > b.fetched.turns

\* ... and the page applies them when both of its responses are in.  A pending
\* request whose turn is complete is taken to be that turn.
FinishLoad(d) ==
  LET b == device[d]
  IN  /\ b.loading = "read"
      /\ device' =
           [device EXCEPT ![d] =
             [ b EXCEPT
                 !.loading = "no",
                 !.fetched = NothingShown,
                 !.view = b.fetched,
                 !.pending = IF StillPending(b) THEN b.pending ELSE NothingPending ]]
      /\ UNCHANGED <<vars, minted>>

Awaited(w) == \E d \in Devices : device[d].waiting = w

\* Nobody waits for the answer any more.
Drop(w) ==
  /\ ~Awaited(w)
  /\ Release(w)
  /\ UNCHANGED browserVars

\* The server process dies; every open connection breaks with it.
Restart ==
  /\ Crash
  /\ device' = [d \in Devices |-> Unheard(device[d])]
  /\ UNCHANGED minted

Serve(w) ==
  /\ Handle(w)
  /\ UNCHANGED browserVars

BrowserStep(d) ==
  \/ \E w \in Workers :
       \/ \E r \in Requests : Submit(d, r, w) \/ EndStory(d, r, w)
       \/ Retry(d, w)
  \/ Deliver(d)
  \/ Timeout(d)
  \/ Reload(d)
  \/ LeaveAndReturn(d)
  \/ FetchState(d)
  \/ FinishLoad(d)

PlayNext ==
  \/ \E d \in Devices : BrowserStep(d)
  \/ \E w \in Workers : Serve(w) \/ Drop(w)
  \/ Restart

PlaySpec == PlayInit /\ [][PlayNext]_playVars
-----------------------------------------------------------------------------
\* docs/ui-spec.md 7: two turns are never submitted at once.  No two requests
\* consume the same turn.
OneTurnAtATime ==
  \A i, j \in DOMAIN transcript : transcript[i].turn = transcript[j].turn => i = j

\* The facts of the session are the confirmed events, replayed in order from the
\* first evening on, each of them admissible where it stands.
AllConfirmed ==
  LET n == Len(transcript)
      replay[i \in 0..n] ==
        IF i = 0 THEN << >>
        ELSE replay[i - 1] \o
               [k \in 1..Len(transcript[i].confirmed) |->
                  [event |-> transcript[i].confirmed[k], turn |-> transcript[i].turn]]
  IN  replay[n]

WorldIsReplay ==
  LET all == AllConfirmed
      world[i \in 0..Len(all)] ==
        IF i = 0 THEN InitialWorld ELSE Applied(world[i - 1], all[i].event)
  IN  /\ session.world = world[Len(all)]
      /\ \A i \in 1..Len(all) :
           \/ all[i].event.type = "door_locked"
           \/ Admissible(world[i - 1], SceneAfter(all[i].turn - 1), all[i].event)

\* The scene and the clock of the session are those of its last turn, and the
\* scene is the one a browser restores for that turn.
SceneFollowsTurns ==
  /\ session.scene_id = RestoredScene(session.completed_turns)
  /\ session.story_time = StoryTimeAfter(session.completed_turns)

\* The card is decided by one request and keeps its text: one card entry, in the
\* turn the card names, and the text is that request's.
CardDecidedOnce ==
  LET deciding == {i \in DOMAIN transcript : transcript[i].kind = "card"}
  IN  /\ card.decided <=> deciding # {}
      /\ \A i \in deciding :
           /\ \A j \in deciding : i = j
           /\ card.decided_turn = transcript[i].turn
           /\ card.text = IF Kind[transcript[i].req] = "write" THEN transcript[i].req
                          ELSE NoRequest

\* A page never shows more of the story than is committed, and never an end
\* that did not happen.
ShownIsCommitted ==
  \A d \in Devices :
    LET v == device[d].view
    IN  v.loaded => /\ v.turns <= session.completed_turns
                    /\ v.status # "in_progress" => session.status = v.status

\* A page never shows a turn nobody took or an end that did not happen, also when its
\* player leaves and returns, ends early, or plays on another device at the same time.
ShownHappened ==
  \A d \in Devices :
    LET v == device[d].view
    IN  /\ v.turns > 0 => \E i \in DOMAIN transcript : transcript[i].turn = v.turns
        /\ v.status = "completed" => \E i \in DOMAIN transcript : transcript[i].turn = MAX_TURNS
        /\ v.status = "ended_early" => \E r \in Requests : log[r].kind = "ended"

\* frontend/INTEGRATION.md: a request whose outcome is unknown is kept, with its
\* id, until the outcome is known.
PendingKeptUntilAnswered ==
  [][\A d \in Devices :
       LET r == device[d].pending.req
       IN  r # NoRequest /\ device'[d].pending.req # r => log'[r].kind # "none"]_playVars

\* end.py: an early end does not confirm the locked door.
EarlyEndLeavesDoorOpen == session.status = "ended_early" => ~session.door_locked

\* end.py: an ended session does not change any more: no late turn, card or second
\* end reaches it.
EndedIsFrozen ==
  [][session.status # "in_progress" => UNCHANGED <<session, card, transcript>>]_playVars
-----------------------------------------------------------------------------
(* The atomic story behind the handlers *)

Promised ==
  INSTANCE Story WITH MaxTurns <- MAX_TURNS,
                      turns    <- session.completed_turns,
                      phase    <- session.status,
                      counted  <- {r \in Requests : ~Unanswered(r)}

\* The handlers, retries and crashes implement the atomic story.
StoryImplemented == Promised!Spec
-----------------------------------------------------------------------------
(* Progress *)

\* What nobody can rule out for good, and nobody expects to last forever.  A step
\* that only hands over or drops an answer is none of it, though a restart at that
\* moment looks the same; neither is a conflict, though a failure looks the same.
Disturbance ==
  /\ \/ \E d \in Devices : Timeout(d) \/ Reload(d) \/ LeaveAndReturn(d)
     \/ \E w \in Workers : Fail(w)
     \/ Restart
  /\ ~ \E d \in Devices : Deliver(d)
  /\ ~ \E w \in Workers : Drop(w) \/ Conflict(w)

\* Worker threads run, answers arrive, loads finish, and a player who sees the
\* retry button presses it in the end.
Fairness ==
  /\ \A w \in Workers : WF_playVars(Serve(w)) /\ WF_playVars(Drop(w))
  /\ \A d \in Devices :
       /\ WF_playVars(Deliver(d))
       /\ WF_playVars(FetchState(d))
       /\ WF_playVars(FinishLoad(d))
       /\ WF_playVars(\E w \in Workers : Retry(d, w))

FairPlaySpec == PlaySpec /\ Fairness

Pending(d) == device[d].pending # NothingPending

\* frontend/INTEGRATION.md: a request whose outcome is unknown can be sent again, and
\* holds the next one back.  Once the disturbances stop it is answered, unless the story
\* has been ended.  A card that only the server finds too long is not: it is refused each
\* time and stays pending.
AcceptedIsResolved ==
  <>[][~Disturbance]_playVars =>
    \A d \in Devices :
      Pending(d) /\ Kind[device[d].pending.req] # "long"
        ~> ~Pending(d) \/ session.status = "ended_early"
=============================================================================
