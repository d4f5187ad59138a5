------------------------------ MODULE Play_proofs ------------------------------
(***************************************************************************)
(* What the browser adds to the promises of the server, for any requests,  *)
(* workers and proposals.                                                  *)
(*                                                                         *)
(* The server does not keep two requests from taking the same turn; one    *)
(* browser that stays on its page does (OneBrowser).  The argument: an     *)
(* unanswered turn that a worker runs is the pending request of the page   *)
(* (OnlyPending), so that nothing advances the count while it runs and the *)
(* row it loaded is still the one that is committed (LoadedNow); a request *)
(* is pending from the moment it is made until its answer is stored        *)
(* (PendingCounts), and nothing is pending when a new one is made.         *)
(* Without an early end the row it loaded is the whole session: a commit   *)
(* is then one step of the atomic story, and nothing follows its end.      *)
(* Whoever plays, what a page shows did happen: nothing is taken back, and *)
(* what a page is told or reads is in the rows (HappenedInv).              *)
(***************************************************************************)
EXTENDS Play, Turns_proofs

\* One browser, whose player does not leave the page during a request.
OneBrowser == ~MayLeave /\ \A d, e \in Devices : d = e

\* Nobody ends the story early.
NoEarlyEnd == \A r \in Requests : Kind[r] # "end"
-----------------------------------------------------------------------------
(* The browsers' records *)

\* What a page keeps: a pending turn or card, an end request of that kind.
KeptOK(b) ==
  /\ b.pending.req = NoRequest => b.pending = NothingPending
  /\ b.pending.req # NoRequest => Kind[b.pending.req] # "end"
  /\ b.endRequest # NoRequest => Kind[b.endRequest] = "end"

BrowserInv ==
  /\ device \in [Devices -> DeviceStates]
  /\ minted \subseteq Requests
  /\ \A d \in Devices : KeptOK(device[d])

\* A page that stops waiting.
LEMMA UnheardTyped ==
  ASSUME NEW b \in DeviceStates
  PROVE  /\ Unheard(b) \in DeviceStates
         /\ Unheard(b).waiting = NoWorker /\ Unheard(b).sent = 0
         /\ Unheard(b).pending = b.pending /\ Unheard(b).endRequest = b.endRequest
         /\ Unheard(b).view = b.view /\ Unheard(b).fetched = b.fetched
         /\ Unheard(b).loading = b.loading
PROOF
  <1>1. 0 \in 0..MAX_TURNS BY DEF MAX_TURNS
  <1> QED BY <1>1 DEF Unheard, DeviceStates

\* A step of one page leaves a good record.
LEMMA OnePage ==
  ASSUME BrowserInv, NEW d \in Devices, NEW b \in DeviceStates, KeptOK(b),
         device' = [device EXCEPT ![d] = b], minted' \subseteq Requests
  PROVE  BrowserInv'
PROOF
  <1>1. device \in [Devices -> DeviceStates] BY DEF BrowserInv
  <1>2. device' \in [Devices -> DeviceStates] BY <1>1
  <1>3. \A e \in Devices : device'[e] = IF e = d THEN b ELSE device[e] BY <1>1
  <1> QED BY <1>2, <1>3 DEF BrowserInv, KeptOK

\* The page as it shows what the server has.
LEMMA SessionStateTyped ==
  ASSUME TypeInv
  PROVE  SessionState \in Views
PROOF
  <1>1. session \in Sessions BY DEF TypeInv, TypeOK
  <1> QED BY <1>1 DEF SessionState, Views, Sessions, IsCardAvailable

\* A page that sends a request.
LEMMA SendTyped ==
  ASSUME BrowserInv, NEW d \in Devices, NEW w \in Workers, NEW r \in Requests,
         NEW b \in DeviceStates, KeptOK(b), Send(d, r, w, b)
  PROVE  BrowserInv'
PROOF
  <1>1. [b EXCEPT !.waiting = w] \in DeviceStates BY DEF DeviceStates
  <1>2. KeptOK([b EXCEPT !.waiting = w]) BY DEF KeptOK, DeviceStates
  <1> QED BY <1>1, <1>2, OnePage DEF Send, BrowserInv

\* A page that hears an answer.
LEMMA ShownTyped ==
  ASSUME NEW b \in DeviceStates, KeptOK(b), NEW answer \in Replies
  PROVE  Shown(b, answer) \in DeviceStates /\ KeptOK(Shown(b, answer))
PROOF
  <1>0. 0 \in 0..MAX_TURNS BY DEF MAX_TURNS
  <1>1. CASE answer.kind = "turn"
    <2>1. answer.completed_turns \in 0..MAX_TURNS /\ answer.card_available \in BOOLEAN
          /\ SceneAfter(answer.completed_turns) \in Scenes
      <3>1. answer.completed_turns \in 0..MAX_TURNS /\ answer.card_available \in BOOLEAN
        BY DEF Replies
      <3>2. CASE answer.completed_turns = 0
        <4>1. SceneAfter(answer.completed_turns) \in Scenes
          BY <3>2 DEF TransitionsTo, SceneAfter, INITIAL_SCENE, Scenes
        <4> QED BY <3>1, <4>1
      <3>3. CASE answer.completed_turns # 0
        BY <3>1, <3>3, TableTyped DEF Turns, MAX_TURNS
      <3> QED BY <3>1, <3>2, <3>3
    <2>2. NothingPending \in Pendings BY DEF NothingPending, Pendings, MAX_TURNS
    <2> QED BY <1>0, <1>1, <2>1, <2>2 DEF Shown, DeviceStates, Views, KeptOK, NothingPending
  <1>2. CASE answer.kind = "ended"
    BY <1>0, <1>2 DEF Shown, DeviceStates, Views, KeptOK
  <1>3. CASE answer.kind \notin {"turn", "ended"}
    BY <1>3, UnheardTyped DEF Shown, KeptOK
  <1> QED BY <1>1, <1>2, <1>3

LEMMA BrowserStepTyped ==
  ASSUME TypeInv, BrowserInv, NEW d \in Devices, BrowserStep(d)
  PROVE  BrowserInv' /\ [Next]_vars
PROOF
  <1> DEFINE b == device[d]
  <1>1. b \in DeviceStates /\ KeptOK(b) /\ minted \subseteq Requests BY DEF BrowserInv
  <1>2. ASSUME NEW w \in Workers, NEW r \in Requests, Submit(d, r, w)
        PROVE  BrowserInv' /\ [Next]_vars
    <2> DEFINE c == [b EXCEPT !.pending = [req |-> r, turn |-> b.view.turns + 1]]
    <2>1. [req |-> r, turn |-> b.view.turns + 1] \in Pendings
      BY <1>1 DEF DeviceStates, Views, Pendings, MAX_TURNS
    <2>2. c \in DeviceStates BY <1>1, <2>1 DEF DeviceStates
    <2>3. KeptOK(c)
      <3>1. Kind[r] # "end" /\ r # NoRequest
        BY <1>2, RequestsAssumption DEF Submit, CardKinds
      <3> QED BY <1>1, <3>1 DEF KeptOK, DeviceStates
    <2>4. Send(d, r, w, c) BY <1>2 DEF Submit
    <2> HIDE DEF c
    <2> QED BY <2>2, <2>3, <2>4, SendTyped DEF Send, Next
  <1>3. ASSUME NEW w \in Workers, NEW r \in Requests, EndStory(d, r, w)
        PROVE  BrowserInv' /\ [Next]_vars
    <2> DEFINE c == [b EXCEPT !.endRequest = r, !.sent = b.view.turns]
    <2>1. c \in DeviceStates BY <1>1 DEF DeviceStates, Views
    <2>2. KeptOK(c)
      <3>1. Kind[r] = "end" BY <1>1, <1>3, RequestsAssumption DEF EndStory, KeptOK
      <3> QED BY <1>1, <3>1 DEF KeptOK, DeviceStates
    <2>3. Send(d, r, w, c) BY <1>3 DEF EndStory
    <2> HIDE DEF c
    <2> QED BY <2>1, <2>2, <2>3, SendTyped DEF Send, Next
  <1>4. ASSUME NEW w \in Workers, Retry(d, w) PROVE BrowserInv' /\ [Next]_vars
    <2>1. b.pending.req \in Requests
      BY <1>1, <1>4 DEF Retry, KeptOK, DeviceStates, Pendings
    <2>2. Send(d, b.pending.req, w, b) BY <1>4 DEF Retry
    <2> QED BY <1>1, <2>1, <2>2, SendTyped DEF Send, Next
  <1>5. ASSUME Deliver(d) PROVE BrowserInv' /\ [Next]_vars
    <2> DEFINE w == b.waiting
    <2>1. w \in Workers BY <1>1, <1>5 DEF Deliver, DeviceStates
    <2>2. handler[w].reply \in Replies BY <2>1 DEF TypeInv, TypeOK, Handlers
    <2>3. Shown(b, handler[w].reply) \in DeviceStates /\ KeptOK(Shown(b, handler[w].reply))
      BY <1>1, <2>2, ShownTyped
    <2>4. device' = [device EXCEPT ![d] = Shown(b, handler[w].reply)] /\ minted' = minted
      BY <1>5 DEF Deliver
    <2>5. BrowserInv' BY <1>1, <2>3, <2>4, OnePage
    <2> QED BY <1>5, <2>1, <2>5 DEF Deliver, Next
  <1>6. ASSUME Timeout(d) \/ Reload(d) \/ LeaveAndReturn(d) \/ FetchState(d) \/ FinishLoad(d)
        PROVE  BrowserInv' /\ [Next]_vars
    <2>1. UNCHANGED vars /\ minted' = minted
      BY <1>6 DEF Timeout, Reload, LeaveAndReturn, FetchState, FinishLoad
    <2>2. device \in [Devices -> DeviceStates] BY DEF BrowserInv
    <2>3. NothingShown \in Views
      BY DEF NothingShown, Views, INITIAL_SCENE, Scenes, MAX_TURNS
    <2>4. NothingPending \in Pendings BY DEF NothingPending, Pendings, MAX_TURNS
    <2>5. CASE Timeout(d)
      <3> DEFINE c == Unheard(b)
      <3>1. c \in DeviceStates /\ KeptOK(c) BY <1>1, UnheardTyped DEF KeptOK
      <3>2. device' = [device EXCEPT ![d] = c] BY <2>5 DEF Timeout
      <3> QED BY <1>1, <2>1, <3>1, <3>2, OnePage
    <2>6. CASE Reload(d)
      <3> DEFINE c == [Unheard(b) EXCEPT !.view = NothingShown, !.loading = "asked"]
      <3>1. c \in DeviceStates /\ KeptOK(c)
        BY <1>1, <2>3, UnheardTyped DEF DeviceStates, KeptOK
      <3>2. device' = [device EXCEPT ![d] = c] BY <2>2, <2>6 DEF Reload, DeviceStates
      <3> QED BY <1>1, <2>1, <3>1, <3>2, OnePage
    <2>7. CASE LeaveAndReturn(d)
      <3> DEFINE c == [b EXCEPT !.loading = "asked"]
      <3>1. c \in DeviceStates /\ KeptOK(c) BY <1>1 DEF DeviceStates, KeptOK
      <3>2. device' = [device EXCEPT ![d] = c] BY <2>7 DEF LeaveAndReturn
      <3> QED BY <1>1, <2>1, <3>1, <3>2, OnePage
    <2>8. CASE FetchState(d)
      <3> DEFINE c == [b EXCEPT !.loading = "read", !.fetched = SessionState]
      <3>1. c \in DeviceStates /\ KeptOK(c)
        BY <1>1, SessionStateTyped DEF DeviceStates, KeptOK
      <3>2. device' = [device EXCEPT ![d] = c] BY <2>2, <2>8 DEF FetchState, DeviceStates
      <3> QED BY <1>1, <2>1, <3>1, <3>2, OnePage
    <2>9. CASE FinishLoad(d)
      <3> DEFINE p == IF StillPending(b) THEN b.pending ELSE NothingPending
                 c == [b EXCEPT !.loading = "no", !.fetched = NothingShown, !.view = b.fetched,
                                !.pending = p]
      <3>1. p \in Pendings /\ (p.req = NoRequest => p = NothingPending)
            /\ (p.req # NoRequest => Kind[p.req] # "end")
        BY <1>1, <2>4 DEF DeviceStates, KeptOK, NothingPending
      <3>2. device' = [device EXCEPT ![d] = c] BY <2>9 DEF FinishLoad
      <3> HIDE DEF p
      <3>3. c \in DeviceStates /\ KeptOK(c) BY <1>1, <2>3, <3>1 DEF DeviceStates, KeptOK
      <3> QED BY <1>1, <2>1, <3>2, <3>3, OnePage
    <2> QED BY <1>6, <2>1, <2>5, <2>6, <2>7, <2>8, <2>9
  <1> QED BY <1>2, <1>3, <1>4, <1>5, <1>6 DEF BrowserStep

LEMMA PlayStepTyped ==
  TypeInv /\ BrowserInv /\ [PlayNext]_playVars => BrowserInv' /\ [Next]_vars
PROOF
  <1> SUFFICES ASSUME TypeInv, BrowserInv, [PlayNext]_playVars PROVE BrowserInv' /\ [Next]_vars
    OBVIOUS
  <1>1. ASSUME NEW d \in Devices, BrowserStep(d) PROVE BrowserInv' /\ [Next]_vars
    BY <1>1, BrowserStepTyped
  <1>2. ASSUME NEW w \in Workers, Serve(w) \/ Drop(w) PROVE BrowserInv' /\ [Next]_vars
    <2>1. UNCHANGED << device, minted >> BY <1>2 DEF Serve, Drop, browserVars
    <2> QED BY <1>2, <2>1 DEF Serve, Drop, Next, BrowserInv
  <1>3. CASE Restart
    <2>1. device \in [Devices -> DeviceStates] BY DEF BrowserInv
    <2>2. ASSUME NEW d \in Devices
          PROVE  Unheard(device[d]) \in DeviceStates /\ KeptOK(Unheard(device[d]))
      BY <2>1, UnheardTyped DEF BrowserInv, KeptOK
    <2>3. device' = [d \in Devices |-> Unheard(device[d])] /\ minted' = minted
      BY <1>3 DEF Restart
    <2>4. BrowserInv' BY <2>2, <2>3 DEF BrowserInv, KeptOK
    <2> QED BY <1>3, <2>4 DEF Restart, Next
  <1>4. CASE UNCHANGED playVars
    BY <1>4 DEF playVars, browserVars, vars, BrowserInv
  <1> QED BY <1>1, <1>2, <1>3, <1>4 DEF PlayNext

LEMMA BrowserInit == PlayInit => BrowserInv
PROOF
  <1> SUFFICES ASSUME PlayInit PROVE BrowserInv OBVIOUS
  <1>1. SessionState \in Views BY TypeInit, SessionStateTyped DEF PlayInit
  <1>2. NothingShown \in Views BY DEF NothingShown, Views, INITIAL_SCENE, Scenes, MAX_TURNS
  <1>3. NothingPending \in Pendings BY DEF NothingPending, Pendings, MAX_TURNS
  <1> QED BY <1>1, <1>2, <1>3 DEF PlayInit, BrowserInv, DeviceStates, KeptOK, NothingPending,
                                      MAX_TURNS

\* The pages and the server together are a server: what was proved of the handlers
\* for any clients holds of the play.
THEOREM ServerInPlay == PlaySpec => Spec /\ []BrowserInv
PROOF
  <1>1. PlayInit => Init BY DEF PlayInit
  <1> QED BY <1>1, BrowserInit, TypeInit, TypeStep, PlayStepTyped, PTL DEF PlaySpec, Spec
-----------------------------------------------------------------------------
(* What the handlers do, for the argument about turns *)

\* A step of a handler keeps its request; the row it works from is the one it
\* had, or a fresh reading when the handler begins.
LEMMA HandleMoves ==
  ASSUME TypeInv, NEW w \in Workers, Handle(w)
  PROVE  /\ \A v \in Workers \ {w} : handler'[v] = handler[v]
         /\ handler[w].pc \notin {"free", "replied"}
         /\ handler'[w].pc \notin {"free", "arrived"}
         /\ handler'[w].req = handler[w].req
         /\ handler'[w].pc # "replied" =>
              handler'[w].loaded = IF handler[w].pc = "arrived" THEN session ELSE handler[w].loaded
         /\ handler'[w].pc # "replied" => UNCHANGED rows
PROOF
  <1> DEFINE h == handler[w]
             Moves(g) == /\ g.pc \notin {"free", "arrived"}
                         /\ g.req = h.req
                         /\ g.pc # "replied" =>
                              g.loaded = IF h.pc = "arrived" THEN session ELSE h.loaded
  <1>1. handler \in [Workers -> Handlers] /\ h \in Handlers BY DEF TypeInv, TypeOK
  <1>2. ASSUME NEW g, Becomes(w, g), Moves(g)
        PROVE  (\A v \in Workers \ {w} : handler'[v] = handler[v]) /\ Moves(handler'[w])
    BY <1>1, <1>2 DEF Becomes
  <1>3. ASSUME NEW answer PROVE Moves(Replied(w, answer)) BY DEF Replied, Free
  <1>4. CASE Answer(w) \/ Refuse(w) \/ Commit(w) \/ Conflict(w) \/ Fail(w)
    <2>1. \E answer : Becomes(w, Replied(w, answer))
      BY <1>4 DEF Answer, Refuse, Commit, Conflict, Fail
    <2>2. handler'[w].pc = "replied" BY <1>1, <2>1 DEF Becomes, Replied, Free
    <2>3. h.pc \notin {"free", "replied"}
      BY <1>4 DEF Answer, Refuse, Commit, Conflict, Fail, At
    <2> QED BY <1>2, <1>3, <2>1, <2>2, <2>3
  <1>5. CASE LoadSession(w)
    <2>1. Moves([h EXCEPT !.pc = "loaded", !.loaded = session, !.row = session])
      BY <1>1, <1>5 DEF LoadSession, At, Handlers
    <2> QED BY <1>2, <1>5, <2>1 DEF LoadSession, At
  <1>6. CASE Miss(w)
    <2>1. Moves([h EXCEPT !.pc = "unanswered"]) BY <1>1, <1>6 DEF Miss, At, Handlers
    <2> QED BY <1>2, <1>6, <2>1 DEF Miss, At
  <1>7. CASE StartTurn(w)
    <2>1. \E c : Becomes(w, [h EXCEPT !.pc = "llm", !.loadedCard = card, !.card = c])
      BY <1>7 DEF StartTurn
    <2>2. ASSUME NEW c PROVE Moves([h EXCEPT !.pc = "llm", !.loadedCard = card, !.card = c])
      BY <1>1, <1>7 DEF StartTurn, At, Handlers
    <2> HIDE DEF Moves
    <2>3. (\A v \in Workers \ {w} : handler'[v] = handler[v]) /\ Moves(handler'[w])
      BY <1>2, <2>1, <2>2
    <2> QED BY <1>7, <2>3 DEF StartTurn, At, Moves
  <1>8. CASE Generate(w)
    <2>1. \E p : Becomes(w, [h EXCEPT !.pc = "confirming", !.proposed = p])
      BY <1>8 DEF Generate
    <2>2. ASSUME NEW p PROVE Moves([h EXCEPT !.pc = "confirming", !.proposed = p])
      BY <1>1, <1>8 DEF Generate, At, Handlers
    <2> HIDE DEF Moves
    <2>3. (\A v \in Workers \ {w} : handler'[v] = handler[v]) /\ Moves(handler'[w])
      BY <1>2, <2>1, <2>2
    <2> QED BY <1>8, <2>3 DEF Generate, At, Moves
  <1>9. CASE ConfirmNext(w)
    <2>1. \E p, f, c :
            \/ Becomes(w, [h EXCEPT !.proposed = p, !.row.world = f, !.confirmed = c])
            \/ Becomes(w, [h EXCEPT !.proposed = p])
      BY <1>9 DEF ConfirmNext
    <2>2. ASSUME NEW p, NEW f, NEW c
          PROVE  /\ Moves([h EXCEPT !.proposed = p, !.row.world = f, !.confirmed = c])
                 /\ Moves([h EXCEPT !.proposed = p])
      BY <1>1, <1>9 DEF ConfirmNext, At, Handlers
    <2> HIDE DEF Moves
    <2>3. (\A v \in Workers \ {w} : handler'[v] = handler[v]) /\ Moves(handler'[w])
      BY <1>2, <2>1, <2>2
    <2> QED BY <1>9, <2>3 DEF ConfirmNext, At, Moves
  <1>10. CASE FinishTurn(w)
    <2>1. \E s, c : \/ Becomes(w, [h EXCEPT !.pc = "writing", !.row = s])
                    \/ Becomes(w, [h EXCEPT !.pc = "writing", !.row = s, !.confirmed = c])
      BY <1>10 DEF FinishTurn
    <2>2. ASSUME NEW s, NEW c
          PROVE  /\ Moves([h EXCEPT !.pc = "writing", !.row = s])
                 /\ Moves([h EXCEPT !.pc = "writing", !.row = s, !.confirmed = c])
      BY <1>1, <1>10 DEF FinishTurn, At, Handlers
    <2> HIDE DEF Moves
    <2>3. (\A v \in Workers \ {w} : handler'[v] = handler[v]) /\ Moves(handler'[w])
      BY <1>2, <2>1, <2>2
    <2> QED BY <1>10, <2>3 DEF FinishTurn, At, Moves
  <1>11. CASE StartEnd(w)
    <2>1. \E s : Becomes(w, [h EXCEPT !.pc = "writing", !.row = s]) BY <1>11 DEF StartEnd
    <2>2. ASSUME NEW s PROVE Moves([h EXCEPT !.pc = "writing", !.row = s])
      BY <1>1, <1>11 DEF StartEnd, At, Handlers
    <2> HIDE DEF Moves
    <2>3. (\A v \in Workers \ {w} : handler'[v] = handler[v]) /\ Moves(handler'[w])
      BY <1>2, <2>1, <2>2
    <2> QED BY <1>11, <2>3 DEF StartEnd, At, Moves
  <1> QED BY <1>4, <1>5, <1>6, <1>7, <1>8, <1>9, <1>10, <1>11 DEF Handle

\* The clock of a session: the columns that a turn moves forward and an end leaves.
Clock(s) == << s.completed_turns, s.scene_id, s.story_time >>

ClockAfter(turn) == << turn, SceneAfter(turn), StoryTimeAfter(turn) >>

\* A handler that writes moves the clock by one turn, or leaves it for an end.
ClockInv ==
  \A w \in Workers :
    At(w, "writing") =>
      Clock(handler[w].row) = IF Kind[handler[w].req] = "end" THEN Clock(handler[w].loaded)
                              ELSE ClockAfter(NextTurn(handler[w]))

LEMMA ClockStep == TypeInv /\ RowInv /\ ClockInv /\ [Next]_vars => ClockInv'
PROOF
  <1> SUFFICES ASSUME TypeInv, RowInv, ClockInv, [Next]_vars, NEW w \in Workers,
                      handler'[w].pc = "writing"
               PROVE  Clock(handler'[w].row)
                        = IF Kind[handler'[w].req] = "end" THEN Clock(handler'[w].loaded)
                          ELSE ClockAfter(NextTurn(handler'[w]))
    BY DEF ClockInv, At, NextTurn
  <1>1. handler \in [Workers -> Handlers] /\ handler[w] \in Handlers /\ WorkerOK(handler[w])
        /\ RowOK(handler[w])
    BY DEF TypeInv, TypeOK, RowInv
  <1>2. CASE handler'[w] = handler[w]
    BY <1>2 DEF ClockInv, At
  <1>3. ASSUME NEW v \in Workers, v # w, Handle(v) PROVE handler'[w] = handler[w]
    BY <1>3, HandleMoves
  <1>4. CASE FinishTurn(w)
    <2> DEFINE h == handler[w]
    <2>1. h.pc = "confirming" /\ Kind[h.req] # "end" BY <1>1, <1>4 DEF FinishTurn, At, WorkerOK
    <2>2. handler'[w].req = h.req /\ handler'[w].loaded = h.loaded
      BY <1>1, <1>4 DEF FinishTurn, Becomes, Handlers
    <2>3. \/ handler'[w].row = Advanced(h.row, NextTurn(h))
          \/ \E evidence :
               handler'[w].row = Ended([Advanced(h.row, NextTurn(h)) EXCEPT !.door_locked = TRUE],
                                       "completed", evidence)
      <3>1. ASSUME NEW s, NEW c,
                   \/ Becomes(w, [h EXCEPT !.pc = "writing", !.row = s])
                   \/ Becomes(w, [h EXCEPT !.pc = "writing", !.row = s, !.confirmed = c])
            PROVE  handler'[w].row = s
        BY <1>1, <3>1 DEF Becomes, Handlers
      <3> QED BY <1>4, <3>1 DEF FinishTurn
    <2>4. h.row \in Sessions BY <1>1 DEF Handlers
    <2>5. Clock(handler'[w].row) = ClockAfter(NextTurn(h))
      BY <2>3, <2>4 DEF Advanced, Ended, Clock, ClockAfter, Sessions
    <2> QED BY <2>1, <2>2, <2>5 DEF NextTurn
  <1>5. CASE StartEnd(w)
    <2> DEFINE h == handler[w]
    <2>1. Kind[h.req] = "end" /\ h.row = h.loaded BY <1>1, <1>5 DEF StartEnd, At, RowOK
    <2>2. handler'[w].req = h.req /\ handler'[w].loaded = h.loaded
      BY <1>1, <1>5 DEF StartEnd, Becomes, Handlers
    <2>3. \E evidence : handler'[w].row = Ended(h.row, "ended_early", evidence)
      BY <1>1, <1>5 DEF StartEnd, Becomes, Handlers
    <2>4. h.row \in Sessions BY <1>1 DEF Handlers
    <2>5. Clock(handler'[w].row) = Clock(h.row)
      BY <2>3, <2>4 DEF Ended, Clock, Sessions
    <2> QED BY <2>1, <2>2, <2>5
  <1>6. CASE Handle(w) /\ ~FinishTurn(w) /\ ~StartEnd(w)
    <2>1. ASSUME NEW answer, Becomes(w, Replied(w, answer)) PROVE FALSE
      BY <1>1, <2>1 DEF Becomes, Replied, Free
    <2>2. \/ LoadSession(w) \/ Miss(w) \/ StartTurn(w) \/ Generate(w) \/ ConfirmNext(w)
      BY <1>6, <2>1 DEF Handle, Answer, Refuse, Commit, Conflict, Fail
    <2>3. handler'[w].pc # "writing"
      BY <1>1, <2>2 DEF LoadSession, Miss, StartTurn, Generate, ConfirmNext, Becomes, Handlers, At
    <2> QED BY <2>3
  <1>7. ASSUME NEW v \in Workers, Release(v) \/ \E r \in Requests : Receive(v, r)
        PROVE  handler'[w] = handler[w]
    <2>1. CASE Release(v) BY <1>1, <2>1 DEF Release, Becomes, Free
    <2>2. ASSUME NEW r \in Requests, Receive(v, r) PROVE handler'[w] = handler[w]
      <3>1. [Free EXCEPT !.pc = "arrived", !.req = r].pc = "arrived" BY DEF Free
      <3> QED BY <1>1, <2>2, <3>1 DEF Receive, Becomes
    <2> QED BY <1>7, <2>1, <2>2
  <1>8. CASE Crash BY <1>8 DEF Crash, Free
  <1>9. CASE UNCHANGED vars BY <1>9, <1>2 DEF vars
  <1> QED BY <1>2, <1>3, <1>4, <1>5, <1>6, <1>7, <1>8, <1>9 DEF Next
-----------------------------------------------------------------------------
(* One turn at a time *)

\* Worker w runs a turn or card request that has no answer yet.
Live(w) ==
  /\ handler[w].pc \notin {"free", "replied"}
  /\ Kind[handler[w].req] # "end"
  /\ Unanswered(handler[w].req)

\* Only ids that were made are under way or answered, and an answer is of the kind
\* that its request asks for.
IdsMade ==
  /\ \A w \in Workers : handler[w].pc # "free" => handler[w].req \in minted
  /\ \A r \in Requests :
       /\ ~Unanswered(r) => r \in minted
       /\ log[r].kind = "turn" => Kind[r] # "end"
       /\ log[r].kind = "ended" => Kind[r] = "end"

\* A turn that runs is the pending request of the page.
OnlyPending ==
  \A w \in Workers : Live(w) => \E d \in Devices : device[d].pending.req = handler[w].req

\* Nothing has moved the clock since it loaded the session; without an early end,
\* nothing has changed the session at all.
LoadedNow ==
  \A w \in Workers : Live(w) /\ ~At(w, "arrived") =>
    /\ Clock(handler[w].loaded) = Clock(session)
    /\ NoEarlyEnd => handler[w].loaded = session

\* The pending request is the next turn until it is answered, and the last one then.
PendingCounts ==
  \A d \in Devices :
    LET p == device[d].pending
    IN  p.req # NoRequest =>
          IF Unanswered(p.req) THEN p.turn = session.completed_turns + 1
          ELSE /\ p.turn = session.completed_turns
               /\ log[p.req].completed_turns = session.completed_turns

\* A page that has nothing pending shows, or is about to show, the last turn.
ViewsNow ==
  \A d \in Devices :
    LET b == device[d]
        n == session.completed_turns
    IN  /\ b.loading = "no" /\ b.view.loaded /\ b.pending.req = NoRequest => b.view.turns = n
        /\ b.loading = "read" => b.fetched.turns <= n
        /\ b.loading = "read" /\ b.pending.req = NoRequest => b.fetched.turns = n

\* A page waits for the worker of its pending request or of its end request, and
\* not while it loads; what it shows is then as it was when it asked for the end.
Waits ==
  \A d \in Devices :
    LET b == device[d]
    IN  b.waiting # NoWorker =>
          /\ b.loading = "no"
          /\ handler[b.waiting].pc # "free"
          /\ Kind[handler[b.waiting].req] # "end" => b.pending.req = handler[b.waiting].req
          /\ Kind[handler[b.waiting].req] = "end" => b.sent = b.view.turns

\* The count is the highest number of a turn, and each turn has its own.
TurnsCounted ==
  /\ OneTurnAtATime
  /\ \A i \in DOMAIN transcript : transcript[i].turn <= session.completed_turns

PlayInv ==
  /\ OneBrowser
  /\ IdsMade
  /\ OnlyPending
  /\ LoadedNow
  /\ PendingCounts
  /\ ViewsNow
  /\ Waits
  /\ TurnsCounted

\* What the argument takes from the server and from the records of the pages.
Ground == TypeInv /\ RowInv /\ ClockInv /\ AnnouncedIsStored /\ BrowserInv

LEMMA PlayInvInit == PlayInit /\ OneBrowser => PlayInv
PROOF
  <1> SUFFICES ASSUME PlayInit, OneBrowser PROVE PlayInv OBVIOUS
  <1>1. PICK played \in StartTurns :
          /\ session = NewSession(played)
          /\ transcript = [t \in 1..played |-> PlayedEntry(t)]
    BY DEF PlayInit, Init
  <1>2. played \in Nat /\ session.completed_turns = played
    BY <1>1, StartTurnsAssumption DEF NewSession, MAX_TURNS
  <1>3. \A w \in Workers : handler[w].pc = "free" BY DEF PlayInit, Init, Free
  <1>4. \A r \in Requests : log[r].kind = "none"
    BY DEF PlayInit, Init, NoReply, PlainReply
  <1>5. IdsMade /\ OnlyPending /\ LoadedNow
    BY <1>3, <1>4 DEF IdsMade, OnlyPending, LoadedNow, Live, Unanswered
  <1>6. PendingCounts /\ ViewsNow /\ Waits
    BY DEF PlayInit, PendingCounts, ViewsNow, Waits, NothingPending, SessionState
  <1>7. DOMAIN transcript = 1..played /\ \A t \in 1..played : transcript[t].turn = t
    BY <1>1 DEF PlayedEntry
  <1>8. TurnsCounted BY <1>2, <1>7 DEF TurnsCounted, OneTurnAtATime
  <1> QED BY <1>5, <1>6, <1>8 DEF PlayInv

\* Of one browser, a step of the page says all.
LEMMA OnlyPage ==
  ASSUME OneBrowser, BrowserInv, NEW d \in Devices, NEW b, device' = [device EXCEPT ![d] = b]
  PROVE  \A e \in Devices : e = d /\ device'[e] = b
BY DEF OneBrowser, BrowserInv

\* A step that leaves the rows alone leaves the turns alone.
LEMMA SameRows ==
  ASSUME UNCHANGED rows
  PROVE  /\ session' = session /\ log' = log /\ transcript' = transcript
         /\ \A r \in Requests : Unanswered(r)' <=> Unanswered(r)
         /\ TurnsCounted => TurnsCounted'
BY DEF rows, Unanswered, TurnsCounted, OneTurnAtATime

\* Sending a request, whose page was ready.
LEMMA SendKeeps ==
  ASSUME Ground, PlayInv, NEW d \in Devices, NEW w \in Workers, NEW r \in Requests,
         NEW c \in DeviceStates, Send(d, r, w, c),
         device[d].loading = "no", c.loading = "no", c.view = device[d].view,
         Kind[r] # "end" => c.pending.req = r,
         Kind[r] = "end" => c.sent = c.view.turns,
         c.pending # device[d].pending =>
           /\ device[d].pending.req = NoRequest
           /\ r \notin minted
           /\ c.pending = [req |-> r, turn |-> session.completed_turns + 1]
  PROVE  PlayInv'
PROOF
  <1> DEFINE b == [c EXCEPT !.waiting = w]
  <1>1. b \in DeviceStates /\ b.waiting = w /\ b.pending = c.pending /\ b.loading = "no"
        /\ b.view = c.view /\ b.sent = c.sent
    BY DEF DeviceStates
  <1>2. \A e \in Devices : e = d /\ device'[e] = b
    BY OnlyPage DEF Send, Ground, PlayInv
  <1> HIDE DEF b
  <1>3. handler'[w].pc = "arrived" /\ handler'[w].req = r
        /\ \A v \in Workers \ {w} : handler'[v] = handler[v]
    BY DEF Send, Receive, Becomes, Free, Ground, TypeInv, TypeOK
  <1>4. UNCHANGED rows /\ minted' = minted \cup {r} BY DEF Send, Receive
  <1>5. IdsMade' BY <1>3, <1>4, SameRows DEF IdsMade, PlayInv, rows, Unanswered
  <1>6. OnlyPending'
    <2> SUFFICES ASSUME NEW v \in Workers, Live(v)' PROVE device'[d].pending.req = handler'[v].req
      BY DEF OnlyPending
    <2>1. CASE v = w BY <1>1, <1>2, <1>3, <2>1 DEF Live
    <2>2. CASE v # w
      <3>1. Live(v) BY <1>3, <1>4, <2>2, SameRows DEF Live, Unanswered
      <3>2. device[d].pending.req = handler[v].req /\ handler[v].req # NoRequest
        BY <1>2, <3>1, RequestsAssumption DEF PlayInv, OnlyPending, Live, Ground, TypeInv, WorkerOK
      <3> QED BY <1>1, <1>2, <1>3, <2>2, <3>2
    <2> QED BY <2>1, <2>2
  <1>7. LoadedNow'
    <2>1. \A v \in Workers : Live(v)' /\ ~At(v, "arrived")' => v # w /\ Live(v) /\ ~At(v, "arrived")
      BY <1>3, <1>4, SameRows DEF Live, At, Unanswered
    <2> QED BY <1>3, <1>4, <2>1, SameRows DEF LoadedNow, PlayInv, Clock
  <1>8. PendingCounts'
    <2>1. CASE c.pending = device[d].pending
      BY <1>1, <1>2, <1>4, <2>1, SameRows DEF PlayInv, PendingCounts, Unanswered
    <2>2. CASE c.pending # device[d].pending
      BY <1>1, <1>2, <1>4, <2>2, SameRows DEF PlayInv, PendingCounts, Unanswered, IdsMade
    <2> QED BY <2>1, <2>2
  <1>9. ViewsNow'
    <2>1. c.pending.req = NoRequest => device[d].pending.req = NoRequest
      OBVIOUS
    <2> QED BY <1>1, <1>2, <1>4, <2>1, SameRows DEF PlayInv, ViewsNow
  <1>10. Waits' BY <1>1, <1>2, <1>3 DEF Waits
  <1> QED BY <1>4, <1>5, <1>6, <1>7, <1>8, <1>9, <1>10, SameRows DEF PlayInv, OneBrowser

LEMMA SubmitKeeps ==
  ASSUME Ground, PlayInv, NEW d \in Devices, NEW w \in Workers, NEW r \in Requests, Submit(d, r, w)
  PROVE  PlayInv'
PROOF
  <1> DEFINE p == [req |-> r, turn |-> device[d].view.turns + 1]
             c == [device[d] EXCEPT !.pending = p]
  <1>1. device[d] \in DeviceStates BY DEF Ground, BrowserInv
  <1>2. device[d].pending.req = NoRequest BY DEF Submit, NothingPending
  <1>3. device[d].view.turns = session.completed_turns /\ device[d].loading = "no"
    BY <1>2 DEF Submit, Ready, PlayInv, ViewsNow
  <1>4. p \in Pendings BY <1>1 DEF DeviceStates, Views, Pendings, MAX_TURNS
  <1>5. c \in DeviceStates /\ c.pending = p /\ c.loading = "no" /\ c.view = device[d].view
    BY <1>1, <1>3, <1>4 DEF DeviceStates
  <1>6. Send(d, r, w, c) /\ r \notin minted /\ Kind[r] # "end" BY DEF Submit, CardKinds
  <1> HIDE DEF c
  <1> QED BY <1>2, <1>3, <1>5, <1>6, SendKeeps

LEMMA EndStoryKeeps ==
  ASSUME Ground, PlayInv, NEW d \in Devices, NEW w \in Workers, NEW r \in Requests,
         EndStory(d, r, w)
  PROVE  PlayInv'
PROOF
  <1> DEFINE c == [device[d] EXCEPT !.endRequest = r, !.sent = device[d].view.turns]
  <1>1. device[d] \in DeviceStates /\ KeptOK(device[d]) BY DEF Ground, BrowserInv
  <1>2. device[d].loading = "no" BY DEF EndStory, Ready
  <1>3. Kind[r] = "end" BY <1>1, RequestsAssumption DEF EndStory, KeptOK
  <1>4. c \in DeviceStates /\ c.pending = device[d].pending /\ c.loading = "no"
        /\ c.view = device[d].view /\ c.sent = c.view.turns
    BY <1>1, <1>2 DEF DeviceStates, Views
  <1>5. Send(d, r, w, c) BY DEF EndStory
  <1> HIDE DEF c
  <1> QED BY <1>2, <1>3, <1>4, <1>5, SendKeeps

LEMMA RetryKeeps ==
  ASSUME Ground, PlayInv, NEW d \in Devices, NEW w \in Workers, Retry(d, w)
  PROVE  PlayInv'
PROOF
  <1> DEFINE r == device[d].pending.req
  <1>1. device[d] \in DeviceStates /\ KeptOK(device[d]) BY DEF Ground, BrowserInv
  <1>2. device[d].loading = "no" BY DEF Retry, Ready
  <1>3. r \in Requests BY <1>1 DEF Retry, KeptOK, DeviceStates, Pendings
  <1>4. Send(d, r, w, device[d]) /\ Kind[r] # "end" BY <1>1, <1>3, RequestsAssumption DEF Retry, KeptOK
  <1> QED BY <1>1, <1>2, <1>3, <1>4, SendKeeps

\* A worker that is free again takes no turn, and nobody waits for it.
LEMMA ReleaseKeeps ==
  ASSUME TypeInv, NEW w \in Workers, Release(w)
  PROVE  /\ UNCHANGED rows
         /\ handler'[w].pc = "free"
         /\ \A v \in Workers \ {w} : handler'[v] = handler[v]
         /\ IdsMade /\ minted' = minted => IdsMade'
         /\ LoadedNow => LoadedNow'
         /\ \A v \in Workers : Live(v)' => Live(v) /\ handler'[v] = handler[v]
PROOF
  <1>1. /\ UNCHANGED rows
        /\ handler'[w].pc = "free"
        /\ \A v \in Workers \ {w} : handler'[v] = handler[v]
    BY DEF Release, Becomes, Free, TypeInv, TypeOK
  <1>2. \A v \in Workers : Live(v)' => Live(v) /\ handler'[v] = handler[v]
    BY <1>1, SameRows DEF Live, Unanswered
  <1>3. IdsMade /\ minted' = minted => IdsMade'
    BY <1>1, SameRows DEF IdsMade, Unanswered
  <1>4. LoadedNow => LoadedNow'
    BY <1>1, <1>2, SameRows DEF LoadedNow, At, Clock
  <1> QED BY <1>1, <1>2, <1>3, <1>4

\* The answer to a turn is the stored answer of the pending request.
LEMMA HeardTurn ==
  ASSUME Ground, PlayInv, NEW d \in Devices, device[d].waiting # NoWorker,
         handler[device[d].waiting].reply.kind = "turn"
  PROVE  /\ device[d].pending.req = handler[device[d].waiting].req
         /\ device[d].pending.req \in Requests
         /\ ~Unanswered(device[d].pending.req)
         /\ handler[device[d].waiting].reply.completed_turns = session.completed_turns
PROOF
  <1> DEFINE w == device[d].waiting
             r == handler[w].req
  <1>1. w \in Workers BY DEF Ground, BrowserInv, DeviceStates
  <1>2. handler[w].pc # "free" BY DEF PlayInv, Waits
  <1>3. r \in Requests BY <1>1, <1>2 DEF Ground, TypeInv, WorkerOK
  <1>4. log[r] = handler[w].reply BY <1>1 DEF Ground, AnnouncedIsStored
  <1>5. Kind[r] # "end" BY <1>3, <1>4 DEF PlayInv, IdsMade
  <1>6. device[d].pending.req = r BY <1>5 DEF PlayInv, Waits
  <1>7. ~Unanswered(r) BY <1>4 DEF Unanswered
  <1>8. r # NoRequest BY <1>3, RequestsAssumption
  <1> QED BY <1>3, <1>4, <1>6, <1>7, <1>8 DEF PlayInv, PendingCounts

\* The answer to an end finds the page as it was when it asked for it.
LEMMA HeardEnd ==
  ASSUME Ground, PlayInv, NEW d \in Devices, device[d].waiting # NoWorker,
         handler[device[d].waiting].reply.kind = "ended"
  PROVE  device[d].sent = device[d].view.turns
PROOF
  <1> DEFINE w == device[d].waiting
             r == handler[w].req
  <1>1. w \in Workers BY DEF Ground, BrowserInv, DeviceStates
  <1>2. handler[w].pc # "free" BY DEF PlayInv, Waits
  <1>3. r \in Requests BY <1>1, <1>2 DEF Ground, TypeInv, WorkerOK
  <1>4. log[r] = handler[w].reply BY <1>1 DEF Ground, AnnouncedIsStored
  <1>5. Kind[r] = "end" BY <1>3, <1>4 DEF PlayInv, IdsMade
  <1> QED BY <1>5 DEF PlayInv, Waits

LEMMA DeliverKeeps ==
  ASSUME Ground, PlayInv, NEW d \in Devices, Deliver(d)
  PROVE  PlayInv'
PROOF
  <1> DEFINE w == device[d].waiting
             answer == handler[w].reply
             b == Shown(device[d], answer)
  <1>1. w \in Workers /\ w # NoWorker /\ Release(w) /\ minted' = minted
    BY DEF Deliver, Ground, BrowserInv, DeviceStates
  <1>2. device[d] \in DeviceStates BY DEF Ground, BrowserInv
  <1>3. \A e \in Devices : e = d /\ device'[e] = b BY OnlyPage DEF Deliver, Ground, PlayInv
  <1>4. b.waiting = NoWorker BY <1>2 DEF Shown, Unheard, DeviceStates
  <1>5. device[d].loading = "no" BY <1>1 DEF PlayInv, Waits
  <1>6. UNCHANGED rows BY <1>1 DEF Release
  <1>7. IdsMade' /\ LoadedNow' BY <1>1, ReleaseKeeps DEF Ground, PlayInv
  <1>8. \A v \in Workers : Live(v)' => Live(v) /\ handler'[v] = handler[v]
    BY <1>1, ReleaseKeeps DEF Ground
  <1>9. Waits' BY <1>3, <1>4 DEF Waits
  <1>10. OnlyPending' /\ PendingCounts' /\ ViewsNow'
    <2>1. CASE answer.kind = "turn"
      <3>1. /\ b.pending.req = NoRequest /\ b.loading = "no"
            /\ b.view.turns = answer.completed_turns
        BY <1>2, <1>5, <2>1 DEF Shown, DeviceStates, Views, NothingPending
      <3>2. device[d].pending.req = handler[w].req /\ ~Unanswered(handler[w].req)
            /\ answer.completed_turns = session.completed_turns
        BY <1>1, <2>1, HeardTurn
      <3>3. \A v \in Workers : ~Live(v)
        BY <1>3, <3>2 DEF PlayInv, OnlyPending, Live
      <3>4. OnlyPending' BY <1>8, <3>3 DEF OnlyPending
      <3>5. PendingCounts' BY <1>3, <3>1 DEF PendingCounts
      <3>6. ViewsNow' BY <1>3, <1>6, <3>1, <3>2, SameRows DEF ViewsNow
      <3> QED BY <3>4, <3>5, <3>6
    <2>2. CASE answer.kind # "turn"
      <3>1. /\ b.pending = device[d].pending /\ b.loading = "no"
            /\ b.view.turns = device[d].view.turns /\ b.view.loaded = device[d].view.loaded
        <4>1. CASE answer.kind = "ended"
          <5>1. device[d].sent = device[d].view.turns BY <1>1, <4>1, HeardEnd
          <5> QED BY <1>2, <1>5, <4>1, <5>1 DEF Shown, DeviceStates, Views
        <4>2. CASE answer.kind # "ended"
          BY <1>2, <1>5, <2>2, <4>2 DEF Shown, Unheard, DeviceStates, Views
        <4> QED BY <4>1, <4>2
      <3> HIDE DEF b
      <3>2. OnlyPending' BY <1>3, <1>8, <3>1 DEF PlayInv, OnlyPending
      <3>3. PendingCounts' BY <1>3, <1>6, <3>1, SameRows DEF PlayInv, PendingCounts, Unanswered
      <3>4. ViewsNow' BY <1>3, <1>5, <1>6, <3>1, SameRows DEF PlayInv, ViewsNow
      <3> QED BY <3>2, <3>3, <3>4
    <2> QED BY <2>1, <2>2
  <1> QED BY <1>6, <1>7, <1>9, <1>10, SameRows DEF PlayInv, OneBrowser

\* A step of the page alone.
LEMMA PageAlone ==
  ASSUME Ground, PlayInv, NEW d \in Devices, NEW b \in DeviceStates,
         device' = [device EXCEPT ![d] = b], UNCHANGED << vars, minted >>,
         b.waiting = NoWorker,
         \/ b.pending = device[d].pending
         \/ b.pending.req = NoRequest /\ ~Unanswered(device[d].pending.req),
         b.loading = "no" /\ b.view.loaded /\ b.pending.req = NoRequest
           => b.view.turns = session.completed_turns,
         b.loading = "read" => b.fetched.turns <= session.completed_turns,
         b.loading = "read" /\ b.pending.req = NoRequest
           => b.fetched.turns = session.completed_turns
  PROVE  PlayInv'
PROOF
  <1>1. \A e \in Devices : e = d /\ device'[e] = b BY OnlyPage DEF Ground, PlayInv
  <1>2. UNCHANGED rows /\ handler' = handler /\ minted' = minted BY DEF vars, rows
  <1>3. \A v \in Workers : Live(v)' <=> Live(v) BY <1>2, SameRows DEF Live, Unanswered
  <1>4. IdsMade' BY <1>2, SameRows DEF PlayInv, IdsMade, Unanswered
  <1>5. LoadedNow' BY <1>2, <1>3, SameRows DEF PlayInv, LoadedNow, At, Clock
  <1>6. OnlyPending' BY <1>1, <1>2, <1>3 DEF PlayInv, OnlyPending, Live
  <1>7. PendingCounts'
    BY <1>1, <1>2, SameRows DEF PlayInv, PendingCounts, Unanswered
  <1>8. ViewsNow' BY <1>1, <1>2, SameRows DEF PlayInv, ViewsNow
  <1>9. Waits' BY <1>1, <1>2 DEF PlayInv, Waits
  <1> QED BY <1>2, <1>4, <1>5, <1>6, <1>7, <1>8, <1>9, SameRows DEF PlayInv, OneBrowser

LEMMA PageKeeps ==
  ASSUME Ground, PlayInv, NEW d \in Devices,
         Timeout(d) \/ Reload(d) \/ LeaveAndReturn(d) \/ FetchState(d) \/ FinishLoad(d)
  PROVE  PlayInv'
PROOF
  <1>1. device \in [Devices -> DeviceStates] /\ device[d] \in DeviceStates
    BY DEF Ground, BrowserInv
  <1>2. UNCHANGED << vars, minted >>
    BY DEF Timeout, Reload, LeaveAndReturn, FetchState, FinishLoad
  <1>3. NothingShown \in Views BY DEF NothingShown, Views, INITIAL_SCENE, Scenes, MAX_TURNS
  <1>4. CASE Timeout(d)
    <2> DEFINE b == Unheard(device[d])
    <2>1. b \in DeviceStates /\ b.waiting = NoWorker /\ b.pending = device[d].pending
          /\ b.loading = device[d].loading /\ b.view = device[d].view
          /\ b.fetched = device[d].fetched
      BY <1>1, UnheardTyped
    <2>2. device' = [device EXCEPT ![d] = b] BY <1>4 DEF Timeout
    <2> HIDE DEF b
    <2> QED BY <1>2, <2>1, <2>2, PageAlone DEF PlayInv, ViewsNow
  <1>5. CASE Reload(d)
    <2> DEFINE b == [Unheard(device[d]) EXCEPT !.view = NothingShown, !.loading = "asked"]
    <2>1. b \in DeviceStates /\ b.waiting = NoWorker /\ b.pending = device[d].pending
          /\ b.loading = "asked"
      BY <1>1, <1>3, UnheardTyped DEF DeviceStates
    <2>2. device' = [device EXCEPT ![d] = b] BY <1>1, <1>5 DEF Reload, DeviceStates
    <2> HIDE DEF b
    <2> QED BY <1>2, <2>1, <2>2, PageAlone
  <1>6. CASE LeaveAndReturn(d) BY <1>6 DEF LeaveAndReturn, PlayInv, OneBrowser
  <1>7. CASE FetchState(d)
    <2> DEFINE b == [device[d] EXCEPT !.loading = "read", !.fetched = SessionState]
    <2>1. session.completed_turns \in Nat BY DEF Ground, TypeInv, TypeOK, Sessions, MAX_TURNS
    <2>2. SessionState \in Views BY SessionStateTyped DEF Ground
    <2>3. b \in DeviceStates /\ b.waiting = device[d].waiting /\ b.pending = device[d].pending
          /\ b.loading = "read" /\ b.fetched.turns = session.completed_turns
      BY <1>1, <2>2 DEF DeviceStates, SessionState
    <2>4. b.waiting = NoWorker BY <1>7, <2>3 DEF FetchState, PlayInv, Waits
    <2>5. device' = [device EXCEPT ![d] = b] BY <1>1, <1>7 DEF FetchState, DeviceStates
    <2> HIDE DEF b
    <2>6. b.loading # "no" /\ b.fetched.turns <= session.completed_turns BY <2>1, <2>3
    <2> QED BY <1>2, <2>3, <2>4, <2>5, <2>6, PageAlone
  <1>8. CASE FinishLoad(d)
    <2> DEFINE p == device[d].pending
               q == IF StillPending(device[d]) THEN p ELSE NothingPending
               b == [device[d] EXCEPT !.loading = "no", !.fetched = NothingShown,
                                      !.view = device[d].fetched, !.pending = q]
    <2>1. NothingPending \in Pendings BY DEF NothingPending, Pendings, MAX_TURNS
    <2>2. q \in Pendings BY <1>1, <2>1 DEF DeviceStates
    <2>3. b \in DeviceStates /\ b.waiting = device[d].waiting /\ b.pending = q /\ b.loading = "no"
          /\ b.view = device[d].fetched
      BY <1>1, <1>3, <2>2 DEF DeviceStates
    <2>4. b.waiting = NoWorker BY <1>8, <2>3 DEF FinishLoad, PlayInv, Waits
    <2>5. device[d].fetched.turns <= session.completed_turns
          /\ (p.req = NoRequest => device[d].fetched.turns = session.completed_turns)
      BY <1>8 DEF FinishLoad, PlayInv, ViewsNow
    <2>6. session.completed_turns \in Nat /\ device[d].fetched.turns \in Nat /\ p.turn \in Nat
      BY <1>1 DEF Ground, TypeInv, TypeOK, Sessions, DeviceStates, Views, Pendings, MAX_TURNS
    <2>7. p.req # NoRequest /\ ~StillPending(device[d]) =>
            ~Unanswered(p.req) /\ device[d].fetched.turns = session.completed_turns
      BY <2>5, <2>6 DEF PlayInv, PendingCounts, StillPending
    <2>8. q = p \/ (q = NothingPending /\ (p.req = NoRequest \/ ~Unanswered(p.req)))
      BY <2>7
    <2>9. p.req = NoRequest => p = NothingPending BY DEF Ground, BrowserInv, KeptOK
    <2>10. q = p \/ (q.req = NoRequest /\ ~Unanswered(p.req))
      BY <2>8, <2>9 DEF NothingPending
    <2>11. q.req = NoRequest => device[d].fetched.turns = session.completed_turns
      BY <2>5, <2>7
    <2>12. device' = [device EXCEPT ![d] = b] BY <1>8 DEF FinishLoad
    <2> HIDE DEF b, q
    <2> QED BY <1>2, <2>3, <2>4, <2>10, <2>11, <2>12, PageAlone
  <1> QED BY <1>4, <1>5, <1>6, <1>7, <1>8

LEMMA DropKeeps ==
  ASSUME Ground, PlayInv, NEW w \in Workers, Drop(w)
  PROVE  PlayInv'
PROOF
  <1>1. Release(w) /\ device' = device /\ minted' = minted /\ \A d \in Devices : device[d].waiting # w
    BY DEF Drop, browserVars, Awaited
  <1>2. /\ UNCHANGED rows /\ IdsMade' /\ LoadedNow'
        /\ \A v \in Workers \ {w} : handler'[v] = handler[v]
        /\ \A v \in Workers : Live(v)' => Live(v) /\ handler'[v] = handler[v]
    BY <1>1, ReleaseKeeps DEF Ground, PlayInv
  <1>3. OnlyPending' BY <1>1, <1>2 DEF PlayInv, OnlyPending
  <1>4. PendingCounts' /\ ViewsNow'
    BY <1>1, <1>2, SameRows DEF PlayInv, PendingCounts, ViewsNow, Unanswered
  <1>5. Waits'
    <2>1. \A d \in Devices : device[d].waiting \in Workers \cup {NoWorker}
      BY DEF Ground, BrowserInv, DeviceStates
    <2>2. \A d \in Devices : device[d].waiting # NoWorker =>
            handler'[device[d].waiting] = handler[device[d].waiting]
      BY <1>1, <1>2, <2>1
    <2> QED BY <1>1, <2>2 DEF PlayInv, Waits
  <1> QED BY <1>2, <1>3, <1>4, <1>5, SameRows DEF PlayInv, OneBrowser

LEMMA RestartKeeps ==
  ASSUME Ground, PlayInv, Restart
  PROVE  PlayInv'
PROOF
  <1>1. UNCHANGED rows /\ minted' = minted BY DEF Restart, Crash
  <1>2. \A w \in Workers : handler'[w].pc = "free" BY DEF Restart, Crash, Free
  <1>3. \A d \in Devices : device[d] \in DeviceStates BY DEF Ground, BrowserInv
  <1>4. \A d \in Devices : device'[d] = Unheard(device[d])
    BY DEF Restart
  <1>5. \A d \in Devices :
          /\ device'[d].waiting = NoWorker /\ device'[d].pending = device[d].pending
          /\ device'[d].loading = device[d].loading /\ device'[d].view = device[d].view
          /\ device'[d].fetched = device[d].fetched
    BY <1>3, <1>4 DEF Unheard, DeviceStates
  <1>6. IdsMade' BY <1>1, <1>2, SameRows DEF PlayInv, IdsMade, Unanswered
  <1>7. OnlyPending' /\ LoadedNow' BY <1>2 DEF OnlyPending, LoadedNow, Live
  <1>8. PendingCounts' BY <1>1, <1>5, SameRows DEF PlayInv, PendingCounts, Unanswered
  <1>9. ViewsNow' BY <1>1, <1>5, SameRows DEF PlayInv, ViewsNow
  <1>10. Waits' BY <1>5 DEF Waits
  <1> QED BY <1>1, <1>6, <1>7, <1>8, <1>9, <1>10, SameRows DEF PlayInv, OneBrowser

\* A page goes on waiting for a worker that keeps its request.
LEMMA ServeWaits ==
  ASSUME Ground, PlayInv, NEW w \in Workers, Serve(w)
  PROVE  Waits'
PROOF
  <1>1. Handle(w) /\ device' = device BY DEF Serve, browserVars
  <1>2. /\ \A v \in Workers \ {w} : handler'[v] = handler[v]
        /\ handler'[w].pc # "free" /\ handler'[w].req = handler[w].req
    BY <1>1, HandleMoves DEF Ground
  <1>3. \A d \in Devices : device[d].waiting \in Workers \cup {NoWorker}
    BY DEF Ground, BrowserInv, DeviceStates
  <1>4. ASSUME NEW d \in Devices, device[d].waiting # NoWorker
        PROVE  /\ handler'[device[d].waiting].req = handler[device[d].waiting].req
               /\ handler[device[d].waiting].pc # "free" => handler'[device[d].waiting].pc # "free"
    BY <1>2, <1>3, <1>4
  <1> QED BY <1>1, <1>4 DEF PlayInv, Waits

\* A handler between two commits.
LEMMA ServeKeeps ==
  ASSUME Ground, PlayInv, NEW w \in Workers, Serve(w), UNCHANGED rows
  PROVE  PlayInv'
PROOF
  <1>1. Handle(w) /\ device' = device /\ minted' = minted BY DEF Serve, browserVars
  <1>2. /\ \A v \in Workers \ {w} : handler'[v] = handler[v]
        /\ handler[w].pc \notin {"free", "replied"}
        /\ handler'[w].pc \notin {"free", "arrived"}
        /\ handler'[w].req = handler[w].req
        /\ handler'[w].pc # "replied" =>
             handler'[w].loaded = IF handler[w].pc = "arrived" THEN session ELSE handler[w].loaded
    BY <1>1, HandleMoves DEF Ground
  <1>3. IdsMade' BY <1>1, <1>2, SameRows DEF PlayInv, IdsMade, Unanswered
  <1>4. \A v \in Workers : Live(v)' => Live(v) /\ handler'[v].req = handler[v].req
    BY <1>2, SameRows DEF Live, Unanswered
  <1>5. OnlyPending' BY <1>1, <1>4 DEF PlayInv, OnlyPending
  <1>6. LoadedNow'
    <2> SUFFICES ASSUME NEW v \in Workers, Live(v)', ~At(v, "arrived")'
                 PROVE  /\ Clock(handler'[v].loaded) = Clock(session)
                        /\ NoEarlyEnd => handler'[v].loaded = session
      BY SameRows DEF LoadedNow, Clock
    <2>1. CASE v # w
      BY <1>2, <1>4, <2>1 DEF PlayInv, LoadedNow, At
    <2>2. CASE v = w
      BY <1>2, <1>4, <2>2 DEF PlayInv, LoadedNow, At, Live
    <2> QED BY <2>1, <2>2
  <1>7. PendingCounts' /\ ViewsNow'
    BY <1>1, SameRows DEF PlayInv, PendingCounts, ViewsNow, Unanswered
  <1> QED BY <1>3, <1>5, <1>6, <1>7, ServeWaits, SameRows DEF PlayInv, OneBrowser

\* The UPDATE of a handler whose clock is the committed one, or that leaves it alone.
LEMMA UpdatedClock ==
  ASSUME NEW now, NEW loaded, NEW new
  PROVE  /\ Clock(loaded) = Clock(now) => Clock(UpdatedSession(now, loaded, new)) = Clock(new)
         /\ Clock(loaded) = Clock(new) => Clock(UpdatedSession(now, loaded, new)) = Clock(now)
BY DEF Clock, UpdatedSession, Column

\* A turn that commits is the pending request, and the next turn.
LEMMA TurnCommits ==
  ASSUME Ground, PlayInv, NEW w \in Workers, Commit(w), Kind[handler[w].req] # "end"
  PROVE  /\ \E d \in Devices : device[d].pending.req = handler[w].req
         /\ Clock(session') = ClockAfter(session.completed_turns + 1)
         /\ session'.completed_turns = session.completed_turns + 1
         /\ Snapshot(w).kind = "turn"
         /\ Snapshot(w).completed_turns = session.completed_turns + 1
         /\ NewEntry(w).turn = session.completed_turns + 1
         /\ NoEarlyEnd => handler[w].loaded = session
PROOF
  <1> DEFINE h == handler[w]
  <1>1. At(w, "writing") /\ Unanswered(h.req) /\ session' = UpdatedSession(session, h.loaded, h.row)
    BY DEF Commit, Storable
  <1>2. Live(w) /\ ~At(w, "arrived") BY <1>1 DEF Live, At
  <1>3. Clock(h.loaded) = Clock(session) /\ (NoEarlyEnd => h.loaded = session)
    BY <1>2 DEF PlayInv, LoadedNow
  <1>4. h.loaded.completed_turns = session.completed_turns BY <1>3 DEF Clock
  <1>5. Clock(h.row) = ClockAfter(session.completed_turns + 1)
    BY <1>1, <1>4 DEF Ground, ClockInv, NextTurn
  <1>6. Clock(session') = Clock(h.row) BY <1>1, <1>3, UpdatedClock
  <1>7. h.row.completed_turns = session.completed_turns + 1 BY <1>5 DEF Clock, ClockAfter
  <1>8. session'.completed_turns = session.completed_turns + 1
    BY <1>5, <1>6 DEF Clock, ClockAfter
  <1>9. Snapshot(w).kind = "turn" /\ Snapshot(w).completed_turns = session.completed_turns + 1
    BY <1>7 DEF Snapshot
  <1> QED BY <1>2, <1>3, <1>5, <1>6, <1>7, <1>8, <1>9 DEF PlayInv, OnlyPending, NewEntry

\* An end that commits leaves the clock and the turns alone.
LEMMA EndCommits ==
  ASSUME Ground, NEW w \in Workers, Commit(w), Kind[handler[w].req] = "end"
  PROVE  /\ Clock(session') = Clock(session) /\ session'.completed_turns = session.completed_turns
         /\ transcript' = transcript
         /\ Snapshot(w).kind = "ended"
PROOF
  <1>1. At(w, "writing") /\ session' = UpdatedSession(session, handler[w].loaded, handler[w].row)
        /\ transcript' = transcript
    BY DEF Commit
  <1>2. Clock(handler[w].row) = Clock(handler[w].loaded) BY <1>1 DEF Ground, ClockInv
  <1>3. Clock(session') = Clock(session) BY <1>1, <1>2, UpdatedClock
  <1>4. Snapshot(w).kind = "ended" BY DEF Snapshot, PlainReply
  <1> QED BY <1>1, <1>3, <1>4 DEF Clock

\* What any commit does to the records of workers and answers.
LEMMA CommitKeepsIds ==
  ASSUME Ground, PlayInv, NEW w \in Workers, Serve(w), Commit(w)
  PROVE  /\ IdsMade'
         /\ OnlyPending'
         /\ handler[w].req \in Requests /\ log'[handler[w].req].kind # "none"
         /\ log'[handler[w].req] = Snapshot(w)
         /\ \A r \in Requests : r # handler[w].req => log'[r] = log[r]
         /\ \A v \in Workers : Live(v)' =>
              v # w /\ Live(v) /\ handler'[v] = handler[v] /\ handler[v].req # handler[w].req
PROOF
  <1> DEFINE q == handler[w].req
  <1>1. /\ q \in Requests /\ log'[q] = Snapshot(w) /\ log[q].kind = "none"
        /\ \A r \in Requests \ {q} : log'[r] = log[r]
    BY CommitStores DEF Ground
  <1>2. device' = device /\ minted' = minted BY DEF Serve, browserVars
  <1>3. \A v \in Workers \ {w} : handler'[v] = handler[v] BY HandleMoves DEF Serve, Ground
  <1>4. handler'[w].pc = "replied" /\ handler'[w].req = q /\ handler[w].pc = "writing"
    BY DEF Commit, At, Becomes, Replied, Free, Ground, TypeInv, TypeOK
  <1>5. Snapshot(w).kind = IF Kind[q] = "end" THEN "ended" ELSE "turn"
    BY DEF Snapshot, PlainReply
  <1>6. log'[q].kind # "none"
    BY <1>1, <1>5 DEF Snapshot, PlainReply
  <1>7. ASSUME NEW v \in Workers, Live(v)'
        PROVE  v # w /\ Live(v) /\ handler'[v] = handler[v] /\ handler[v].req # q
    <2>1. v # w /\ handler'[v] = handler[v] BY <1>3, <1>4, <1>7 DEF Live
    <2>2. handler[v].req # q BY <1>6, <1>7, <2>1 DEF Live, Unanswered
    <2>3. handler[v].req \in Requests BY <1>7, <2>1 DEF Live, Ground, TypeInv, WorkerOK
    <2> QED BY <1>1, <1>7, <2>1, <2>2, <2>3 DEF Live, Unanswered
  <1>8. OnlyPending' BY <1>2, <1>7 DEF PlayInv, OnlyPending
  <1>9. IdsMade'
    <2>1. q \in minted BY <1>4 DEF PlayInv, IdsMade
    <2>2. \A v \in Workers : handler'[v].pc # "free" => handler'[v].req \in minted'
      BY <1>2, <1>3, <1>4, <2>1 DEF PlayInv, IdsMade
    <2>3. ASSUME NEW r \in Requests
          PROVE  /\ ~Unanswered(r)' => r \in minted'
                 /\ log'[r].kind = "turn" => Kind[r] # "end"
                 /\ log'[r].kind = "ended" => Kind[r] = "end"
      BY <1>1, <1>2, <1>5, <2>1 DEF PlayInv, IdsMade, Unanswered
    <2> QED BY <2>2, <2>3 DEF IdsMade, Unanswered
  <1> QED BY <1>1, <1>6, <1>7, <1>8, <1>9

LEMMA TurnCommitKeeps ==
  ASSUME Ground, PlayInv, NEW w \in Workers, Serve(w), Commit(w), Kind[handler[w].req] # "end"
  PROVE  PlayInv'
PROOF
  <1> DEFINE q == handler[w].req
             n == session.completed_turns
  <1>1. device' = device /\ n \in Nat
    BY DEF Serve, browserVars, Ground, TypeInv, TypeOK, Sessions, MAX_TURNS
  <1>2. PICK d \in Devices : device[d].pending.req = q BY TurnCommits
  <1>3. \A e \in Devices : e = d BY DEF PlayInv, OneBrowser
  <1>4. session'.completed_turns = n + 1 /\ Snapshot(w).completed_turns = n + 1
        /\ NewEntry(w).turn = n + 1
    BY TurnCommits
  <1>5. q \in Requests /\ q # NoRequest /\ log'[q].kind # "none" /\ log'[q] = Snapshot(w)
        /\ Unanswered(q)
    BY CommitKeepsIds, RequestsAssumption DEF Commit, Storable
  <1>6. LoadedNow'
    <2>1. \A v \in Workers : ~Live(v)'
      BY <1>2, <1>3, CommitKeepsIds DEF PlayInv, OnlyPending
    <2> QED BY <2>1 DEF LoadedNow
  <1>7. PendingCounts'
    <2>1. device[d].pending.turn = n + 1 BY <1>2, <1>5 DEF PlayInv, PendingCounts
    <2> QED BY <1>1, <1>2, <1>3, <1>4, <1>5, <2>1 DEF PendingCounts, Unanswered
  <1>8. ViewsNow'
    <2>1. device[d].fetched.turns \in Nat
      BY DEF Ground, BrowserInv, DeviceStates, Views, MAX_TURNS
    <2> QED BY <1>1, <1>2, <1>3, <1>4, <1>5, <2>1 DEF PlayInv, ViewsNow
  <1>9. TurnsCounted'
    <2>1. /\ DOMAIN transcript' = DOMAIN transcript \cup {Len(transcript) + 1}
          /\ \A i \in DOMAIN transcript : transcript'[i] = transcript[i] /\ i < Len(transcript) + 1
          /\ transcript'[Len(transcript) + 1] = NewEntry(w)
      BY CommitAppends DEF Ground
    <2>2. \A i \in DOMAIN transcript : transcript[i].turn \in Nat /\ transcript[i].turn <= n
      <3>1. transcript \in Seq(Entries) BY DEF Ground, TypeInv, TypeOK
      <3>2. \A i \in DOMAIN transcript : transcript[i] \in Entries BY <3>1
      <3> QED BY <3>2 DEF Entries, Turns, MAX_TURNS, PlayInv, TurnsCounted
    <2>3. OneTurnAtATime BY DEF PlayInv, TurnsCounted
    <2>4. OneTurnAtATime' BY <1>1, <1>4, <2>1, <2>2, <2>3 DEF OneTurnAtATime
    <2>5. \A i \in DOMAIN transcript' : transcript'[i].turn <= session'.completed_turns
      BY <1>1, <1>4, <2>1, <2>2
    <2> QED BY <2>4, <2>5 DEF TurnsCounted
  <1> QED BY <1>6, <1>7, <1>8, <1>9, CommitKeepsIds, ServeWaits DEF PlayInv, OneBrowser

LEMMA EndCommitKeeps ==
  ASSUME Ground, PlayInv, NEW w \in Workers, Serve(w), Commit(w), Kind[handler[w].req] = "end"
  PROVE  PlayInv'
PROOF
  <1> DEFINE q == handler[w].req
  <1>1. device' = device BY DEF Serve, browserVars
  <1>2. session'.completed_turns = session.completed_turns /\ transcript' = transcript
        /\ Clock(session') = Clock(session)
    BY EndCommits
  <1>3. ~NoEarlyEnd BY CommitKeepsIds DEF NoEarlyEnd
  <1>4. LoadedNow'
    <2>1. \A v \in Workers : Live(v)' => Live(v) /\ handler'[v] = handler[v] BY CommitKeepsIds
    <2> QED BY <1>2, <1>3, <2>1 DEF PlayInv, LoadedNow, At
  <1>5. PendingCounts'
    <2> SUFFICES ASSUME NEW d \in Devices, device[d].pending.req # NoRequest
                 PROVE  LET p == device[d].pending
                        IN  IF log'[p.req].kind = "none" THEN p.turn = session.completed_turns + 1
                            ELSE /\ p.turn = session.completed_turns
                                 /\ log'[p.req].completed_turns = session.completed_turns
      BY <1>1, <1>2 DEF PendingCounts, Unanswered
    <2>1. device[d].pending.req \in Requests /\ Kind[device[d].pending.req] # "end"
      BY DEF Ground, BrowserInv, KeptOK, DeviceStates, Pendings
    <2>2. log'[device[d].pending.req] = log[device[d].pending.req] BY <2>1, CommitKeepsIds
    <2> QED BY <2>2 DEF PlayInv, PendingCounts, Unanswered
  <1>6. ViewsNow' BY <1>1, <1>2 DEF PlayInv, ViewsNow
  <1>7. TurnsCounted' BY <1>2 DEF PlayInv, TurnsCounted, OneTurnAtATime
  <1> QED BY <1>4, <1>5, <1>6, <1>7, CommitKeepsIds, ServeWaits DEF PlayInv, OneBrowser

LEMMA PlayInvStep == Ground /\ PlayInv /\ [PlayNext]_playVars => PlayInv'
PROOF
  <1> SUFFICES ASSUME Ground, PlayInv, [PlayNext]_playVars PROVE PlayInv'
    OBVIOUS
  <1>1. ASSUME NEW d \in Devices, BrowserStep(d) PROVE PlayInv'
    BY <1>1, SubmitKeeps, EndStoryKeeps, RetryKeeps, DeliverKeeps, PageKeeps DEF BrowserStep
  <1>2. ASSUME NEW w \in Workers, Serve(w) PROVE PlayInv'
    <2>1. CASE Commit(w) BY <1>2, <2>1, TurnCommitKeeps, EndCommitKeeps
    <2>2. CASE ~Commit(w)
      <3>1. UNCHANGED rows
        BY <1>2, <2>2 DEF Serve, Handle, LoadSession, Answer, Miss, Refuse, StartTurn, Generate,
                          ConfirmNext, FinishTurn, StartEnd, Conflict, Fail
      <3> QED BY <1>2, <3>1, ServeKeeps
    <2> QED BY <2>1, <2>2
  <1>3. ASSUME NEW w \in Workers, Drop(w) PROVE PlayInv' BY <1>3, DropKeeps
  <1>4. CASE Restart BY <1>4, RestartKeeps
  <1>5. CASE UNCHANGED playVars
    <2>1. UNCHANGED << rows, handler, device, minted >>
      BY <1>5 DEF playVars, vars, rows, browserVars
    <2>2. IdsMade' /\ OnlyPending' /\ LoadedNow'
      BY <2>1, SameRows DEF PlayInv, IdsMade, OnlyPending, LoadedNow, Live, At, Clock, Unanswered
    <2>3. PendingCounts' /\ ViewsNow' /\ Waits'
      BY <2>1, SameRows DEF PlayInv, PendingCounts, ViewsNow, Waits, Unanswered
    <2> QED BY <2>1, <2>2, <2>3, SameRows DEF PlayInv, OneBrowser
  <1> QED BY <1>1, <1>2, <1>3, <1>4, <1>5 DEF PlayNext

LEMMA ClockInit == Init => ClockInv
BY DEF Init, ClockInv, At, Free

LEMMA ClockInvariant == Spec => []ClockInv
PROOF
  <1> QED BY ClockInit, ClockStep, TypeInvariant, RowInvariant, PTL DEF Spec

LEMMA GroundHolds == PlaySpec => []Ground
PROOF
  <1>1. TypeInv /\ RowInv /\ ClockInv /\ AnnouncedIsStored /\ BrowserInv => Ground BY DEF Ground
  <1> QED BY <1>1, ServerInPlay, TypeInvariant, RowInvariant, ClockInvariant,
            AnnouncedStaysStored, PTL

LEMMA PlayInvariant == OneBrowser => (PlaySpec => []PlayInv)
PROOF
  <1> SUFFICES ASSUME OneBrowser PROVE PlaySpec => []PlayInv OBVIOUS
  <1>1. PlayInit => PlayInv BY PlayInvInit
  <1> QED BY <1>1, PlayInvStep, GroundHolds, PTL DEF PlaySpec

\* docs/ui-spec.md 7: two turns are never submitted at once.  With one browser that
\* stays on its page, however often it gives up, retries and reloads and the server
\* dies, no turn number is taken twice (turns.py, card.py: completed_turns + 1).
THEOREM TurnsAreTakenOnce == OneBrowser => (PlaySpec => []OneTurnAtATime)
PROOF
  <1> SUFFICES ASSUME OneBrowser PROVE PlaySpec => []OneTurnAtATime OBVIOUS
  <1>1. PlayInv => OneTurnAtATime BY DEF PlayInv, TurnsCounted
  <1> QED BY <1>1, PlayInvariant, PTL

\* frontend/INTEGRATION.md: a request whose outcome is unknown is kept, with its id,
\* until the outcome is known (App.tsx: the page forgets its pending request
\* only for the answer to it, or for a loaded session that counts its turn).
THEOREM PendingIsKept == OneBrowser => (PlaySpec => PendingKeptUntilAnswered)
PROOF
  <1> DEFINE Kept == \A d \in Devices :
                       LET r == device[d].pending.req
                       IN  r # NoRequest /\ device'[d].pending.req # r => log'[r].kind # "none"
  <1> SUFFICES ASSUME OneBrowser PROVE PlaySpec => PendingKeptUntilAnswered OBVIOUS
  <1>1. Ground /\ PlayInv /\ [PlayNext]_playVars => [Kept]_playVars
    <2> SUFFICES ASSUME Ground, PlayInv, PlayNext, NEW e \in Devices,
                        device[e].pending.req # NoRequest,
                        device'[e].pending.req # device[e].pending.req
                 PROVE  log'[device[e].pending.req].kind # "none"
      OBVIOUS
    <2>1. ASSUME NEW d \in Devices, BrowserStep(d)
          PROVE  log'[device[e].pending.req].kind # "none"
      <3> DEFINE b == device[d]
      <3>1. d = e /\ device \in [Devices -> DeviceStates] /\ b \in DeviceStates
        BY DEF PlayInv, OneBrowser, Ground, BrowserInv
      <3>2. CASE Deliver(d)
        <4>1. handler[b.waiting].reply.kind = "turn"
          <5> SUFFICES ASSUME handler[b.waiting].reply.kind # "turn" PROVE FALSE OBVIOUS
          <5>1. device'[d] = Shown(b, handler[b.waiting].reply) BY <3>1, <3>2 DEF Deliver
          <5>2. device'[d].pending = b.pending BY <3>1, <5>1, UnheardTyped DEF Shown, DeviceStates
          <5> QED BY <3>1, <5>2
        <4>2. ~Unanswered(b.pending.req) BY <3>2, <4>1, HeardTurn DEF Deliver
        <4>3. log' = log BY <3>2 DEF Deliver, Release, rows
        <4> QED BY <3>1, <4>2, <4>3 DEF Unanswered
      <3>3. CASE FinishLoad(d)
        <4>1. ~StillPending(b)
          <5> SUFFICES ASSUME StillPending(b) PROVE FALSE OBVIOUS
          <5>1. device'[d].pending = b.pending BY <3>1, <3>3 DEF FinishLoad, DeviceStates
          <5> QED BY <3>1, <5>1
        <4>2. b.fetched.turns <= session.completed_turns
          BY <3>3 DEF FinishLoad, PlayInv, ViewsNow
        <4>3. session.completed_turns \in Nat /\ b.fetched.turns \in Nat /\ b.pending.turn \in Nat
          BY <3>1 DEF Ground, TypeInv, TypeOK, Sessions, DeviceStates, Views, Pendings, MAX_TURNS
        <4>4. ~Unanswered(b.pending.req)
          BY <3>1, <4>1, <4>2, <4>3 DEF PlayInv, PendingCounts, StillPending
        <4>5. log' = log BY <3>3 DEF FinishLoad, vars
        <4> QED BY <3>1, <4>4, <4>5 DEF Unanswered
      <3>4. CASE Timeout(d) \/ Reload(d) \/ LeaveAndReturn(d) \/ FetchState(d)
        <4>0. Unheard(b) \in DeviceStates /\ Unheard(b).pending = b.pending BY <3>1, UnheardTyped
        <4>1. device'[d].pending = b.pending
          <5>1. CASE Timeout(d) BY <3>1, <4>0, <5>1 DEF Timeout
          <5>2. CASE Reload(d) BY <3>1, <4>0, <5>2 DEF Reload, DeviceStates
          <5>3. CASE LeaveAndReturn(d) \/ FetchState(d)
            BY <3>1, <5>3 DEF LeaveAndReturn, FetchState, DeviceStates
          <5> QED BY <3>4, <5>1, <5>2, <5>3
        <4> QED BY <3>1, <4>1
      <3>5. ASSUME NEW w \in Workers, NEW r \in Requests, Submit(d, r, w) PROVE FALSE
        BY <3>1, <3>5 DEF Submit, NothingPending
      <3>6. ASSUME NEW w \in Workers, NEW r \in Requests, EndStory(d, r, w) PROVE FALSE
        BY <3>1, <3>6 DEF EndStory, Send, DeviceStates
      <3>7. ASSUME NEW w \in Workers, Retry(d, w) PROVE FALSE
        BY <3>1, <3>7 DEF Retry, Send, DeviceStates
      <3> QED BY <2>1, <3>2, <3>3, <3>4, <3>5, <3>6, <3>7 DEF BrowserStep
    <2>2. ASSUME NEW w \in Workers, Serve(w) \/ Drop(w) PROVE FALSE
      BY <2>2 DEF Serve, Drop, browserVars
    <2>3. CASE Restart
      <3>1. device[e] \in DeviceStates BY DEF Ground, BrowserInv
      <3>2. device'[e].pending = device[e].pending BY <2>3, <3>1, UnheardTyped DEF Restart
      <3> QED BY <3>2
    <2> QED BY <2>1, <2>2, <2>3 DEF PlayNext
  <1> QED BY <1>1, PlayInvariant, GroundHolds, PTL DEF PlaySpec, PendingKeptUntilAnswered

\* Without an early end a turn that commits finds the session as it loaded it: in
\* progress; it leaves it with one more turn, completed by the twelfth.
LEMMA TurnCommitsNow ==
  ASSUME Ground, PlayInv, NoEarlyEnd, NEW w \in Workers, Commit(w)
  PROVE  /\ session.status = "in_progress"
         /\ session'.completed_turns = session.completed_turns + 1
         /\ session'.status = IF session.completed_turns + 1 = MAX_TURNS THEN "completed"
                              ELSE "in_progress"
         /\ handler[w].req \in Requests /\ Unanswered(handler[w].req)
         /\ Kind[handler[w].req] # "end"
         /\ \A r \in Requests :
              (log'[r].kind # "none") <=> (r = handler[w].req \/ log[r].kind # "none")
PROOF
  <1> DEFINE h == handler[w]
  <1>1. /\ h.req \in Requests /\ log[h.req].kind = "none" /\ log'[h.req] = Snapshot(w)
        /\ \A r \in Requests \ {h.req} : log'[r] = log[r]
    BY CommitStores DEF Ground
  <1>2. Kind[h.req] # "end" BY <1>1 DEF NoEarlyEnd
  <1>3. /\ session'.completed_turns = session.completed_turns + 1 /\ Snapshot(w).kind = "turn"
        /\ h.loaded = session
    BY <1>2, TurnCommits
  <1>4. session' = UpdatedSession(session, session, h.row) /\ h.pc = "writing"
    BY <1>3 DEF Commit, At
  <1>5. session'.status = h.row.status BY <1>4 DEF UpdatedSession, Column
  <1>6. RowOK(h) BY DEF Ground, RowInv
  <1>7. session.status = "in_progress" BY <1>3, <1>4, <1>6 DEF RowOK
  <1>8. h.row.status = IF session.completed_turns + 1 = MAX_TURNS THEN "completed" ELSE "in_progress"
    BY <1>2, <1>3, <1>4, <1>6, <1>7 DEF RowOK, SameEnd, NextTurn
  <1> QED BY <1>1, <1>2, <1>3, <1>5, <1>7, <1>8 DEF Unanswered

\* The rows change when a worker that serves commits, and at no other step.
LEMMA ServedCommits ==
  ASSUME [PlayNext]_playVars
  PROVE  UNCHANGED rows \/ \E w \in Workers : Serve(w) /\ Commit(w)
PROOF
  <1>1. ASSUME NEW w \in Workers, Serve(w), ~Commit(w) PROVE UNCHANGED rows
    BY <1>1 DEF Serve, Handle, LoadSession, Answer, Miss, Refuse, StartTurn, Generate, ConfirmNext,
                FinishTurn, StartEnd, Conflict, Fail
  <1>2. ASSUME NEW d \in Devices, BrowserStep(d) PROVE UNCHANGED rows
    BY <1>2 DEF BrowserStep, Submit, EndStory, Retry, Send, Receive, Deliver, Release, Timeout,
                Reload, LeaveAndReturn, FetchState, FinishLoad, vars, rows
  <1>3. ASSUME NEW w \in Workers, Drop(w) PROVE UNCHANGED rows BY <1>3 DEF Drop, Release
  <1>4. Restart => UNCHANGED rows BY DEF Restart, Crash
  <1>5. UNCHANGED playVars => UNCHANGED rows BY DEF playVars, vars, rows
  <1> QED BY <1>1, <1>2, <1>3, <1>4, <1>5 DEF PlayNext

LEMMA PlayCommits ==
  ASSUME [PlayNext]_playVars, ~ \E w \in Workers : Commit(w)
  PROVE  UNCHANGED rows
BY ServedCommits

\* end.py: an ended session does not change any more.  With one browser and no early
\* end, no late turn or card reaches the completed story.
THEOREM EndedStaysFrozen == OneBrowser /\ NoEarlyEnd => (PlaySpec => EndedIsFrozen)
PROOF
  <1> SUFFICES ASSUME OneBrowser, NoEarlyEnd PROVE PlaySpec => EndedIsFrozen OBVIOUS
  <1>1. Ground /\ PlayInv /\ [PlayNext]_playVars =>
          [session.status # "in_progress" => UNCHANGED << session, card, transcript >>]_playVars
    BY TurnCommitsNow, PlayCommits DEF rows
  <1> QED BY <1>1, PlayInvariant, GroundHolds, PTL DEF PlaySpec, EndedIsFrozen

\* The handlers, retries and crashes implement the atomic story of module Story when
\* one browser plays it and nobody ends it early: a commit takes the next turn of the
\* story, every other step leaves the story alone.
THEOREM PlayImplementsStory == OneBrowser /\ NoEarlyEnd => (PlaySpec => StoryImplemented)
PROOF
  <1> SUFFICES ASSUME OneBrowser, NoEarlyEnd PROVE PlaySpec => StoryImplemented OBVIOUS
  <1> DEFINE counted == {r \in Requests : ~Unanswered(r)}
  <1>1. PlayInit => Promised!Init
    <2> SUFFICES ASSUME PlayInit PROVE Promised!Init OBVIOUS
    <2>1. PICK played \in StartTurns : session = NewSession(played) BY DEF PlayInit, Init
    <2>2. session.completed_turns \in 0..(MAX_TURNS - 1) /\ session.status = "in_progress"
      BY <2>1, StartTurnsAssumption DEF NewSession
    <2>3. \A r \in Requests : Unanswered(r)
      BY DEF PlayInit, Init, NoReply, PlainReply, Unanswered
    <2> QED BY <2>2, <2>3 DEF Promised!Init
  <1>2. Ground /\ PlayInv /\ [PlayNext]_playVars => [Promised!Next]_(Promised!storyVars)
    <2> SUFFICES ASSUME Ground, PlayInv, [PlayNext]_playVars
                 PROVE  [Promised!Next]_(Promised!storyVars)
      OBVIOUS
    <2>1. ASSUME NEW w \in Workers, Commit(w) PROVE Promised!Next
      <3> DEFINE q == handler[w].req
      <3>1. q \in Requests \ counted /\ session.status = "in_progress"
        BY <2>1, TurnCommitsNow
      <3>2. counted' = counted \cup {q}
        BY <2>1, TurnCommitsNow DEF Unanswered
      <3>3. Promised!TakeTurn(q) BY <2>1, TurnCommitsNow DEF Promised!TakeTurn
      <3> QED BY <3>1, <3>2, <3>3 DEF Promised!Next
    <2>2. CASE ~ \E w \in Workers : Commit(w)
      <3>1. UNCHANGED rows BY <2>2, PlayCommits
      <3>2. session' = session /\ counted' = counted BY <3>1, SameRows
      <3> QED BY <3>2 DEF Promised!storyVars
    <2> QED BY <2>1, <2>2
  <1> QED BY <1>1, <1>2, PlayInvariant, GroundHolds, PTL
      DEF PlaySpec, StoryImplemented, Promised!Spec
-----------------------------------------------------------------------------
(* The clock and the scene *)

\* The formula of the browser agrees with the table of the server.
LEMMA SceneRestored ==
  ASSUME NEW turn \in 0..MAX_TURNS
  PROVE  SceneAfter(turn) = RestoredScene(turn)
PROOF
  <1>1. CASE turn = 0
    BY <1>1 DEF SceneAfter, RestoredScene, TransitionsTo, INITIAL_SCENE
  <1>2. CASE turn \in {1, 2, 4, 5, 7, 8, 10, 11, 12}
    <2>1. TransitionsTo(turn) = 0 BY <1>2 DEF TransitionsTo
    <2>2. TurnScene[turn] = RestoredScene(turn) BY <1>2 DEF TurnScene, RestoredScene
    <2>3. turn # 0 BY <1>2
    <2> QED BY <2>1, <2>2, <2>3 DEF SceneAfter
  <1>3. CASE turn \in {3, 6, 9}
    BY <1>3 DEF SceneAfter, RestoredScene, TransitionsTo
  <1>4. turn \in {0, 1, 2, 3, 4, 5, 6, 7, 8, 9, 10, 11, 12} BY DEF MAX_TURNS
  <1> QED BY <1>1, <1>2, <1>3, <1>4

ClockFollows == Clock(session) = ClockAfter(session.completed_turns)

LEMMA ClockFollowsStep ==
  Ground /\ PlayInv /\ ClockFollows /\ [PlayNext]_playVars => ClockFollows'
PROOF
  <1> SUFFICES ASSUME Ground, PlayInv, ClockFollows, [PlayNext]_playVars
               PROVE  Clock(session') = ClockAfter(session'.completed_turns)
    BY DEF ClockFollows, Clock
  <1>1. ASSUME NEW w \in Workers, Commit(w)
        PROVE  Clock(session') = ClockAfter(session'.completed_turns)
    BY <1>1, TurnCommits, EndCommits DEF ClockFollows
  <1>2. CASE ~ \E w \in Workers : Commit(w)
    BY <1>2, PlayCommits, SameRows DEF ClockFollows
  <1> QED BY <1>1, <1>2

\* engine/scene.py and lib/history.ts: with one browser the scene and the clock of the
\* session are those of its last turn, and the scene is the one that the browser's own
\* formula restores, also after an early end.
THEOREM ScenesAgree == OneBrowser => (PlaySpec => []SceneFollowsTurns)
PROOF
  <1> SUFFICES ASSUME OneBrowser PROVE PlaySpec => []SceneFollowsTurns OBVIOUS
  <1>1. PlayInit => ClockFollows
    BY DEF PlayInit, Init, NewSession, ClockFollows, Clock, ClockAfter
  <1>2. Ground /\ ClockFollows => SceneFollowsTurns
    <2> SUFFICES ASSUME Ground, ClockFollows PROVE SceneFollowsTurns OBVIOUS
    <2>1. session.completed_turns \in 0..MAX_TURNS BY DEF Ground, TypeInv, TypeOK, Sessions
    <2>2. /\ session.scene_id = SceneAfter(session.completed_turns)
          /\ session.story_time = StoryTimeAfter(session.completed_turns)
      BY DEF ClockFollows, Clock, ClockAfter
    <2> QED BY <2>1, <2>2, SceneRestored DEF SceneFollowsTurns
  <1> QED BY <1>1, <1>2, ClockFollowsStep, PlayInvariant, GroundHolds, PTL DEF PlaySpec
-----------------------------------------------------------------------------
(* The card *)

\* The steps in which a turn carries the card it loaded and the card it made of it.
Carries(h) == h.pc \in {"llm", "confirming", "writing"} /\ Kind[h.req] # "end"

\* The card of a turn is the one it loaded; a card request decides an undecided one.
CardOK(h) ==
  Carries(h) =>
    \/ Kind[h.req] = "turn" /\ h.card = h.loadedCard
    \/ /\ Kind[h.req] \in CardKinds
       /\ ~h.loadedCard.decided
       /\ h.card = DecidedCard(h.loadedCard, h.req, NextTurn(h))

\* A turn that starts loads the card, and carries both cards unchanged from there on.
LEMMA CardMoves ==
  ASSUME TypeInv, NEW w \in Workers, Handle(w), Carries(handler'[w])
  PROVE  \/ StartTurn(w)
         \/ /\ Carries(handler[w])
            /\ handler'[w].req = handler[w].req
            /\ handler'[w].loaded = handler[w].loaded
            /\ handler'[w].card = handler[w].card
            /\ handler'[w].loadedCard = handler[w].loadedCard
PROOF
  <1> DEFINE h == handler[w]
             Same(g) == /\ g.req = h.req /\ g.loaded = h.loaded
                        /\ g.card = h.card /\ g.loadedCard = h.loadedCard
  <1>1. handler \in [Workers -> Handlers] /\ h \in Handlers /\ WorkerOK(h)
    BY DEF TypeInv, TypeOK
  <1>2. ASSUME NEW g, Becomes(w, g) PROVE handler'[w] = g BY <1>1, <1>2 DEF Becomes
  <1>3. ASSUME NEW g, Becomes(w, g), Same(g) PROVE Same(handler'[w])
    BY <1>2, <1>3
  <1>4. ASSUME NEW answer, Becomes(w, Replied(w, answer)) PROVE FALSE
    BY <1>2, <1>4 DEF Replied, Free, Carries
  <1>5. CASE Answer(w) \/ Refuse(w) \/ Commit(w) \/ Conflict(w) \/ Fail(w)
    BY <1>4, <1>5 DEF Answer, Refuse, Commit, Conflict, Fail
  <1>6. CASE LoadSession(w) \/ Miss(w)
    BY <1>1, <1>2, <1>6 DEF LoadSession, Miss, Carries, Handlers
  <1>7. CASE StartEnd(w)
    <2>1. handler'[w].req = h.req BY <1>1, <1>7 DEF StartEnd, Becomes, Handlers
    <2> QED BY <1>7, <2>1 DEF StartEnd, Carries
  <1>8. CASE Generate(w)
    <2>1. ASSUME NEW p PROVE Same([h EXCEPT !.pc = "confirming", !.proposed = p])
      BY <1>1 DEF Handlers
    <2>2. \E p : Becomes(w, [h EXCEPT !.pc = "confirming", !.proposed = p])
      BY <1>8 DEF Generate
    <2> HIDE DEF Same
    <2>3. Same(handler'[w]) BY <1>3, <2>1, <2>2
    <2> QED BY <1>1, <1>8, <2>3 DEF Generate, Same, Carries, At, WorkerOK
  <1>9. CASE ConfirmNext(w)
    <2>1. ASSUME NEW p, NEW f, NEW c
          PROVE  /\ Same([h EXCEPT !.proposed = p, !.row.world = f, !.confirmed = c])
                 /\ Same([h EXCEPT !.proposed = p])
      BY <1>1 DEF Handlers
    <2>2. \E p, f, c :
            \/ Becomes(w, [h EXCEPT !.proposed = p, !.row.world = f, !.confirmed = c])
            \/ Becomes(w, [h EXCEPT !.proposed = p])
      BY <1>9 DEF ConfirmNext
    <2> HIDE DEF Same
    <2>3. Same(handler'[w]) BY <1>3, <2>1, <2>2
    <2> QED BY <1>1, <1>9, <2>3 DEF ConfirmNext, Same, Carries, At, WorkerOK
  <1>10. CASE FinishTurn(w)
    <2>1. ASSUME NEW s, NEW c
          PROVE  /\ Same([h EXCEPT !.pc = "writing", !.row = s])
                 /\ Same([h EXCEPT !.pc = "writing", !.row = s, !.confirmed = c])
      BY <1>1 DEF Handlers
    <2>2. \E s, c : \/ Becomes(w, [h EXCEPT !.pc = "writing", !.row = s])
                    \/ Becomes(w, [h EXCEPT !.pc = "writing", !.row = s, !.confirmed = c])
      BY <1>10 DEF FinishTurn
    <2> HIDE DEF Same
    <2>3. Same(handler'[w]) BY <1>3, <2>1, <2>2
    <2> QED BY <1>1, <1>10, <2>3 DEF FinishTurn, Same, Carries, At, WorkerOK
  <1> QED BY <1>5, <1>6, <1>7, <1>8, <1>9, <1>10 DEF Handle

\* What a turn has loaded when it starts.
LEMMA CardStarts ==
  ASSUME TypeInv, NEW w \in Workers, StartTurn(w)
  PROVE  CardOK(handler'[w]) /\ handler'[w].loadedCard = card
PROOF
  <1> DEFINE h == handler[w]
  <1>1. /\ handler \in [Workers -> Handlers] /\ h \in Handlers
        /\ WorkerOK(h) /\ h.pc = "unanswered"
    BY DEF TypeInv, TypeOK, StartTurn, At
  <1>2. /\ handler'[w].req = h.req /\ handler'[w].loaded = h.loaded
        /\ handler'[w].loadedCard = card
        /\ handler'[w].card = IF Kind[h.req] \in CardKinds
                              THEN DecidedCard(card, h.req, NextTurn(h)) ELSE card
    <2> DEFINE c == IF Kind[h.req] \in CardKinds
                    THEN DecidedCard(card, h.req, NextTurn(h)) ELSE card
    <2>1. handler'[w] = [h EXCEPT !.pc = "llm", !.loadedCard = card, !.card = c]
      BY <1>1 DEF StartTurn, Becomes
    <2> HIDE DEF c
    <2>2. /\ handler'[w].req = h.req /\ handler'[w].loaded = h.loaded
          /\ handler'[w].loadedCard = card /\ handler'[w].card = c
      BY <1>1, <2>1 DEF Handlers
    <2> QED BY <2>2 DEF c
  <1>3. h.req \in Requests BY <1>1 DEF WorkerOK
  <1>4. Kind[h.req] = "turn" \/ (Kind[h.req] \in CardKinds /\ ~card.decided)
    BY <1>3, RequestsAssumption DEF StartTurn, Admitted, Kinds, CardKinds
  <1> QED BY <1>2, <1>4 DEF CardOK, NextTurn, CardKinds

LEMMA CardKept ==
  ASSUME TypeInv, [Next]_vars, NEW v \in Workers, Carries(handler'[v])
  PROVE  \/ StartTurn(v)
         \/ /\ Carries(handler[v])
            /\ handler'[v].req = handler[v].req
            /\ handler'[v].loaded = handler[v].loaded
            /\ handler'[v].card = handler[v].card
            /\ handler'[v].loadedCard = handler[v].loadedCard
PROOF
  <1>1. handler \in [Workers -> Handlers] BY DEF TypeInv, TypeOK
  <1>2. ASSUME NEW w \in Workers, Handle(w), w # v PROVE handler'[v] = handler[v]
    BY <1>2, HandleMoves
  <1>3. ASSUME NEW w \in Workers, Release(w) \/ \E r \in Requests : Receive(w, r)
        PROVE  handler'[v] = handler[v]
    <2>1. CASE Release(w) BY <1>1, <2>1 DEF Release, Becomes, Free, Carries
    <2>2. ASSUME NEW r \in Requests, Receive(w, r) PROVE handler'[v] = handler[v]
      <3>1. [Free EXCEPT !.pc = "arrived", !.req = r].pc = "arrived" BY DEF Free
      <3> QED BY <1>1, <2>2, <3>1 DEF Receive, Becomes, Carries
    <2> QED BY <1>3, <2>1, <2>2
  <1>4. CASE Crash BY <1>4 DEF Crash, Free, Carries
  <1>5. CASE UNCHANGED vars BY <1>5 DEF vars
  <1> QED BY <1>2, <1>3, <1>4, <1>5, CardMoves DEF Next

\* After a turn commits no other turn is under way.
LEMMA NoneLeft ==
  ASSUME Ground, PlayInv, NEW w \in Workers, Serve(w), Commit(w), Kind[handler[w].req] # "end"
  PROVE  \A v \in Workers : ~Live(v)'
PROOF
  <1>1. PICK d \in Devices : device[d].pending.req = handler[w].req BY TurnCommits
  <1>2. \A e \in Devices : e = d BY DEF PlayInv, OneBrowser
  <1> QED BY <1>1, <1>2, CommitKeepsIds DEF PlayInv, OnlyPending

\* The cards under way, and the card of the session.
CardInv ==
  /\ \A w \in Workers :
       /\ CardOK(handler[w])
       /\ Live(w) /\ Carries(handler[w]) => handler[w].loadedCard = card
  /\ CardDecidedOnce

LEMMA CardCommits ==
  ASSUME Ground, PlayInv, CardInv, NEW w \in Workers, Commit(w), Kind[handler[w].req] # "end"
  PROVE  CardDecidedOnce'
PROOF
  <1> DEFINE h == handler[w]
             deciding == {i \in DOMAIN transcript : transcript[i].kind = "card"}
             last == Len(transcript) + 1
             text == IF Kind[h.req] = "write" THEN h.req ELSE NoRequest
  <1>1. h.pc = "writing" /\ Unanswered(h.req) BY DEF Commit, At, Storable
  <1>2. CardOK(h) /\ h.loadedCard = card BY <1>1 DEF CardInv, Live, Carries
  <1>3. card' = UpdatedCard(card, card, h.card) BY <1>2 DEF Commit
  <1>4. /\ card'.decided = h.card.decided /\ card'.text = h.card.text
        /\ card'.decided_turn = h.card.decided_turn
    BY <1>3 DEF UpdatedCard, Column
  <1>5. /\ DOMAIN transcript' = DOMAIN transcript \cup {last}
        /\ \A i \in DOMAIN transcript : transcript'[i] = transcript[i] /\ i # last
        /\ transcript'[last] = NewEntry(w)
    <2>1. transcript \in Seq(Entries) BY DEF Ground, TypeInv, TypeOK
    <2>2. \A i \in DOMAIN transcript : i # last BY <2>1
    <2> HIDE DEF last
    <2>3. /\ DOMAIN transcript' = DOMAIN transcript \cup {last}
          /\ \A i \in DOMAIN transcript : transcript'[i] = transcript[i]
          /\ transcript'[last] = NewEntry(w)
      BY CommitAppends DEF Ground, last
    <2> QED BY <2>2, <2>3
  <1>6. /\ NewEntry(w).turn = NextTurn(h) /\ NewEntry(w).req = h.req
        /\ NewEntry(w).kind = IF Kind[h.req] = "turn" THEN "player" ELSE "card"
    BY <1>1 DEF NewEntry, Ground, RowInv, RowOK
  <1> HIDE DEF last
  <1>7. CASE Kind[h.req] = "turn"
    <2>1. h.card = card BY <1>1, <1>2, <1>7 DEF CardOK, Carries, CardKinds
    <2>2. deciding' = deciding BY <1>5, <1>6, <1>7
    <2>3. \A i \in deciding : transcript'[i] = transcript[i] BY <1>5
    <2>4. card'.decided = card.decided /\ card'.text = card.text
          /\ card'.decided_turn = card.decided_turn
      BY <1>4, <2>1
    <2> QED BY <2>2, <2>3, <2>4 DEF CardInv, CardDecidedOnce
  <1>8. CASE Kind[h.req] # "turn"
    <2>1. ~card.decided /\ h.card = DecidedCard(card, h.req, NextTurn(h))
      BY <1>1, <1>2, <1>8 DEF CardOK, Carries
    <2>2. h.card.decided /\ h.card.text = text /\ h.card.decided_turn = NextTurn(h)
      BY <2>1 DEF DecidedCard, Ground, TypeInv, TypeOK, Cards
    <2>3. deciding = {} BY <2>1 DEF CardInv, CardDecidedOnce
    <2>4. deciding' = {last} BY <1>5, <1>6, <1>8, <2>3
    <2> QED BY <1>4, <1>5, <1>6, <2>2, <2>4 DEF CardDecidedOnce
  <1> QED BY <1>7, <1>8

LEMMA CardInvStep == Ground /\ PlayInv /\ CardInv /\ [PlayNext]_playVars => CardInv'
PROOF
  <1> SUFFICES ASSUME Ground, PlayInv, CardInv, [PlayNext]_playVars PROVE CardInv'
    OBVIOUS
  <1>1. [Next]_vars BY PlayStepTyped DEF Ground
  <1>2. ASSUME NEW v \in Workers PROVE CardOK(handler'[v])
    <2>1. CASE StartTurn(v) BY <2>1, CardStarts DEF Ground
    <2>2. CASE Carries(handler'[v]) /\ ~StartTurn(v)
      BY <1>1, <2>2, CardKept DEF Ground, CardInv, CardOK, NextTurn
    <2> QED BY <2>1, <2>2 DEF CardOK
  <1>3. CASE UNCHANGED rows
    <2>1. card' = card /\ transcript' = transcript BY <1>3 DEF rows
    <2>2. ASSUME NEW v \in Workers, Live(v)', Carries(handler'[v])
          PROVE  handler'[v].loadedCard = card
      <3>1. CASE StartTurn(v) BY <3>1, CardStarts DEF Ground
      <3>2. CASE ~StartTurn(v)
        <4>1. Carries(handler[v]) /\ handler'[v].req = handler[v].req
              /\ handler'[v].loadedCard = handler[v].loadedCard
          BY <1>1, <2>2, <3>2, CardKept DEF Ground
        <4>2. Live(v) BY <1>3, <2>2, <4>1, SameRows DEF Live, Carries, Unanswered
        <4> QED BY <4>1, <4>2 DEF CardInv
      <3> QED BY <3>1, <3>2
    <2>3. CardDecidedOnce' BY <2>1 DEF CardInv, CardDecidedOnce
    <2> QED BY <1>2, <2>1, <2>2, <2>3 DEF CardInv
  <1>4. ASSUME NEW w \in Workers, Serve(w), Commit(w), Kind[handler[w].req] # "end"
        PROVE  CardInv'
    BY <1>2, <1>4, NoneLeft, CardCommits DEF CardInv
  <1>5. ASSUME NEW w \in Workers, Serve(w), Commit(w), Kind[handler[w].req] = "end"
        PROVE  CardInv'
    <2>1. card' = card /\ transcript' = transcript BY <1>5 DEF Commit
    <2>2. \A v \in Workers : Live(v)' => Live(v) /\ handler'[v] = handler[v]
      BY <1>5, CommitKeepsIds
    <2>3. CardDecidedOnce' BY <2>1 DEF CardInv, CardDecidedOnce
    <2> QED BY <1>2, <2>1, <2>2, <2>3 DEF CardInv
  <1> QED BY <1>3, <1>4, <1>5, ServedCommits

\* api/card.py: the card is decided once.  However often its request is repeated, one
\* entry of the transcript decides it, and it keeps the turn and the text of that one.
THEOREM CardIsDecidedOnce == OneBrowser => (PlaySpec => []CardDecidedOnce)
PROOF
  <1> SUFFICES ASSUME OneBrowser PROVE PlaySpec => []CardDecidedOnce OBVIOUS
  <1>1. PlayInit => CardInv
    <2> SUFFICES ASSUME PlayInit PROVE CardInv OBVIOUS
    <2>1. PICK played \in StartTurns : transcript = [t \in 1..played |-> PlayedEntry(t)]
      BY DEF PlayInit, Init
    <2>2. \A i \in DOMAIN transcript : transcript[i].kind = "player" BY <2>1 DEF PlayedEntry
    <2>3. ~card.decided BY DEF PlayInit, Init, BlankCard
    <2>4. \A w \in Workers : handler[w].pc = "free" BY DEF PlayInit, Init, Free
    <2> QED BY <2>2, <2>3, <2>4 DEF CardInv, CardDecidedOnce, CardOK, Carries
  <1>2. CardInv => CardDecidedOnce BY DEF CardInv
  <1> QED BY <1>1, <1>2, CardInvStep, PlayInvariant, GroundHolds, PTL DEF PlaySpec
-----------------------------------------------------------------------------
(* What the page shows *)

\* A page, and what it is about to show, is not ahead of the session.
NotAhead(view) ==
  /\ view.turns <= session.completed_turns
  /\ view.status # "in_progress" => session.status = view.status

PageOK(b) ==
  /\ b.view.loaded => NotAhead(b.view)
  /\ b.loading = "read" => NotAhead(b.fetched)

\* No answer is ahead of the session either.
ShownInv ==
  /\ \A d \in Devices : PageOK(device[d])
  /\ \A r \in Requests :
       /\ log[r].kind # "ended"
       /\ log[r].is_final_turn => session.status = "completed"

LEMMA ShownInit == PlayInit => ShownInv
PROOF
  <1> SUFFICES ASSUME PlayInit PROVE ShownInv OBVIOUS
  <1>1. session.completed_turns \in Nat
    BY TypeInit DEF PlayInit, TypeInv, TypeOK, Sessions, MAX_TURNS
  <1>2. \A r \in Requests : log[r].kind = "none" /\ ~log[r].is_final_turn
    BY DEF PlayInit, Init, NoReply, PlainReply
  <1>3. \A d \in Devices : device[d].view = SessionState /\ device[d].loading = "no"
    BY DEF PlayInit
  <1> QED BY <1>1, <1>2, <1>3 DEF ShownInv, PageOK, NotAhead, SessionState

\* The page after an answer.
LEMMA ShownDelivers ==
  ASSUME Ground, PlayInv, ShownInv, NEW d \in Devices, Deliver(d)
  PROVE  PageOK(Shown(device[d], handler[device[d].waiting].reply))
PROOF
  <1> DEFINE b == device[d]
             w == b.waiting
             answer == handler[w].reply
             c == Shown(b, answer)
  <1>1. b \in DeviceStates /\ PageOK(b) /\ w # NoWorker /\ w \in Workers
    BY DEF Ground, BrowserInv, ShownInv, Deliver, DeviceStates
  <1>2. b.loading = "no" BY <1>1 DEF PlayInv, Waits
  <1>3. c.loading = "no" BY <1>1, <1>2 DEF Shown, Unheard, DeviceStates
  <1> SUFFICES PageOK(c) OBVIOUS
  <1>4. CASE answer.kind = "turn"
    <2>1. /\ answer.completed_turns = session.completed_turns
          /\ b.pending.req = handler[w].req /\ b.pending.req \in Requests
      BY <1>1, <1>4, HeardTurn
    <2>2. log[b.pending.req] = answer
      BY <1>1, <1>4, <2>1 DEF Ground, AnnouncedIsStored
    <2>3. answer.is_final_turn => session.status = "completed" BY <2>1, <2>2 DEF ShownInv
    <2>4. /\ c.view.turns = answer.completed_turns
          /\ c.view.status = IF answer.is_final_turn THEN "completed" ELSE b.view.status
      BY <1>1, <1>4 DEF Shown, DeviceStates, Views
    <2>5. session.completed_turns \in Nat
      BY DEF Ground, TypeInv, TypeOK, Sessions, MAX_TURNS
    <2>6. b.view.loaded = c.view.loaded BY <1>1, <1>4 DEF Shown, DeviceStates, Views
    <2> HIDE DEF c
    <2> QED BY <1>1, <1>3, <2>1, <2>3, <2>4, <2>5, <2>6 DEF PageOK, NotAhead
  <1>5. CASE answer.kind = "ended"
    <2>1. handler[w].pc # "free" BY <1>1 DEF PlayInv, Waits
    <2>2. handler[w].req \in Requests BY <1>1, <2>1 DEF Ground, TypeInv, WorkerOK
    <2>3. log[handler[w].req] = answer BY <1>1, <1>5 DEF Ground, AnnouncedIsStored
    <2> QED BY <1>5, <2>2, <2>3 DEF ShownInv
  <1>6. CASE answer.kind \notin {"turn", "ended"}
    <2>1. c.view = b.view BY <1>1, <1>6 DEF Shown, Unheard, DeviceStates
    <2> HIDE DEF c
    <2> QED BY <1>1, <1>3, <2>1 DEF PageOK
  <1> QED BY <1>4, <1>5, <1>6

LEMMA ShownStep == Ground /\ PlayInv /\ NoEarlyEnd /\ ShownInv /\ [PlayNext]_playVars => ShownInv'
PROOF
  <1> SUFFICES ASSUME Ground, PlayInv, NoEarlyEnd, ShownInv, [PlayNext]_playVars PROVE ShownInv'
    OBVIOUS
  <1>1. session.completed_turns \in Nat BY DEF Ground, TypeInv, TypeOK, Sessions, MAX_TURNS
  <1>2. device \in [Devices -> DeviceStates] BY DEF Ground, BrowserInv
  <1>3. ASSUME NEW w \in Workers, Serve(w), Commit(w) PROVE ShownInv'
    <2> DEFINE q == handler[w].req
    <2>1. device' = device BY <1>3 DEF Serve, browserVars
    <2>2. /\ session.status = "in_progress"
          /\ session'.completed_turns = session.completed_turns + 1
          /\ session.completed_turns + 1 = MAX_TURNS => session'.status = "completed"
          /\ Kind[q] # "end"
      BY <1>3, TurnCommitsNow
    <2>3. \A d \in Devices :
            LET b == device[d]
            IN  /\ b.view.loaded => b.view.turns <= session.completed_turns + 1
                                    /\ b.view.status = "in_progress"
                /\ b.loading = "read" => b.fetched.turns <= session.completed_turns + 1
                                         /\ b.fetched.status = "in_progress"
      <3> SUFFICES ASSUME NEW d \in Devices
                   PROVE  LET b == device[d]
                          IN  /\ b.view.loaded => b.view.turns <= session.completed_turns + 1
                                                  /\ b.view.status = "in_progress"
                              /\ b.loading = "read" => b.fetched.turns <= session.completed_turns + 1
                                                       /\ b.fetched.status = "in_progress"
        OBVIOUS
      <3>1. device[d].view.turns \in Nat /\ device[d].fetched.turns \in Nat
        BY <1>2 DEF DeviceStates, Views, MAX_TURNS
      <3> QED BY <1>1, <2>2, <3>1 DEF ShownInv, PageOK, NotAhead
    <2>4. \A r \in Requests :
            log'[r].kind # "ended" /\ (log'[r].is_final_turn => session'.status = "completed")
      <3>1. /\ log'[q] = Snapshot(w)
            /\ \A r \in Requests \ {q} : log'[r] = log[r]
        BY <1>3, CommitStores DEF Ground
      <3>2. Snapshot(w).kind = "turn" /\ Snapshot(w).completed_turns = session.completed_turns + 1
        BY <1>3, <2>2, TurnCommits
      <3>3. Snapshot(w).is_final_turn <=> Snapshot(w).completed_turns = MAX_TURNS
        BY <2>2 DEF Snapshot
      <3>4. \A r \in Requests : ~log[r].is_final_turn BY <2>2 DEF ShownInv
      <3> QED BY <2>2, <3>1, <3>2, <3>3, <3>4 DEF ShownInv
    <2> QED BY <2>1, <2>2, <2>3, <2>4 DEF ShownInv, PageOK, NotAhead
  <1>4. CASE UNCHANGED rows
    <2>1. session' = session /\ log' = log BY <1>4 DEF rows
    <2> SUFFICES \A d \in Devices : PageOK(device'[d])
      BY <2>1 DEF ShownInv, PageOK, NotAhead
    <2>2. ASSUME NEW d \in Devices, BrowserStep(d), NEW e \in Devices PROVE PageOK(device'[e])
      <3> DEFINE b == device[d]
      <3>1. e = d /\ b \in DeviceStates /\ PageOK(b)
        BY <1>2 DEF PlayInv, OneBrowser, ShownInv
      <3>2. CASE Deliver(d)
        <4>1. device'[d] = Shown(b, handler[b.waiting].reply) BY <1>2, <3>2 DEF Deliver
        <4> QED BY <3>1, <3>2, <4>1, ShownDelivers
      <3>3. CASE FinishLoad(d)
        <4>1. b.loading = "read" /\ device'[d].view = b.fetched /\ device'[d].loading = "no"
          BY <1>2, <3>1, <3>3 DEF FinishLoad, DeviceStates
        <4> QED BY <3>1, <4>1 DEF PageOK
      <3>4. CASE FetchState(d)
        <4>1. device'[d].view = b.view /\ device'[d].fetched = SessionState
          BY <1>2, <3>1, <3>4 DEF FetchState, DeviceStates
        <4> QED BY <1>1, <3>1, <4>1 DEF PageOK, NotAhead, SessionState
      <3>5. CASE Reload(d)
        <4>1. device'[d].view = NothingShown /\ device'[d].loading = "asked"
          BY <1>2, <3>1, <3>5 DEF Reload, Unheard, DeviceStates
        <4> QED BY <3>1, <4>1 DEF PageOK, NothingShown
      <3>6. ASSUME device'[d].view = b.view, device'[d].fetched = b.fetched,
                   device'[d].loading \in {b.loading, "asked"}
            PROVE  PageOK(device'[d])
        BY <3>1, <3>6 DEF PageOK
      <3>7. CASE Timeout(d) \/ LeaveAndReturn(d)
        BY <1>2, <3>1, <3>6, <3>7 DEF Timeout, Unheard, LeaveAndReturn, DeviceStates
      <3>8. ASSUME NEW w \in Workers, NEW r \in Requests, Submit(d, r, w) PROVE PageOK(device'[d])
        BY <1>2, <3>1, <3>6, <3>8 DEF Submit, Send, DeviceStates
      <3>9. ASSUME NEW w \in Workers, NEW r \in Requests, EndStory(d, r, w) PROVE PageOK(device'[d])
        BY <1>2, <3>1, <3>6, <3>9 DEF EndStory, Send, DeviceStates
      <3>10. ASSUME NEW w \in Workers, Retry(d, w) PROVE PageOK(device'[d])
        BY <1>2, <3>1, <3>6, <3>10 DEF Retry, Send, DeviceStates
      <3> QED BY <2>2, <3>1, <3>2, <3>3, <3>4, <3>5, <3>7, <3>8, <3>9, <3>10 DEF BrowserStep
    <2>3. CASE device' = device BY <2>3 DEF ShownInv
    <2>4. CASE Restart
      <3> SUFFICES ASSUME NEW d \in Devices PROVE PageOK(device'[d]) OBVIOUS
      <3>1. /\ device'[d].view = device[d].view /\ device'[d].fetched = device[d].fetched
            /\ device'[d].loading = device[d].loading
        BY <1>2, <2>4 DEF Restart, Unheard, DeviceStates
      <3> QED BY <3>1 DEF ShownInv, PageOK
    <2> QED BY <2>2, <2>3, <2>4 DEF PlayNext, playVars, browserVars, Serve, Drop
  <1> QED BY <1>3, <1>4, ServedCommits

\* App.tsx: with one browser and no early end, whatever answers are lost, late or
\* repeated, the page shows no turn that is not committed and no end that did not happen.
THEOREM PageShowsCommitted == OneBrowser /\ NoEarlyEnd => (PlaySpec => []ShownIsCommitted)
PROOF
  <1> SUFFICES ASSUME OneBrowser, NoEarlyEnd PROVE PlaySpec => []ShownIsCommitted OBVIOUS
  <1>1. Ground /\ PlayInv /\ ShownInv /\ [PlayNext]_playVars => ShownInv' BY ShownStep
  <1>2. ShownInv => ShownIsCommitted BY DEF ShownInv, PageOK, NotAhead, ShownIsCommitted
  <1> QED BY <1>1, <1>2, ShownInit, PlayInvariant, GroundHolds, PTL DEF PlaySpec
-----------------------------------------------------------------------------
(* What happened *)

\* Somebody ended the story early.
EndedByRequest == \E r \in Requests : log[r].kind = "ended"

\* The turn a page shows is in the transcript, and the end it shows was committed.
Happened(v) ==
  /\ Reached(v.turns)
  /\ v.status = "completed" => Reached(MAX_TURNS)
  /\ v.status = "ended_early" => EndedByRequest

\* So it is with all a page has to show: now, after a load, after its end request.
Told(b) == Happened(b.view) /\ Happened(b.fetched) /\ Reached(b.sent)

\* And with what is committed, and stored as an answer.
HappenedInv ==
  /\ \A d \in Devices : Told(device[d])
  /\ session.status = "completed" => Reached(MAX_TURNS)
  /\ session.status = "ended_early" => EndedByRequest
  /\ \A r \in Requests :
       log[r].kind = "turn" =>
         /\ Reached(log[r].completed_turns)
         /\ log[r].is_final_turn => Reached(MAX_TURNS)

\* At the start a page shows the session as it is.
LEMMA HappenedInit == PlayInit => HappenedInv
PROOF
  <1> SUFFICES ASSUME PlayInit PROVE HappenedInv OBVIOUS
  <1>1. SkipInv BY SkipInit DEF PlayInit
  <1>2. session.status = "in_progress" BY DEF PlayInit, Init, NewSession
  <1>3. \A r \in Requests : log[r].kind = "none" BY DEF PlayInit, Init, NoReply, PlainReply
  <1>4. \A d \in Devices : /\ device[d].view = SessionState /\ device[d].fetched = NothingShown
                            /\ device[d].sent = 0
    BY DEF PlayInit
  <1>5. Happened(SessionState) BY <1>1, <1>2 DEF SkipInv, Happened, SessionState
  <1>6. Happened(NothingShown) BY DEF Happened, Reached, NothingShown
  <1> QED BY <1>2, <1>3, <1>4, <1>5, <1>6 DEF HappenedInv, Told, Reached

\* A commit takes no turn and no early end back, and adds the turn it announces.
LEMMA CommitReaches ==
  ASSUME Ground, NEW w \in Workers, Commit(w)
  PROVE  /\ \A n : Reached(n) => Reached(n)'
         /\ EndedByRequest => EndedByRequest'
         /\ Kind[handler[w].req] # "end" =>
              \E j \in DOMAIN transcript' : transcript'[j].turn = handler[w].row.completed_turns
PROOF
  <1> DEFINE h == handler[w]
             q == h.req
             last == Len(transcript) + 1
  <1>1. \A n : Reached(n) => Reached(n)'
    <2>1. CASE Kind[q] = "end" BY <2>1 DEF Commit, Reached
    <2>2. CASE Kind[q] # "end"
      <3>1. /\ DOMAIN transcript' = DOMAIN transcript \cup {last}
            /\ \A i \in DOMAIN transcript : transcript'[i] = transcript[i]
        BY <2>2, CommitAppends DEF Ground
      <3> HIDE DEF last
      <3> QED BY <3>1 DEF Reached
    <2> QED BY <2>1, <2>2
  <1>2. EndedByRequest => EndedByRequest'
    <2>1. q \in Requests /\ log[q].kind = "none" /\ \A r \in Requests \ {q} : log'[r] = log[r]
      BY CommitStores DEF Ground
    <2> QED BY <2>1 DEF EndedByRequest
  <1>3. ASSUME Kind[q] # "end"
        PROVE  \E j \in DOMAIN transcript' : transcript'[j].turn = h.row.completed_turns
    <2>1. NewEntry(w).turn = h.row.completed_turns BY DEF NewEntry
    <2>2. /\ DOMAIN transcript' = DOMAIN transcript \cup {last}
          /\ transcript'[last] = NewEntry(w)
      BY <1>3, CommitAppends DEF Ground
    <2> HIDE DEF last
    <2> QED BY <2>1, <2>2
  <1> QED BY <1>1, <1>2, <1>3

\* A commit writes an end on the session only together with the row it follows from.
LEMMA HappenedCommits ==
  ASSUME Ground, HappenedInv, NEW w \in Workers, Commit(w)
  PROVE  /\ session'.status = "completed" => Reached(MAX_TURNS)'
         /\ session'.status = "ended_early" => EndedByRequest'
         /\ \A r \in Requests :
              log'[r].kind = "turn" =>
                /\ Reached(log[r].completed_turns)'
                /\ log'[r].is_final_turn => Reached(MAX_TURNS)'
PROOF
  <1> DEFINE h == handler[w]
             q == h.req
  <1>1. /\ q \in Requests /\ log'[q] = Snapshot(w)
        /\ \A r \in Requests \ {q} : log'[r] = log[r]
    BY CommitStores DEF Ground
  <1>2. PICK n : n = h.row.completed_turns OBVIOUS
  <1>3. Kind[q] # "end" => Reached(n)' BY <1>2, CommitReaches DEF Reached
  <1>4. PICK max : max = MAX_TURNS OBVIOUS
  <1>5. Reached(max) => Reached(max)' BY CommitReaches
  <1>6. Kind[q] = "end" => EndedByRequest'
    BY <1>1 DEF EndedByRequest, Snapshot, PlainReply
  <1>7. RowOK(h) /\ h.pc = "writing" BY DEF Ground, RowInv, Commit, At
  <1>8. session'.status = Column(session.status, h.loaded.status, h.row.status)
    BY DEF Commit, UpdatedSession
  <1>9. \/ session'.status = session.status
        \/ Kind[q] = "end" /\ session'.status = "ended_early"
        \/ Kind[q] # "end" /\ n = MAX_TURNS /\ session'.status = "completed"
    <2>1. CASE Kind[q] = "end" BY <1>7, <1>8, <2>1 DEF RowOK, Column
    <2>2. CASE Kind[q] # "end" /\ NextTurn(h) # MAX_TURNS
      BY <1>7, <1>8, <2>2 DEF RowOK, SameEnd, Column
    <2>3. CASE Kind[q] # "end" /\ NextTurn(h) = MAX_TURNS
      BY <1>2, <1>7, <1>8, <2>3 DEF RowOK, Column
    <2> QED BY <2>1, <2>2, <2>3
  <1>10. session'.status = "completed" => Reached(max)'
    BY <1>3, <1>4, <1>5, <1>9 DEF HappenedInv
  <1>11. session'.status = "ended_early" => EndedByRequest'
    BY <1>6, <1>9, CommitReaches DEF HappenedInv
  <1>12. ASSUME NEW r \in Requests, log'[r].kind = "turn"
         PROVE  Reached(log[r].completed_turns)' /\ (log'[r].is_final_turn => Reached(max)')
    <2>1. CASE r = q
      <3>1. Kind[q] # "end" BY <1>1, <1>12, <2>1 DEF Snapshot, PlainReply
      <3>2. /\ Snapshot(w).completed_turns = h.row.completed_turns
            /\ Snapshot(w).is_final_turn <=> h.row.completed_turns = MAX_TURNS
        BY <3>1 DEF Snapshot
      <3>3. log'[r].completed_turns = n /\ (log'[r].is_final_turn => n = max)
        BY <1>1, <1>2, <1>4, <2>1, <3>2
      <3> QED BY <1>3, <3>1, <3>3 DEF Reached
    <2>2. CASE r # q
      <3>1. log'[r] = log[r] BY <1>1, <2>2
      <3>2. PICK m : m = log[r].completed_turns OBVIOUS
      <3>3. Reached(m) /\ (log[r].is_final_turn => Reached(max))
        BY <1>4, <1>12, <3>1, <3>2 DEF HappenedInv
      <3>4. Reached(m)' BY <3>3, CommitReaches
      <3> QED BY <1>5, <3>1, <3>2, <3>3, <3>4 DEF Reached
    <2> QED BY <2>1, <2>2
  <1> QED BY <1>4, <1>10, <1>11, <1>12 DEF Reached

\* What happened stays so when a handler commits.
LEMMA HappenedServed ==
  ASSUME Ground, HappenedInv, NEW w \in Workers, Serve(w), Commit(w)
  PROVE  HappenedInv'
PROOF
  <1>1. device' = device BY DEF Serve, browserVars
  <1>2. PICK max : max = MAX_TURNS OBVIOUS
  <1>3. ASSUME NEW v, Happened(v) PROVE Happened(v)'
    <2>1. PICK n : n = v.turns OBVIOUS
    <2>2. Reached(n)' /\ (Reached(max) => Reached(max)') /\ (EndedByRequest => EndedByRequest')
      BY <1>3, <2>1, CommitReaches DEF Happened
    <2> QED BY <1>2, <1>3, <2>1, <2>2 DEF Happened, Reached
  <1>4. ASSUME NEW d \in Devices
        PROVE  Told(device[d])'
    <2>1. PICK v, f, n : v = device[d].view /\ f = device[d].fetched /\ n = device[d].sent OBVIOUS
    <2>2. Happened(v) /\ Happened(f) /\ Reached(n) BY <2>1 DEF HappenedInv, Told
    <2>3. Happened(v)' /\ Happened(f)' BY <1>3, <2>2
    <2>4. Reached(n)' BY <2>2, CommitReaches
    <2> QED BY <1>1, <2>1, <2>3, <2>4 DEF Happened, Told, Reached
  <1> QED BY <1>4, HappenedCommits DEF HappenedInv

\* The page after an answer: what the answer tells of is stored, so it happened.
LEMMA HappenedDelivers ==
  ASSUME Ground, HappenedInv, NEW d \in Devices, Deliver(d)
  PROVE  Told(Shown(device[d], handler[device[d].waiting].reply))
PROOF
  <1> DEFINE b == device[d]
             w == b.waiting
             answer == handler[w].reply
             c == Shown(b, answer)
  <1>1. b \in DeviceStates /\ Told(b) /\ w \in Workers
    BY DEF Ground, BrowserInv, HappenedInv, Deliver, DeviceStates
  <1>2. handler[w].req \in Requests BY <1>1 DEF Ground, TypeInv, WorkerOK, Deliver, Release, At
  <1>3. answer.kind \in {"turn", "ended"} => log[handler[w].req] = answer
    BY <1>1 DEF Ground, AnnouncedIsStored
  <1> SUFFICES Told(c) OBVIOUS
  <1>4. CASE answer.kind = "turn"
    <2>1. Reached(answer.completed_turns) /\ (answer.is_final_turn => Reached(MAX_TURNS))
      BY <1>2, <1>3, <1>4 DEF HappenedInv
    <2>2. /\ c.view.turns = answer.completed_turns /\ c.fetched = b.fetched /\ c.sent = 0
          /\ c.view.status = IF answer.is_final_turn THEN "completed" ELSE b.view.status
      BY <1>1, <1>4 DEF Shown, DeviceStates, Views
    <2> HIDE DEF c
    <2> QED BY <1>1, <2>1, <2>2 DEF Told, Happened, Reached
  <1>5. CASE answer.kind = "ended"
    <2>1. EndedByRequest BY <1>2, <1>3, <1>5 DEF EndedByRequest
    <2>2. /\ c.view.turns = b.sent /\ c.fetched = b.fetched /\ c.sent = 0
          /\ c.view.status = "ended_early"
      BY <1>1, <1>5 DEF Shown, DeviceStates, Views
    <2> HIDE DEF c
    <2> QED BY <1>1, <2>1, <2>2 DEF Told, Happened, Reached
  <1>6. CASE answer.kind \notin {"turn", "ended"}
    <2>1. c.view = b.view /\ c.fetched = b.fetched /\ c.sent = 0
      BY <1>1, <1>6 DEF Shown, Unheard, DeviceStates
    <2> HIDE DEF c
    <2> QED BY <1>1, <2>1 DEF Told, Reached
  <1> QED BY <1>4, <1>5, <1>6

\* A step of a page.
LEMMA HappenedPage ==
  ASSUME Ground, SkipInv, HappenedInv, NEW d \in Devices, BrowserStep(d)
  PROVE  /\ Told(device'[d])
         /\ \A e \in Devices \ {d} : device'[e] = device[e]
         /\ UNCHANGED rows
PROOF
  <1> DEFINE b == device[d]
  <1>1. device \in [Devices -> DeviceStates] /\ b \in DeviceStates /\ Told(b)
    BY DEF Ground, BrowserInv, HappenedInv
  <1> SUFFICES \E c : Told(c) /\ device' = [device EXCEPT ![d] = c] /\ UNCHANGED rows
    BY <1>1
  <1>2. Happened(NothingShown) BY DEF Happened, Reached, NothingShown
  <1>3. Reached(0) BY DEF Reached
  <1>4. CASE Deliver(d)
    <2>1. UNCHANGED rows BY <1>4 DEF Deliver, Release
    <2>2. device' = [device EXCEPT ![d] = Shown(b, handler[b.waiting].reply)]
      BY <1>4 DEF Deliver
    <2> QED BY <1>4, <2>1, <2>2, HappenedDelivers
  <1>5. CASE Timeout(d)
    <2>1. Told(Unheard(b)) BY <1>1, <1>3 DEF Told, Unheard, DeviceStates
    <2> QED BY <1>5, <2>1 DEF Timeout, vars, rows
  <1>6. CASE Reload(d)
    <2> DEFINE c == [Unheard(b) EXCEPT !.view = NothingShown, !.loading = "asked"]
    <2>1. Told(c) BY <1>1, <1>2, <1>3 DEF Told, Unheard, DeviceStates
    <2>2. device' = [device EXCEPT ![d] = c] /\ UNCHANGED rows BY <1>6 DEF Reload, vars, rows
    <2> QED BY <2>1, <2>2
  <1>7. CASE LeaveAndReturn(d)
    <2> DEFINE c == [b EXCEPT !.loading = "asked"]
    <2>1. Told(c) BY <1>1 DEF Told, DeviceStates
    <2>2. device' = [device EXCEPT ![d] = c] /\ UNCHANGED rows
      BY <1>7 DEF LeaveAndReturn, vars, rows
    <2> QED BY <2>1, <2>2
  <1>8. CASE FetchState(d)
    <2> DEFINE c == [b EXCEPT !.loading = "read", !.fetched = SessionState]
    <2>1. Happened(SessionState) BY DEF SkipInv, HappenedInv, Happened, SessionState
    <2>2. Told(c) BY <1>1, <2>1 DEF Told, DeviceStates
    <2>3. device' = [device EXCEPT ![d] = c] /\ UNCHANGED rows
      BY <1>1, <1>8 DEF FetchState, DeviceStates, vars, rows
    <2> QED BY <2>2, <2>3
  <1>9. CASE FinishLoad(d)
    <2> DEFINE p == IF StillPending(b) THEN b.pending ELSE NothingPending
               c == [b EXCEPT !.loading = "no", !.fetched = NothingShown, !.view = b.fetched,
                              !.pending = p]
    <2>1. Told(c) BY <1>1, <1>2 DEF Told, DeviceStates
    <2>2. device' = [device EXCEPT ![d] = c] /\ UNCHANGED rows
      BY <1>9 DEF FinishLoad, vars, rows
    <2> QED BY <2>1, <2>2
  <1>10. ASSUME NEW w \in Workers, NEW r, NEW c, Told([c EXCEPT !.waiting = w]), Send(d, r, w, c)
         PROVE  \E a : Told(a) /\ device' = [device EXCEPT ![d] = a] /\ UNCHANGED rows
    BY <1>10 DEF Send, Receive
  <1>11. ASSUME NEW w \in Workers, NEW r \in Requests, Submit(d, r, w)
         PROVE  \E a : Told(a) /\ device' = [device EXCEPT ![d] = a] /\ UNCHANGED rows
    <2> DEFINE c == [b EXCEPT !.pending = [req |-> r, turn |-> b.view.turns + 1]]
    <2>1. Told([c EXCEPT !.waiting = w]) BY <1>1 DEF Told, DeviceStates
    <2>2. Send(d, r, w, c) BY <1>11 DEF Submit
    <2> HIDE DEF c
    <2> QED BY <2>1, <2>2, <1>10
  <1>12. ASSUME NEW w \in Workers, NEW r \in Requests, EndStory(d, r, w)
         PROVE  \E a : Told(a) /\ device' = [device EXCEPT ![d] = a] /\ UNCHANGED rows
    <2> DEFINE c == [b EXCEPT !.endRequest = r, !.sent = b.view.turns]
    <2>1. Told([c EXCEPT !.waiting = w]) BY <1>1 DEF Told, Happened, DeviceStates
    <2>2. Send(d, r, w, c) BY <1>12 DEF EndStory
    <2> HIDE DEF c
    <2> QED BY <2>1, <2>2, <1>10
  <1>13. ASSUME NEW w \in Workers, Retry(d, w)
         PROVE  \E a : Told(a) /\ device' = [device EXCEPT ![d] = a] /\ UNCHANGED rows
    <2>1. Told([b EXCEPT !.waiting = w]) BY <1>1 DEF Told, DeviceStates
    <2>2. Send(d, b.pending.req, w, b) BY <1>13 DEF Retry
    <2> QED BY <2>1, <2>2, <1>10
  <1> QED BY <1>4, <1>5, <1>6, <1>7, <1>8, <1>9, <1>11, <1>12, <1>13 DEF BrowserStep

\* What happened stays so at every step of the pages and the server.
LEMMA HappenedStep == Ground /\ SkipInv /\ HappenedInv /\ [PlayNext]_playVars => HappenedInv'
PROOF
  <1> SUFFICES ASSUME Ground, SkipInv, HappenedInv, [PlayNext]_playVars PROVE HappenedInv'
    OBVIOUS
  <1>1. ASSUME NEW w \in Workers, Serve(w), Commit(w) PROVE HappenedInv'
    BY <1>1, HappenedServed
  <1>2. CASE UNCHANGED rows
    <2>1. session' = session /\ transcript' = transcript /\ log' = log BY <1>2 DEF rows
    <2>2. ASSUME NEW v, Happened(v) PROVE Happened(v)'
      BY <2>1, <2>2 DEF Happened, Reached, EndedByRequest
    <2>3. \A r \in Requests : log'[r].kind = "turn" =>
            Reached(log[r].completed_turns)' /\ (log'[r].is_final_turn => Reached(MAX_TURNS)')
      BY <2>1 DEF HappenedInv, Reached
    <2>4. /\ session'.status = "completed" => Reached(MAX_TURNS)'
          /\ session'.status = "ended_early" => EndedByRequest'
      BY <2>1 DEF HappenedInv, Reached, EndedByRequest
    <2>5. ASSUME NEW e \in Devices PROVE Told(device'[e])
      <3>1. Told(device[e]) BY DEF HappenedInv
      <3>2. ASSUME NEW d \in Devices, BrowserStep(d) PROVE Told(device'[e])
        <4>1. CASE e = d BY <3>2, <4>1, HappenedPage
        <4>2. CASE e # d
          <5>1. device'[e] = device[e] BY <3>2, <4>2, HappenedPage
          <5> QED BY <3>1, <5>1
        <4> QED BY <4>1, <4>2
      <3>3. CASE device' = device BY <3>1, <3>3
      <3>4. CASE Restart
        <4>1. device'[e] = Unheard(device[e]) BY <3>4 DEF Restart
        <4>2. device[e] \in DeviceStates BY DEF Ground, BrowserInv
        <4> QED BY <3>1, <4>1, <4>2 DEF Told, Reached, Unheard, DeviceStates
      <3> QED BY <3>2, <3>3, <3>4 DEF PlayNext, playVars, browserVars, Serve, Drop
    <2>6. ASSUME NEW e \in Devices
          PROVE  Told(device[e])'
      <3>1. PICK v, f, n : v = device'[e].view /\ f = device'[e].fetched /\ n = device'[e].sent
        OBVIOUS
      <3>2. Happened(v) /\ Happened(f) /\ Reached(n) BY <2>5, <3>1 DEF Told
      <3>3. Happened(v)' /\ Happened(f)' BY <2>2, <3>2
      <3>4. Reached(n)' BY <2>1, <3>2 DEF Reached
      <3> QED BY <3>1, <3>3, <3>4 DEF Told, Happened, Reached
    <2> QED BY <2>3, <2>4, <2>6 DEF HappenedInv
  <1> QED BY <1>1, <1>2, ServedCommits

\* The count of the session is a turn of the transcript in every reachable state.
LEMMA SkipInvariant == Spec => []SkipInv
PROOF
  <1> QED BY SkipInit, SkipStep, TypeInvariant, RowInvariant, PTL DEF Spec

\* App.tsx: whoever plays from however many devices, leaves and returns, retries, ends
\* early or loses answers: a page shows no turn that nobody took and no end that did not
\* happen.  No assumption on the browsers is needed.
THEOREM PageShowsHistory == PlaySpec => []ShownHappened
PROOF
  <1>1. HappenedInv => ShownHappened
    <2> SUFFICES ASSUME HappenedInv, NEW d \in Devices
                 PROVE  LET v == device[d].view
                        IN  /\ v.turns > 0 => \E i \in DOMAIN transcript :
                                                transcript[i].turn = v.turns
                            /\ v.status = "completed" => \E i \in DOMAIN transcript :
                                                           transcript[i].turn = MAX_TURNS
                            /\ v.status = "ended_early" => EndedByRequest
      BY DEF ShownHappened, EndedByRequest
    <2> QED BY DEF HappenedInv, Told, Happened, Reached, MAX_TURNS
  <1> QED BY <1>1, HappenedInit, HappenedStep, SkipInvariant, GroundHolds, ServerInPlay, PTL
             DEF PlaySpec
================================================================================
