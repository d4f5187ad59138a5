# A verification project for The Last Bookmark

The Last Bookmark is a story played in twelve turns. A React page sends what the
player says to a FastAPI server; the server calls a language model, decides which of
the events it proposes become facts, keeps everything in PostgreSQL and has images
painted in the background. This directory holds TLA+ models of that system, the TLC
configurations that check them on small instances and TLAPS proofs of theorems
about them. Paths below are relative to the repository (`backend/app/` and
`frontend/src/` are its two halves).

## 1. The system

### Components

| component | code | state | operations |
| --- | --- | --- | --- |
| Scene table | `engine/scene.py`, `lib/history.ts` | none: twelve turns with story time and scene, changes of scene after 3, 6, 9 | look-ups; the browser's own formula for past turns |
| World state | `engine/state.py` | the fact columns of the session row | thirteen appliers, `confirm_proposed_events` |
| Playthrough server | `api/turns.py`, `api/card.py`, `api/end.py`, `api/idempotency.py`, `api/common.py`, `db.py`, `models.py` | session row, card row, messages, confirmed events, `requests` table | `submit_turn`, `submit_card`, `end_early`, `get_session_state` |
| Ending text | `engine/ending.py` | title, body and evidence columns | `select_evidence`, `finalize_ending_text`, the image slots and the validated direction |
| Ending image | `api/ending.py`, `_run_ending_image_job` in `api/turns.py` | `image_jobs`, `images`, `ending_image_id` | job, `get_ending`, `retry_ending_image` |
| Portrait and scene images | `api/sessions.py`, `images/service.py` | `portrait_image_id`, retry count, `portrait_confirmed`, scene jobs, files | `create_session`, `retry_portrait`, `start_session`, the background scene worker |
| Session slots | `api/sessions.py`, `engine/session_admin.py` | sessions of a code, their index, the budget | create, list, delete |
| Entry | `api/rate_limit.py`, `auth.py`, `config.py` | attempts, failures, blocks in memory; token life | `verify_code` |
| Language model client | `llm/client.py`, `llm/contracts.py` | none | three attempts, then a degraded reply |
| Appearance page | `App.tsx`, `screens/Appearance.tsx` | the draft with its unanswered request id (also in local storage), what is shown and offered again | redraw, start, leave, reopen |
| Story page | `App.tsx`, `api/client.ts`, `screens/Conversation.tsx` | the request gate, the pending request (also in local storage), the end request's id, what is shown | send, card, end, retry, load, leave |
| Usage, admin, screens, mock server | `usage.py`, `api/admin.py`, other screens | append-only log | reporting and layout |

### How they interact

A handler is a synchronous function in a thread of one uvicorn process, and one
database transaction at READ COMMITTED. The session factory sets `autoflush=False`
and `expire_on_commit=False`: a query does not see what the handler has added and
not flushed, and a row is read once. An UPDATE carries only the columns whose value
changed since the row was read. Background tasks run after the answer, in the same
process, and are lost when it dies. The browser aborts a request after 45 seconds;
the server does not notice. A request id made by the browser names a turn, card,
end, create or portrait request; the primary key of `requests` admits one stored
answer for each, and the answers of a session go when the session is deleted.

A code admits a player (`verify_code`), who creates a session (`create_session`), looks
at its portrait and redraws or starts it (`retry_portrait`, `start_session`), plays twelve
turns, and is told an ending whose picture is painted afterwards. The creation, a redraw
and an ending leave work to the background, which meets later requests of the player on
the same rows and files. Three dictionaries in the memory of the process hold the attempts
of each address; the threads that share them take no lock.

### What is hard

Several seconds of language model lie between the row a handler reads and the row it
writes. In them another handler may run and commit: the same request retried, the
next request of a page that believes the first one failed, the early end, another
browser of the same player. The process may die anywhere. The page loads the session
while its own request is under way. The images are painted from what was true when
the job started. `PROJECT.json` lists each such hazard at its line, with the
properties that would catch it.

### What makes each component correct

- Scene table: the browser and the server agree on the scene of every turn.
- World state: the facts are explained by the confirmed events, replayed in order.
- Playthrough server: a request counts once; what is announced is stored; turns come
  one by one and none is skipped; the card is decided once; nothing changes after the
  end.
- Ending text: each quotation is of words that led to a confirmed event, no more than
  five, the earliest first, and none is missed.
- Story page: an unanswered request is never lost, the page never shows what did not
  happen, the player is never stuck.
- Images: an image row has its file, a deleted session stays deleted, a scene has one
  image and none is left out, redraws are counted and a started story keeps its portrait,
  an ending has its picture or can be retried, and the page shows which.
- Ending direction: the picture shows who was there, what was given and what was agreed as
  it was confirmed, and no direction the model proposes fails for want of a phrase; an
  ending is told however bad the answers of the model are.
- Session slots: an answer names the session of its request, the budget is passed by no
  more than the creations in flight, numbers do not collide without a race.
- Entry: limits are passed by no more than the attempts in flight, and nobody who knows
  the code is shut out for good.

## 2. The modules

```
Scene <- WorldState <- Turns <- Play <- MCPlay     Play instantiates Story
                  |      |       ^--- Play_proofs (extends Turns_proofs too) <- Facts_proofs
                  |      ^--- MCTurns, Turns_proofs
                  +--- EndingDirection --+
EndingImage -----------------------------+-- EndingText <- MCEnding
     ^--- EndingImage_proofs ------------+------ ^--- EndingText_proofs
Portrait <- MCPortrait
     ^--- Appearance <- MCAppearance, Portrait_proofs
SessionSlots <- SessionSlots_proofs
RateLimit <- RateLimit_proofs
```

An arrow points to a module that is extended. The images are painted outside the handlers
of the story and touch rows of their own, so they have modules of their own.
`EndingText` composes the facts of the story with `EndingImage`. What one module takes for
granted of another is named where it is taken: `SessionSlots` ends with the row and the
job with which `Portrait` begins, `Turns!scheduled` is the job with which `EndingImage`
begins, and `EndingText` uses `Play!EndedIsFrozen` when it keeps the facts of an ended
story. The last holds of a browser without the early end; where the end races a turn
(finding 2) a turn may change the facts after the slots were computed.

**Scene** is `_TURN_TABLE`, `_TRANSITIONS_AFTER` and `get_turn_info`, with story time
in minutes after 20:00, and `RestoredScene`, the formula of `lib/history.ts:35`.

**WorldState** has the seven fact columns as a record, `Admissible` (the test of each
applier) and `Applied` (its assignment). The only text that is a fact is the plan for
another meeting; texts are members of `Plans`, and `NoPlan` is a missing or blank one.

**Turns** is the server. A variable is a table: `session` and `card` are rows,
`transcript` has one entry for each committed turn (its player or card message and the
events it confirmed; replies, narration and record cards are written in the same
transaction and carry nothing the properties tell apart), `log` is `requests`,
`scheduled` the requests that left an ending-image job. `handler[w]` is what worker
`w` is doing. A step ends where the code reads shared rows or waits:

| action | code |
| --- | --- |
| `Receive`, `LoadSession` | FastAPI gives the request a thread; `_get_owned_session` reads the row |
| `Answer`, `Miss` | `get_cached_response` |
| `Refuse` | the 409 and 422 checks of the three handlers |
| `StartTurn` | the turn number from the loaded row, the card read and, for a card request, decided on the object |
| `Generate` | the language model proposes any list of `Proposals`, or `Fail` |
| `ConfirmNext` | one iteration of `confirm_proposed_events` |
| `FinishTurn` | clock, scene, count; for turn 12 `_finalize_turn12` with the evidence query |
| `StartEnd` | `end_early` up to the ending text |
| `Commit`, `Conflict` | `store_response` and the commit, or the violated primary key |
| `Crash`, `Release` | the process dies; the answer leaves |

`UpdatedSession` and `UpdatedCard` are the UPDATE: a changed column is written, an
unchanged one keeps what is committed now. That is how two handlers that loaded the
same row merge, and how lost updates happen. `SelectEvidence` is given the entries the
query sees; `FinishTurn` passes the committed entries, because the confirmed events of
the handler are not flushed, and `Quotable`, because its player message is.

The environment of `Turns` is open: any request, any time, any number of times. What
`Turns` promises is therefore promised to every client.

**Play** closes it with browsers. `device[d]` is a page: `pending` is the ref and its
copy in local storage, `waiting` the request gate, `view` what is shown, `loading` and
`fetched` the two responses of a page load. `Submit` is `send` and `sendCard`, `Retry`
the retry button, `EndStory` the menu's early end, `Shown` the code after an answer (an
early end is shown with the count of the moment it was asked for, `sent`, because
`App.tsx:549` writes back the session it captured then),
`Timeout` the 45 seconds or a broken connection, `Reload` a new page,
`LeaveAndReturn` the back button and back again during a request, `FetchState` and
`FinishLoad` the load effect. `MayLeave` switches leaving on. A card of kind `long` has at
most 80 characters as the editor counts them (graphemes) and more than 80 as the server does
(code points): the page sends it and the server answers 422.

**Story** is the promise: a set of requests that counted, a number of turns and a
phase, one atomic step for each request. `Play!StoryImplemented` says that handlers,
retries, timeouts and crashes implement it; the mapping takes `turns` and `phase` from
the session row and `counted` from the requests table.

**EndingImage** begins where `Turns!scheduled` ends: an ending is committed and a job is
left to paint it. `worker[j]` is a job (`LoadJob`, `InsertJob`, `Paint`, `CommitJob`, one
transaction of `_run_ending_image_job`), `handler[q]` a run of `retry_ending_image`,
`page` the ending screen, `deletion` a run of `delete_session`. The page polls until it finds
an outcome (`Poll`), or until its fourth failure in a row or a 401 (`PollStops`); the notice
then has a button (`PollAgain`). `AskRetry` is the button under a failed picture and the one
beside the error of an earlier retry, which shows under a finished picture as well;
`HearRetry`, `GiveUp` (45 seconds) and `Reopen` are the rest. `records` holds committed job rows only: a job that paints has
no row that others see, which is what makes the guard of the retry interesting. A row of
a job carries the moment its transaction began, because `created_at` is `now()`.

**Portrait** is `retry_portrait`, `start_session`, `_run_background_scene_jobs` and
`delete_session` on one session. A portrait is named by the run that painted it, and a
painter by the portrait or the start that left it to run, so an image row tells whose it
is.

| action | code |
| --- | --- |
| `LoadRetry`, `DecideRetry` | the row, the stored answer, the two refusals |
| `ListScenes`, `ResetScenes` | `_reset_scene_jobs`: the paths and the first delete, the second delete and the commit |
| `BeginPortrait`, `PaintPortrait`, `CommitPortrait` | unlink, flush of the job, painting, the commit of portrait, job and count |
| `StoreRetry` | the stored answer; then the painter runs |
| `LoadStart`, `ConfirmStart` | `start_session`, with its safety net |
| `BeginPainter`, `InsertJob`, `PaintScene`, `CommitScene` | the background loop |
| `ListFiles`, `DeleteRow`, `UnlinkFiles` | `delete_session` |

The painter looks for the session before each scene with `db.get`, which finds the object
it has already loaded; only the foreign key of its job notices a deletion. An inserted job
row that is not committed makes an equal key wait, and holds the session row against the
DELETE. `Painted` says how many redraws were counted before the model starts; the painters
of those have ended. Requests arrive at any time and in any number; `met` is history: which
two of them were at work at the same time.

**Appearance** is the page that sends those requests: `AskRedraw` and `AskStart` with the
conditions of their buttons, `HearRedraw` and `HearStart`, and `LoseRedraw` and `LoseStart`
for a refusal, a lost answer and the abort after 45 seconds (`client.ts:42`), after which the
server goes on. The id of an unanswered redraw stays in the draft and is sent again
(`RequestFor`); the gate (`App.tsx:424`) belongs to the window and outlives the page in it.
`Reopen` is leaving and coming back: in the same window or a new one, with the draft, or
without it when the player has looked at a new story in between (`App.tsx:369-376`).
`sent` are requests that have not arrived. `patient` is history: the page has given up, or
been left by, no request before that had ended.

**EndingDirection** is what an ending's picture shows. A story is the facts of a session
and whether its card was written; nothing in the code looks at its door. `PropsOf` is `compute_ending_slots`; `LocationFits` and
`ActionFits` are the two tables of requirements, `CHOICES` the axes without one,
`Direction` is `validate_image_scene_spec`, which replaces what is not allowed by the
default. `PHRASES` has the keys of the tables of `images/prompts.py`. The reference is
`Fits`: what a location, an action or a prop tells of the story, stated for each
kind of fact and not for each key.

**EndingText** is the request that ends a story, from the first call of the model to the
commit: `CallOnce` and `Reject` are the attempts of `LLMClient.generate_ending` with its
fallback, `StoreEnding` leaves the first job with its slots, `LoseText` is a crash before
the commit and `AskAgain` the player's retry. From then on a step is a step of
`EndingImage` (`Picture(step)`), in which a retried job is given the default direction, and
a job that finds no phrase paints nothing. The composition is shown to implement
`EndingImage` by a theorem (section 5).

**SessionSlots** is `create_session` and `delete_session` for the sessions of one code.

| action | code |
| --- | --- |
| `Receive` | the thread, and `get_cached_response` |
| `CountSessions` | the validation of presets, the count of the budget |
| `ReadIndex`, `Insert` | `MAX(index)`, and the flush that meets the unique key |
| `CommitSession` | the portrait or its failed job, and the first commit |
| `Store` | `store_response` with its own commit, which needs the session and a free key |
| `Delete`, `Crash` | the cascade of `requests.session_id`; the process dies |

Statements of a transaction are steps of their own, because READ COMMITTED lets each see
what others have committed. `KeyHeld` is the wait of a second insert of the same key.
`alone` and `disturbed` are history: whether a creation met another, whether a request
overlapped itself or died between its commits.

**RateLimit** is `check_rate_limit` and `record_attempt` with the three dictionaries, for
one address. A time stamp is the ticks it has left, so time can pass for ever in a finite
model. `Check` and `Record` are steps of any number of threads; a code is right or
wrong. `Restart` forgets everything, as a process does. The dictionaries have no lock, so
with `mayTear` a check may be interrupted at two places: after the line that lifts a block
and before the one that forgets the failures (`Lift`), and within `attempts[:] = [...]`,
whose copy may be written back over an attempt recorded meanwhile (`Store`). The image the
repository builds (`python:3.12-slim`) has the interpreter lock, which changes threads at
calls and backward jumps only and so hardly gets between those; the language promises
nothing.

Each module about which theorems are proved has them in a module of its own, named
`..._proofs`; the facts and the quotations of `Play` have a second one, `Facts_proofs`.

## 3. The runs

| run | instance | distinct states | shows |
| --- | --- | --- | --- |
| `play_one` | 1 browser, 2 workers, two turns and three cards (written, blank, too long), from turns 2, 8 and 10, after up to five quotable turns, fair | 441,056 | facts as replay, one by one, the card decided once, nothing shown that is not committed, frozen end, quotations, no unanswered request lost, each accepted one settled, refinement of `Story` |
| `play_open` | 1 browser, 2 workers, four turns and an end, `MayLeave`, from turn 8 | 450,152 | four promises of `Turns` to any clients, and that a page shows what happened |
| `ending_all` | 3 stories, 4 proposals, 2 retries, a deletion, a crash, fair | 492,894 | the picture fits the events, files, final deletion, a settled outcome, the outcome reaches the page, telling and deletion end |
| `portrait_all` | two requests of: one redraw sent twice, another redraw, a start; 2 scenes, a deletion, a crash, 0 or 1 counted | 3,784,782 | files, final deletion, one image for a scene, no scene left out by one redraw, what only an overlap can do to portrait, failure, count and answer |
| `appearance_all` | the page; a redraw sent twice, or a redraw and a start; 0 to 2 counted | 723,190 | a page that was never cut off is safe; the story starts with what the page shows |
| `slots_all` | 2 threads, 2 requests and a refused one, a budget of 2, 4 rows, deletions, crashes, fair | 508,740 | answers, budget, index, every creation ends |
| `rate_all` | 3 threads, checks in one piece or torn, 2 attempts in 3 ticks, a block of 4 ticks after 4 failures, restarts, fair | 447,895 | window and threshold, a block is kept, a patient visitor gets in |
| `turns_last_turn` | 1 worker, two turns, from turn 10 | | finding 1 |
| `play_end_door` | 1 browser, two turns and an end, from turn 10 | | finding 2 |
| `ending_crash` | 1 retry, a crash, fair | | finding 3 |
| `portrait_face` | 1 redraw, 2 scenes | | finding 4 |
| `play_leave` | 1 browser, three turns, `MayLeave`, from turn 4 | | finding 5 |

Properties of `Turns`: `OncePerRequest`, `AnnouncedIsStored`,
`NoTurnSkipped`, `EndingHasItsCause`, `EndingQuotesConfirmed`. Of
`Play`: `OneTurnAtATime`, `WorldIsReplay`, `CardDecidedOnce`,
`ShownIsCommitted`, `ShownHappened`, `EndedIsFrozen`, `PendingKeptUntilAnswered`, `StoryImplemented`,
`AcceptedIsResolved`. Of `EndingImage`: `PictureHasFile`, `DeletedStaysDeleted`,
`StillMeansSettled`, `DeletionEnds`, `OutcomeReachesPage`. Of `EndingText`: `PictureFitsEvents`,
`JobsAreWorded`, `EndingIsTold`. Of `Portrait`: `ImagesHaveFiles`, `DeletedStaysDeleted`,
`OneImagePerScene`, `ScenesTried`, `OnlyOverlapTakesPortrait`, `OnlyOverlapHidesFailure`,
`LoneRedrawsCounted`, `OnlyOverlapPaintsTwice`. Of `Appearance`:
`PatientPageIsSafe`, `StartsWithShown`. Of `SessionSlots`: `AnswerNamesItsSession`,
`BudgetBounded`, `LoneCreationFits`, `CreationEnds`. Of `RateLimit`:
`WindowBounded`, `FailuresBounded`, `BlockIsKept`, `PatienceAdmits`. Each is stated in words
at its definition. For each there is a mutated definition (`Bug...`, next to the one it
mutates) of a plausible bug that makes the property fail under the same configuration;
`PROJECT.json` pairs them. The type invariants of the modules are theorems, and so are
`SceneFollowsTurns` of `Play` and `LoneRequestMakesOne` of `SessionSlots`, which no run checks.

What each of them does not say is in section 4.

### Bounds, and why they are enough

- Two workers: every hazard of the list is a race of two handlers, or of a handler and
  a page. A third would only wait for the database as the second does.
- Two to five requests, minted once each: a request id is never reused for another
  body. Retries of each are not bounded.
- `StartTurns`: the models start near the turns where something happens: 2 (change of
  scene; scene 2 admits the book), 8 (the card is offered in scene 3 only, and turn 9
  leaves it; two turns may follow the card, and four requests reach the end), 10 (the last
  turns and the end). The turns before are in the
  transcript; those in `ToldTurns` confirmed a personal detail.
- `Proposals` of `Play`: no event, or a list that gives back and gives the book, tells
  something personal and makes and accepts a plan. The appliers are independent columns, and
  two turns with the list have a precondition that fails, one that an earlier event of the
  same list makes true, and one that an earlier turn makes false. `play_open` and
  `play_leave` do not look at the facts, and have no events.
- `Proposals` and stories of `EndingText`: each direction is allowed by one story and
  not by another, on the location and on the action; one is made up; one is empty. What
  they leave out is proved: the theorems are about every story and every text.
- Retries of the ending's picture: two overlap in every way two transactions can. One
  crash and one deletion: after a deletion nothing is left to delete, and a second crash
  meets the same states as the first.
- `play_one` has a card to write, one to leave blank and one that is too long, with turns
  before, between and after them.
- `MCTwoRequests` (`portrait_all`, `appearance_all`): of the redraws and the start two are
  made, whichever they are: two runs of one request, two requests, a redraw and a start. Each
  pair overlaps in every way, with a painter each besides the first one. Two scenes let painters
  meet before, at and behind each other. For any number of requests, starts and scenes the
  properties are theorems.
- `MAX_MADE`: four rows in all are two more than the budget, so a code is filled, passed by
  one, emptied from the middle or the end and filled again. `MAX_MADE` counts attempts under
  way, so no creation is cut off inside.
- `RateLimit`: the real numbers (5 in a minute, 30, 30 minutes) are longer ways to the
  same places. Three threads make "one for each other thread" two; the threshold is above
  the window, as in the code.
- The runs of `Portrait`, `Appearance`, `SessionSlots` and `EndingText` end: with every job over and the
  requests used up the system really stops, so they do not look for deadlocks.
- Symmetry of workers and of the turn requests (`play_open`, `play_leave`,
  `turns_last_turn`, `play_end_door`) is sound: no module orders them. No run that checks liveness uses symmetry.

### Fairness

`Play!Fairness` gives weak fairness to each worker's handler (threads run), to
`Deliver`, `FetchState` and `FinishLoad` (responses arrive), to `Drop`, and to the
retry button: a page that holds a pending request offers nothing else to send, so a
player who wants to go on presses it. Nothing makes the language model reachable or
the process immortal, so `AcceptedIsResolved` is stated for behaviours in which
timeouts, reloads, failures and restarts stop after some point. (A dropped answer that
looks exactly like a restart does not count as one.)

`EndingImage!Fairness`: jobs and retries run and end, a page that is open hears answers and
polls as long as it has not given up polling, a DELETE gets the row when nobody holds it.
Nothing keeps a page from giving up (`PollStops` takes no fairness and disables `Poll`), so
the properties about the page name that case. Nobody has to press a button, reopen the page
or delete. `EndingText` states the same of the steps of the composition,
and that the request which tells the ending goes on (`Tell`); that the player asks again
after a failure is not assumed, and `EndingIsTold` allows for it.

`SessionSlots!Spec`: a thread goes on. A thread that waits for a key is not enabled, and
`CreationEnds` says that it does not wait for ever.

`RateLimit!FairSpec`: time passes, a thread that has an answer gives it, and a visitor who
knows the code tries again and again. The last is strong fairness of a check that passes,
because others take the thread and the window in between; `PatienceAdmits` is stated for
behaviours in which wrong codes stop.

## 4. What the runs found

1. **The twelfth turn is never quoted** (`turns_last_turn`, `EveryTurnMayBeQuoted`). `_finalize_turn12` runs the
   evidence query while the events of turn 12 are added and not flushed
   (`api/turns.py:166`, flush at 168, `autoflush=False` in `db.py:25`).
2. **An early ending with a locked door** (`play_end_door`, `EarlyEndLeavesDoorOpen`). A timed out turn 12 and the
   early end run at once; the end overwrites `completed` with `ended_early`. The same
   race lets a turn commit after the story has ended, which is why `EndedIsFrozen` and
   `StoryImplemented` are checked for a browser without the early end.
3. **An ending that is painted for ever** (`ending_crash`, `GeneratingEnds`). The process dies, the job has
   no row, the state is `generating` and a retry is refused.
4. **A scene with the old face** (`portrait_face`, `ScenesShowPortrait`). A reset does not stop the painter of
   the old portrait, and the new painter stops at the old one's job.
5. **Two turns at once** (`play_leave`, `OneTurnAtATime`). The player leaves the story page during a turn and
   returns; the page reads the session before the turn commits and applies it after the
   turn's answer (`App.tsx:177-286`). It then shows one turn too few and numbers the next
   request too low, a reload takes that request for completed while it runs
   (`App.tsx:235`), and the player sends another one. Both consume the same turn, though
   `docs/ui-spec.md:258` says that two turns cannot be submitted at once.

### The limits of the properties

Where a condition of a property is dropped, the code does otherwise; these are the cases.

- `EndingQuotesConfirmed` is about the turns before the one that ends the story, since the
  query does not see that one (finding 1). In `play_one` an ending is reached from turn 10 with
  the five `ToldTurns`: the five quotations are there and a sixth is dropped, while fewer than
  five, or an event merged into a turn already quoted, hardly occur there. The theorem covers
  them.
- `play_one` has no early end. A turn that is late when the story is ended early is in
  `play_end_door` and in `play_open`; there the end is not frozen (finding 2).
- `AcceptedIsResolved` is about every body the server accepts. The editor counts 80 graphemes
  (`CardEditor.tsx:19`), the server 80 code points (`api/card.py:64`). A card between the two
  (of kind `long`) is answered 422 on every retry, the page keeps it as pending
  (`App.tsx:235-240`, 512-513) and takes no other turn; the early end is all that is left.
  `docs/ui-spec.md:260` wants the two to agree; `INTEGRATION.md:72` knows of the difference.
- `OneTurnAtATime` needs a single browser: with two `Devices` both consume one turn, since
  nothing in the database refuses a second commit of a turn number under another request id.
  With `MayLeave` the older count of finding 5 also breaks `PendingKeptUntilAnswered` (the
  unanswered request is forgotten), `CardDecidedOnce` (the second of the two requests may be
  another card) and `ShownIsCommitted` (of two turns at once the later commit may take the count
  back). The last fails, too, without leaving, when an early end overtakes turn 12 as in
  finding 2: a page that shows `ended_early` meets a session that is `completed`. What holds of
  every player is `ShownHappened`.
- `StillMeansSettled` is about the outcome when nothing runs any more. It excludes neither a
  second painting nor a page that polls while the newest job is done and a retry has just
  cleared its picture: such a page stops polling and is left with a skeleton. The second
  painting is real: the guard of the retry (`api/ending.py:65`) does not see a job that has
  not committed, so after a failure a second retry is admitted while the first one's job
  runs, against `docs/ui-spec.md:347`.
- `OutcomeReachesPage` says that the page gets an outcome, or says that it gave up. After a
  retry it may be the outcome of an earlier job: a retry writes no row for its job
  (`api/ending.py:72-77`), so a poll before that job commits finds the failure before it, the
  page stops polling (`App.tsx:306`), and the picture is painted and not shown until the page
  is opened again.
- `PictureFitsEvents` is about who is there, who has the book, the bookmark and the card, and
  what was agreed. It is not about the door: the default location is worded "just as it
  locked" (`images/prompts.py:84`) and is given to stories that were ended early
  (`engine/ending.py:172`, 186), whose door `docs/ui-spec.md:218-221` leaves unconfirmed. "Her
  hands rest empty at her sides" may still stand next to the keys or the card she holds
  (`engine/ending.py:211` and 110-113).
- The four `OnlyOverlap...` and `Lone...` properties of `Portrait` hold for requests that come
  at any time, from any client; they say that what goes wrong takes two requests at work
  together. `PatientPageIsSafe` says that the page brings that about only by giving a request
  up before it ended, or being left during it. That does happen: the page aborts a redraw after
  45 seconds (`client.ts:42`) and sends it again while its first run paints. The second run
  finds no stored answer and paints too, against `docs/api-contract.md:32-33`; both write the
  same count, so a third redraw is admitted, against `docs/ui-spec.md:116`; and if it succeeds
  before the first run fails, the portrait is gone, the newest job is a finished one and the
  retry is not free, against `docs/ui-spec.md:340`. A player who leaves the page during a
  redraw, looks at a new story, opens the session from the list and starts it may lose the
  portrait of the started story to the redraw's failure (`api/sessions.py:256`, 324).
  `OnlyOverlapPaintsTwice` needs a process that lives: the answer of a redraw is stored
  after its commit, and a crash between the two lets the same request paint again.
- `ScenesTried` is about one redraw: with two, the painters of three portraits meet, and a
  scene that was reset is left to none.
- `LoneRequestMakesOne` excepts a request that is repeated during its first run, or after a
  crash between its two commits: it makes a second session, since the answer is stored in a
  transaction of its own (`api/sessions.py:193`). `LoneCreationFits` is about a creation
  that meets no other.
- The budget and the limits of `RateLimit` are passed by threads in flight; the properties say
  by how much. With a torn check attempts are lost, and neither `WindowBounded` nor
  `FailuresBounded` is claimed; `BlockIsKept` and `PatienceAdmits` hold with torn checks, too.

With one browser that does not leave the page during a request and does not end early
(`play_one`), what the properties promise of the story holds, whatever times out, reloads or
crashes, short of the card that is too long: the page's gate and its pending request carry what the server does not lock.

## 5. What is proved

`Turns_proofs` proves, for all sets of requests, workers, proposals and start turns
that satisfy the named assumptions of `Turns` and `WorldState`:

| theorem | states |
| --- | --- |
| `TypeCorrect` | `Spec => []TypeOK` |
| `OncePerRequestHolds` | `Spec => []OncePerRequest` |
| `AnnouncedStaysStored` | `Spec => []AnnouncedIsStored` |
| `NoTurnIsSkipped` | `Spec => []NoTurnSkipped` |
| `EndingKeepsItsCause` | `Spec => []EndingHasItsCause` |

The argument. `TypeOK` alone is not inductive: the entry a commit appends has a turn of
the table only because the handler was admitted below twelve and kept the row it
loaded. `TypeInv` adds that (`WorkerOK`). Rows change at `Commit` only (`OnlyCommit`),
and a commit stores an answer where there was none (`CommitStores`), which gives
`OncePerRequest` directly and `AnnouncedIsStored` after a look at
the replies. `RowInv` relates the row a handler works on to the row it loaded at each
step. `SkipInv` adds that the session's count, and every count any handler has
loaded, however stale, is the number of a turn in the transcript: the next number then
has its predecessor there. `EndInv` adds that a story is over exactly when its ending
is written, in the session and in every loaded row, and that loaded ends are not undone; with
it the merge of changed columns cannot lose the locked door or the ending. TLC
confirmed `TypeInv`, `RowInv`, `SkipInv` and `EndInv` on an instance with two turns, a card,
an end and a blank text, sent at any time, before they were proved.

`Play_proofs` proves, for the same constants and with `OneBrowser` (there is one browser,
and its player does not leave the page during a request: `~MayLeave`) and `NoEarlyEnd` (no
request is of kind `end`):

| theorem | states |
| --- | --- |
| `ServerInPlay` | `PlaySpec => Spec /\ []BrowserInv`, with no condition: every theorem about `Turns` holds of the play |
| `TurnsAreTakenOnce` | `OneBrowser => (PlaySpec => []OneTurnAtATime)` |
| `PendingIsKept` | `OneBrowser => (PlaySpec => PendingKeptUntilAnswered)` |
| `ScenesAgree` | `OneBrowser => (PlaySpec => []SceneFollowsTurns)` |
| `CardIsDecidedOnce` | `OneBrowser => (PlaySpec => []CardDecidedOnce)` |
| `EndedStaysFrozen` | `OneBrowser /\ NoEarlyEnd => (PlaySpec => EndedIsFrozen)` |
| `PageShowsCommitted` | `OneBrowser /\ NoEarlyEnd => (PlaySpec => []ShownIsCommitted)` |
| `PlayImplementsStory` | `OneBrowser /\ NoEarlyEnd => (PlaySpec => StoryImplemented)` |
| `PageShowsHistory` | `PlaySpec => []ShownHappened`, with no condition |

The server alone does not keep two requests from taking the same turn; the page does.
`PlayInv` says how. A turn that a worker runs and that has no answer yet is the pending
request of the page (`OnlyPending`), even after the page gave up, reloaded or the worker
that ran it first has died. So at most one request can take a turn, its second commit is
refused, and the clock that its handlers loaded is still the committed one (`LoadedNow`). A
pending request is the next turn until it is answered and the last turn then
(`PendingCounts`); a page with nothing pending shows, or is about to show, the last turn
(`ViewsNow`), so the next request is numbered rightly. `Waits` ties an answer to the
request it belongs to. Without an early end `LoadedNow` says that the whole loaded row is
the session, and each commit is one step of `Story`. The conditions are needed: with an
early end two requests are under way at once (finding 2), and so they are when a page is
left and entered again during a request (finding 5). `CardInv` and `ShownInv` add the card
that a turn carries with it, and what the page and the stored answers tell.

`PageShowsHistory` needs no condition, because it rests on what only grows: a turn of the
transcript and a stored answer stay (`CommitReaches`). `HappenedInv` says of everything a
page can come to show, the view, a load under way, the session row and the stored answers,
that its count is a turn of the transcript and its end was committed. A count may be stale
or, after a lost update, go back; it is never made up.

`Facts_proofs` proves, for the same constants:

| theorem | states |
| --- | --- |
| `FactsAreReplay` | `OneBrowser => (PlaySpec => []WorldIsReplay)` |
| `EndingQuotesCommitted` | `OneBrowser /\ NoEarlyEnd => (PlaySpec => []EndingQuotesConfirmed)` |

`WorldIsReplay` speaks of two recursive functions over the transcript, and no induction over
a sequence is within the provers' reach. The induction is over the behaviour instead. `Rooted`
says that the transcript has a replay, that every replay of it ends in the same events
(`Replayed`), and that those lead to the facts of the session (`LeadsTo`). Both parts hold of
the turns played before and are kept when a commit appends one entry (`ReplayGrows`,
`WalkGrows`): a function with its domain one longer is given, and any such function agrees
with an old one below its end. `Follows` says of a turn under way that what it has confirmed
goes on from what is committed to the facts of the row it works on; it begins as `Rooted`
when the model is called, because the row it loaded is still the session's
(`LoadedNow`), and becomes `Rooted` at the commit. `WorkInv` says that a handler judges in
the scene of the row it loaded. With an early end the theorem still holds, since an end
leaves the facts alone.

An ending quotes the first five of the turns that explain something. Which these are is said
by rank: turns with fewer than five before them. Of any finite set of turns those are five at
most (`AtMostFive`), and a turn beyond them has all five before it (`AfterFive`), so
`SelectEvidence` gives what the property asks (`EvidenceQuotes`). `QuoteInv` says that a turn
which has written an ending and not committed it quotes the committed transcript still. An
early end is excluded because a turn that commits after it changes what the quotations
should be.

`EndingImage_proofs` proves, for any number of retries:

| theorem | states |
| --- | --- |
| `PicturesKeepFiles` | `Spec => []PictureHasFile` |
| `DeletionIsFinal` | `Spec => []DeletedStaysDeleted` |
| `TypeCorrect` | `Spec => []TypeOK` |
| `PicturesAreSettled` | `Spec => []StillMeansSettled` |

The first two rest on `IInv`: a commit may add a picture of a deleted session unless the
job's foreign key has kept the session there since its row was inserted, and an unlink may
take the file of a picture that is still named unless the rows are always gone first; so a
job between insert and commit has its session, a painted picture has its file, no file is
unlinked while its session exists. The other two rest on `SInv`. The state of the picture
is that of the newest row, so `HasNewest` says that any set of rows has one (an invariant,
which spares an induction over finite sets). `NobodyForgotten` says why overlapping retries
settle: a picture is taken off the row only by a retry, whose job begins later than every
row there is, so what it leaves is newer.

`EndingText_proofs` proves, for every story, all texts the model may propose, any number of
attempts and retries:

| theorem | states |
| --- | --- |
| `ImplementsPicture` | `TextSpec => Spec` of `EndingImage`: the composition refines the component |
| `TextTypeCorrect` | `TextSpec => []TextTypeOK` |
| `PicturesFitEvents` | `TextSpec => []PictureFitsEvents` |
| `JobsStayWorded` | `TextSpec => []JobsAreWorded` |

`DirectionFits` is the lemma about the pure code: what the validation leaves of any proposal
fits the facts and has a phrase on every axis. `SlotsMade` carries it to the jobs: none has
begun before the ending is stored, and each that begins afterwards has slots made by it.
`ImplementsPicture` brings everything proved of `EndingImage` over (`PictureCarriesOver`).

`Portrait_proofs` proves, for any number of redraws, starts and scenes:

| theorem | states |
| --- | --- |
| `TypeCorrect` | `Spec => []TypeOK` |
| `ImagesKeepFiles` | `Spec => []ImagesHaveFiles` |
| `DeletionIsFinal` | `Spec => []DeletedStaysDeleted` |
| `ScenesHaveOneImage` | `Spec => []OneImagePerScene` |
| `StartsAloneKeepPortrait` | `Spec => []OnlyOverlapTakesPortrait` |
| `RedrawsAloneShowFailure` | `Spec => []OnlyOverlapHidesFailure` |
| `RedrawsAloneAreCounted` | `Spec => []LoneRedrawsCounted` |
| `RepeatsAlonePaintOnce` | `Spec => []OnlyOverlapPaintsTwice` |
| `EverySceneTried` | `~MayCrash /\ ~MayDelete => (Spec => [](met = {} => ScenesTried))` |
| `PageTypeCorrect` | `AppSpec => []PageOK` |
| `PatienceIsSafe` | `AppSpec => []PatientPageIsSafe` |

A reset unlinks files after it has committed; that is harmless because a committed scene is
behind its painter (`ScenesPassed`), which will not commit it again, so the files a reset
holds are of no image (`OldFilesGone`). One image for a scene follows from the jobs: of
the painters that hold an uncommitted job of a scene there is one, no other job of it
exists, and every scene image has a job (`SlotInv`). Deletion is as in `EndingImage`.

The four theorems about requests hold for any number of redraws and starts that come as they
like. `Together` says that two which are at work have met; `Loaded`, that a request which has
met none still has the row as it is: its count and portrait unless it met a redraw, its
confirmation unless it met a start. So a start that met no redraw confirms the portrait that
is there, and a redraw that met no start takes no story's portrait. `Ruling` says the same of
the stored answer, `Counted` of the count: the redraws that met none are in it, and in every
count that is loaded. `DateInv` orders the attempts by the time they were begun: the newest
gives the status, and who began later while a run paints has met it.

The server behaves as `Portrait` says in front of any page (`AppRefines`), so all of this holds
of `Appearance`. `PatienceIsSafe` adds that a patient page waits for whatever is on its way or
at work (`Patient`, `Waits`): then one request at most is at work, no two have met, and the
exceptions are empty. `StartsWithShown` is checked by TLC only.

`ScenesTried` is about several painters. The painter of the first portrait, that of its redraw
and the ones the starts add walk the scenes, and each stops where it finds another's job, so
each relies on another to do the rest. The invariant (`SceneInv`) names the one that can be
relied upon: a painter *leads* when every scene before its own was tried, and of the later
ones at most an unbroken stretch that ends at the first painter, which is still at work
(`Trails`). When the leader meets that stretch it stops and the first painter leads. As long
as a scene is left untried somebody leads (`Covered`), so when all have ended nothing is
left. During the reset of a redraw the old jobs are still there and the painters of the
portrait before may be, hence the parts `BetweenInv`, `BeforeInv` and `RedrawInv`. A
deletion or a crash would take the leader away, two redraws at once have painters that stop
each other as in finding 4, and with a second redraw the painters of the
first one stop those of the second for good (finding 4): the property says "one redraw".

`SessionSlots_proofs` proves, for any requests, threads, budget and number of rows:

| theorem | states |
| --- | --- |
| `TypeCorrect` | `Spec => []TypeOK` |
| `AnswersNameTheirSession` | `Spec => []AnswerNamesItsSession` |
| `BudgetStaysBounded` | `Spec => []BudgetBounded` |
| `LoneCreationsFit` | `Spec => []LoneCreationFits` |
| `LoneRequestsMakeOne` | `Spec => []LoneRequestMakesOne` |

An id belongs to one row or to one thread (`IdsBelong`). A thread that nobody meets finds
its number free, its row present and its request unanswered (`LoneFits`). The budget counts
the sessions together with the creations that have counted and not committed: when one
passes the count, the sessions are below the budget and the others in flight are at most
the other threads. A deletion only makes room.

`RateLimit_proofs` proves, for any limits and number of threads:

| theorem | states |
| --- | --- |
| `TypeCorrect` | `Spec => []TypeOK` |
| `FailuresStayBounded` | `Spec => []FailuresBounded` |
| `WindowStaysBounded` | `Spec => []WindowBounded` |
| `BlocksAreKept` | `Spec => []BlockIsKept` |

At the threshold there is a block that has not been lifted (`CountMeansBlock`), so no further
wrong code passes the check, and failures and wrong codes in flight together are bounded.
`FailuresBounded` and `WindowBounded` are claimed when no check is torn (`mayTear` is
`FALSE`); `BlockIsKept` needs no such condition.

The window is a sum over the ticks of the attempts made at each, `SumFunction` of the
community modules, which is a recursive function on finite sets. Lemmas about it are proved
by least counterexample: of the subsets for which a lemma fails one has no smaller one
(`LeastSet`, from the well-foundedness of strict inclusion on finite sets). That gives that
the sum exists, does not depend on the order of the fold (`SumSplits`), and what an attempt
and a tick do to it (`SumMoves`). `WindowInv` is then as for the failures: attempts in the
window and threads that passed the check are, together, below the limit and the threads.

Each of these invariants was checked by TLC on the instance of its module's run before it
was proved (those of `Play_proofs` and `Facts_proofs` on `play_one`, and but for `ShownInv`
and `QuoteInv` also with an early end; `ShownHappened` in place of `HappenedInv`, on several
instances with leaving and early ends).

Assumptions: `RequestsAssumption`, `ProposalsAssumption`, `StartTurnsAssumption`,
`ToldTurnsAssumption`, `PlansAssumption`, and for `Play` `NoWorkerAssumption`,
`MayLeaveAssumption`; `JobsAssumption`, `MayAssumption` of
`EndingImage`; `StoriesAssumption`, `ProposalsAssumption`, `RetriesAssumption` of
`EndingText`; those of `Portrait`; `RequestsAssumption`, `WorkersAssumption` (finitely many
threads), `BudgetAssumption` of `SessionSlots`; `WorkersAssumption`, `LimitsAssumption`
of `RateLimit`; `NoneAssumption` of `Appearance`. TLC evaluates them in every run of the module.

Model-checked only: the liveness properties `AcceptedIsResolved`, `DeletionEnds`,
`OutcomeReachesPage`, `EndingIsTold`, `CreationEnds`, `PatienceAdmits`, which the proof system
cannot reach, and `StartsWithShown`. Every other safety property of a passing run is a theorem.
The refusal of a body is modelled by the card that is too long; the other bodies the server
refuses are ones the page does not send.

## 6. What is abstracted, what is left out

Texts, prompts, narration, record cards and layout are left out: no property is about
them. The card's `written` and `author` follow from `text`. `trust`, `closeness` and
`tension` are never assigned. The row of the card exists from the start, as
`create_session` makes it. Ownership (404) and tokens (401) are left out: one player,
one session. The card that is too long (422) stands for every refused body. A load that fails is a
reload. The wait of an INSERT for another transaction's key is the order in which the
two commit. A handler that fails after `StartEnd` or at turn 12 answers with an error
and leaves nothing.

`create_session` leaves the first painter of scenes to run after its first commit; its
overlap with the first retry is that of any painter in `Portrait`. A code with an unlimited
budget is never refused and needs no model. In `RateLimit` the increment `_failure_counts[ip] += 1` is one step, and so is the rest of
`record_attempt`; what else may come between the statements of a check is `mayTear`. One address and one way to be right or wrong stand for all, since
the dictionaries are indexed by address and the other codes are wrong ones.

### Not modelled

- Usage log and admin page (`usage.py`, `api/admin.py`): rows added in the transactions of the
  other modules and read by a report only. Tokens of rejected attempts and of requests that
  are rolled back are billed and not logged (`llm/client.py:103`); nothing in the story
  depends on it.
- Wording: `llm/prompts.py` and `images/prompts.py` but for the keys of its tables, the
  record cards of `engine/state.py`, the migrations.
- `auth.py`: the signature and life of a token are cryptography and a comparison with the
  clock.
- The list of sessions and `get_session_state` beyond what a page load needs: queries.
- The screens (`SceneImage.tsx`, `EndingScreen.tsx` and others) but for the buttons that
  `Appearance` and `EndingImage` have: layout, and the loading of pictures by the browser. The
  requests that create a session are arrivals of `SessionSlots`. `mock-server` is a stub for
  development.
- `images/client.py` and the two model services are external: a call succeeds or fails.

## 7. Plan

Done: all modules of section 2 and their proofs.

Left:

1. The page that creates a session, whose create request survives a reload in local storage
   (`App.tsx:384-422`), composed with `SessionSlots` as `Appearance` is with `Portrait`, and
   the polling of scene pictures on the story page.
2. Part of `Play_proofs` for a player who ends early: after finding 2 the story is not
   frozen, but what an early end may still change can be stated (`EndedIsFrozen` without
   the turn that was under way).
