------------------------------ MODULE Portrait ------------------------------
(***************************************************************************)
(* The portrait of a new session and the scene images painted from it.  A   *)
(* session begins with a portrait, or with the failure to paint one.  The   *)
(* player may have it painted again, starts the story with it, or deletes   *)
(* the session.  As soon as there is a portrait a background painter makes  *)
(* the scene images one after the other, each in a transaction of its own,  *)
(* from the portrait it was given.                                          *)
(*                                                                         *)
(* As in module Turns a handler works on the row it loaded, each of its     *)
(* steps reads what is committed then, and an UPDATE carries the columns    *)
(* that were changed.                                                       *)
(***************************************************************************)
EXTENDS Naturals, FiniteSets

CONSTANTS
  Runs,         \* runs of the portrait/retry handler, one for each arrival
  Request,      \* the request id of each run
  Starts,       \* runs of the start handler
  First,        \* the creation of the session
  None,         \* no portrait
  SCENES,       \* scene images of a session, four in the code
  Painted,      \* numbers of redraws counted in the initial states
  MayCrash,     \* whether the process may die (once)
  MayDelete     \* whether the player may delete the session

PORTRAIT_RETRY_LIMIT == 2

\* Who paints scenes: a portrait is named by the run that painted it, and a
\* start may leave a painter as well.
Portraits == Runs \cup {First}
Painters == Portraits \cup Starts
Scenes == 1..SCENES

ASSUME SCENESAssumption == SCENES \in Nat \ {0}

ASSUME RunsAssumption == First \notin Runs /\ None \notin Portraits /\ Starts \cap Portraits = {}

ASSUME PaintedAssumption == Painted \subseteq 0..PORTRAIT_RETRY_LIMIT

ASSUME MayAssumption == MayCrash \in BOOLEAN /\ MayDelete \in BOOLEAN

VARIABLES
  row,       \* the row of the session
  attempts,  \* committed portrait jobs
  jobs,      \* committed scene jobs
  images,    \* committed image rows; scene 0 is the portrait
  files,     \* image files on disk
  log,       \* the retry requests with a stored answer
  began,     \* portrait transactions begun so far, the clock of created_at
  handler,   \* what each run of portrait/retry is doing
  starter,   \* what each run of start is doing
  painter,   \* what each background painter is doing
  deletion,  \* what the handler of DELETE is doing
  crashed,   \* whether the process has died
  met        \* history: which two requests were at work at the same time

tables == <<row, attempts, jobs, images, log>>

vars == <<row, attempts, jobs, images, files, log, began, handler, starter, painter, deletion, crashed, met>>

Rows ==
  [ exists    : BOOLEAN,
    portrait  : Portraits \cup {None},
    confirmed : BOOLEAN,
    count     : 0..PORTRAIT_RETRY_LIMIT ]

Images == [by : Painters, scene : 0..SCENES]

SceneJobs == [by : Painters, scene : Scenes, status : {"done", "failed"}]

Init ==
  \E drawn \in BOOLEAN, count \in Painted :
    /\ row = [ exists |-> TRUE, portrait |-> IF drawn THEN First ELSE None,
               confirmed |-> FALSE, count |-> count ]
    /\ attempts = {[at |-> 0, status |-> IF drawn THEN "done" ELSE "failed"]}
    /\ jobs = {}
    /\ images = IF drawn THEN {[by |-> First, scene |-> 0]} ELSE {}
    /\ files = images
    /\ log = {}
    /\ began = 0
    /\ handler = [h \in Runs |-> [ pc |-> "none", loaded |-> row, counts |-> FALSE, at |-> 0,
                                   oldJobs |-> {}, oldFiles |-> {} ]]
    /\ starter = [s \in Starts |-> [pc |-> "none", loaded |-> row]]
    /\ painter = [p \in Painters |->
                   [ pc |-> IF drawn /\ p = First THEN "queued" ELSE "none", scene |-> 0,
                     portrait |-> IF p = First THEN First ELSE None ]]
    /\ deletion = [pc |-> "none", listed |-> {}]
    /\ crashed = FALSE
    /\ met = {}

\* The requests that are at work.
AtWork ==
  {h \in Runs : handler[h].pc \notin {"none", "over"}}
    \cup {s \in Starts : starter[s].pc \notin {"none", "over"}}

Busy == AtWork # {}

\* A request arrives and is at work together with those that are.
Joins(x) == met' = met \cup {{x, y} : y \in AtWork}

\* x was at work together with one of others.
Met(x, others) == \E y \in others : {x, y} \in met
-----------------------------------------------------------------------------
(* retry_portrait *)

At(h, pc) == handler[h].pc = pc

Goes(h, pc) == handler' = [handler EXCEPT ![h].pc = pc]

LoadRetry(h) ==
  /\ At(h, "none")
  /\ handler' = [handler EXCEPT ![h].pc = IF row.exists THEN "loaded" ELSE "over",
                                ![h].loaded = row]
  /\ Joins(h)
  /\ UNCHANGED <<tables, files, began, starter, painter, deletion, crashed>>

Newest == CHOOSE a \in attempts : \A b \in attempts : b.at <= a.at

\* _portrait_status: done with a portrait, else as the newest job says.
Status(r) ==
  CASE r.portrait # None -> "done"
    [] r.portrait = None /\ attempts # {} -> Newest.status
    [] OTHER -> "pending"

\* A redraw is refused when its two are used up; BugLimitReached allows one more.
BugLimitReached(r) == r.count > PORTRAIT_RETRY_LIMIT

LimitReached(r) == r.count >= PORTRAIT_RETRY_LIMIT

\* A run of a request that has an answer sends that; BugAnswered never looks.
BugAnswered(h) == FALSE

Answered(h) == Request[h] \in log

\* After a failure the retry is free; a redraw counts.
DecideRetry(h) ==
  LET r == handler[h].loaded
      counts == Status(r) # "failed"
  IN  /\ At(h, "loaded")
      /\ \/ /\ Answered(h) \/ r.confirmed \/ (counts /\ LimitReached(r))
            /\ Goes(h, "over")
         \/ /\ ~Answered(h) /\ ~r.confirmed /\ ~(counts /\ LimitReached(r))
            /\ handler' = [handler EXCEPT ![h].pc = "admitted", ![h].counts = counts]
      /\ UNCHANGED <<tables, files, began, starter, painter, deletion, crashed, met>>

\* The files a reset takes away; BugOldFiles has the portrait's among them.
BugOldFiles == images

OldFiles == {i \in images : i.scene # 0}

\* _reset_scene_jobs lists the files and deletes the scene jobs it sees ...
ListScenes(h) ==
  /\ At(h, "admitted")
  /\ handler' = [handler EXCEPT ![h].pc = "resetting", ![h].oldJobs = jobs,
                                ![h].oldFiles = OldFiles]
  /\ UNCHANGED <<tables, files, began, starter, painter, deletion, crashed, met>>

\* ... then the scene images it sees, and commits both.
ResetScenes(h) ==
  /\ At(h, "resetting")
  /\ jobs' = jobs \ handler[h].oldJobs
  /\ images' = {i \in images : i.scene = 0}
  /\ handler' = [handler EXCEPT ![h].pc = "reset", ![h].oldJobs = {}]
  /\ UNCHANGED <<row, attempts, files, log, began, starter, painter, deletion, crashed, met>>

\* The old files go; the new portrait job is flushed, which needs the session
\* and keeps it from being deleted.
BeginPortrait(h) ==
  /\ At(h, "reset")
  /\ files' = files \ handler[h].oldFiles
  /\ began' = began + 1
  /\ handler' = [handler EXCEPT ![h].pc = IF row.exists THEN "painting" ELSE "over",
                                ![h].at = began + 1, ![h].oldFiles = {}]
  /\ UNCHANGED <<tables, starter, painter, deletion, crashed, met>>

PaintPortrait(h) ==
  /\ At(h, "painting")
  /\ \/ Goes(h, "painted") /\ files' = files \cup {[by |-> h, scene |-> 0]}
     \/ Goes(h, "failed") /\ UNCHANGED files
  /\ UNCHANGED <<tables, began, starter, painter, deletion, crashed, met>>

\* The portrait column after the run: the new portrait, or none when the painting
\* failed and the loaded row had one.
\* BugPortraitAfter forgets to name the new portrait.
BugPortraitAfter(h) == row.portrait

PortraitAfter(h) ==
  IF At(h, "painted") THEN h
  ELSE IF handler[h].loaded.portrait # None THEN None ELSE row.portrait

\* The portrait, its job and the count are committed ...
CommitPortrait(h) ==
  LET done == At(h, "painted")
      r == handler[h].loaded
  IN  /\ handler[h].pc \in {"painted", "failed"}
      /\ row' = [ row EXCEPT !.portrait = PortraitAfter(h),
                             !.count = IF handler[h].counts THEN r.count + 1 ELSE @ ]
      /\ attempts' = attempts \cup {[ at |-> handler[h].at,
                                      status |-> IF done THEN "done" ELSE "failed" ]}
      /\ images' = IF done THEN images \cup {[by |-> h, scene |-> 0]} ELSE images
      /\ Goes(h, IF done THEN "drawn" ELSE "undrawn")
      /\ UNCHANGED <<jobs, files, log, began, starter, painter, deletion, crashed, met>>

\* ... and then the answer, unless the request has one by now or the session is
\* gone; only then the painter of the scenes is left to run.
StoreRetry(h) ==
  /\ handler[h].pc \in {"drawn", "undrawn"}
  /\ \/ /\ ~Answered(h) /\ row.exists
        /\ log' = log \cup {Request[h]}
        /\ painter' = IF At(h, "drawn")
                      THEN [painter EXCEPT ![h] = [pc |-> "queued", scene |-> 0, portrait |-> h]]
                      ELSE painter
     \/ /\ Answered(h) \/ ~row.exists
        /\ UNCHANGED <<log, painter>>
  /\ Goes(h, "over")
  /\ UNCHANGED <<row, attempts, jobs, images, files, began, starter, deletion, crashed, met>>

Retry(h) ==
  \/ LoadRetry(h)
  \/ DecideRetry(h)
  \/ ListScenes(h)
  \/ ResetScenes(h)
  \/ BeginPortrait(h)
  \/ PaintPortrait(h)
  \/ CommitPortrait(h)
  \/ StoreRetry(h)
-----------------------------------------------------------------------------
(* start_session *)

LoadStart(s) ==
  /\ starter[s].pc = "none"
  /\ starter' = [starter EXCEPT ![s].pc = IF row.exists THEN "loaded" ELSE "over",
                                ![s].loaded = row]
  /\ Joins(s)
  /\ UNCHANGED <<tables, files, began, handler, painter, deletion, crashed>>

\* A story needs a portrait to start; BugMayStart forgets to ask.
BugMayStart(r) == ~r.confirmed

MayStart(r) == r.portrait # None /\ ~r.confirmed

\* The portrait is confirmed, and a painter left to run if there is no scene job
\* at all.
ConfirmStart(s) ==
  LET r == starter[s].loaded
  IN  /\ starter[s].pc = "loaded"
      /\ \/ /\ MayStart(r) /\ row.exists
            /\ row' = [row EXCEPT !.confirmed = TRUE]
            /\ painter' = IF jobs = {}
                          THEN [painter EXCEPT ![s] =
                                 [pc |-> "queued", scene |-> 0, portrait |-> r.portrait]]
                          ELSE painter
         \/ /\ ~MayStart(r) \/ ~row.exists
            /\ UNCHANGED <<row, painter>>
      /\ starter' = [starter EXCEPT ![s].pc = "over"]
      /\ UNCHANGED <<attempts, jobs, images, files, log, began, handler, deletion, crashed, met>>
-----------------------------------------------------------------------------
(* _run_background_scene_jobs *)

Loads(p, changed) == painter' = [painter EXCEPT ![p] = changed]

\* The session is looked for once; later looks find the object already loaded.
BeginPainter(p) ==
  /\ painter[p].pc = "queued"
  /\ Loads(p, [painter[p] EXCEPT !.pc = IF row.exists THEN "next" ELSE "over", !.scene = 1])
  /\ UNCHANGED <<tables, files, began, handler, starter, deletion, crashed, met>>

\* p has an uncommitted job row.
Holds(p) == painter[p].pc \in {"painting", "painted", "failed"}

\* The unique key of scene jobs lets a new row of this scene in.
\* BugFreeSlot is a table without the key.
BugFreeSlot(p) == row.exists

FreeSlot(p) == row.exists /\ \A j \in jobs : j.scene # painter[p].scene

\* The job row is flushed: it waits for an uncommitted row with its key, and ends
\* the painter if there is one already, or no session.
InsertJob(p) ==
  /\ painter[p].pc = "next"
  /\ \A q \in Painters : Holds(q) => painter[q].scene # painter[p].scene
  /\ Loads(p, [painter[p] EXCEPT !.pc = IF FreeSlot(p) THEN "painting" ELSE "over"])
  /\ UNCHANGED <<tables, files, began, handler, starter, deletion, crashed, met>>

Picture(p) == [by |-> p, scene |-> painter[p].scene]

PaintScene(p) ==
  /\ painter[p].pc = "painting"
  /\ \/ Loads(p, [painter[p] EXCEPT !.pc = "painted"]) /\ files' = files \cup {Picture(p)}
     \/ Loads(p, [painter[p] EXCEPT !.pc = "failed"]) /\ UNCHANGED files
  /\ UNCHANGED <<tables, began, handler, starter, deletion, crashed, met>>

\* Job and image are committed, painted or not, and the next scene is begun.
\* BugLastScene stops one scene early.
BugLastScene(p) == painter[p].scene >= SCENES - 1

LastScene(p) == painter[p].scene = SCENES

CommitScene(p) ==
  LET done == painter[p].pc = "painted"
  IN  /\ painter[p].pc \in {"painted", "failed"}
      /\ jobs' = jobs \cup {[ by |-> p, scene |-> painter[p].scene,
                              status |-> IF done THEN "done" ELSE "failed" ]}
      /\ images' = IF done THEN images \cup {Picture(p)} ELSE images
      /\ Loads(p, IF LastScene(p) THEN [painter[p] EXCEPT !.pc = "over"]
                  ELSE [painter[p] EXCEPT !.pc = "next", !.scene = @ + 1])
      /\ UNCHANGED <<row, attempts, files, log, began, handler, starter, deletion, crashed, met>>

Paint(p) == BeginPainter(p) \/ InsertJob(p) \/ PaintScene(p) \/ CommitScene(p)
-----------------------------------------------------------------------------
(* delete_session, and the process *)

ListFiles ==
  /\ MayDelete
  /\ deletion.pc = "none"
  /\ row.exists
  /\ deletion' = [pc |-> "listed", listed |-> images]
  /\ UNCHANGED <<tables, files, began, handler, starter, painter, crashed, met>>

\* A transaction with an uncommitted job row holds the row of the session.
\* BugSessionHeld is a foreign key that holds nothing.
BugSessionHeld == FALSE

SessionHeld ==
  \/ \E p \in Painters : Holds(p)
  \/ \E h \in Runs : handler[h].pc \in {"painting", "painted", "failed"}

DeleteRow ==
  /\ deletion.pc = "listed"
  /\ ~SessionHeld
  /\ row' = [row EXCEPT !.exists = FALSE, !.portrait = None]
  /\ attempts' = {}
  /\ jobs' = {}
  /\ images' = {}
  /\ log' = {}
  /\ deletion' = [deletion EXCEPT !.pc = "deleted"]
  /\ UNCHANGED <<files, began, handler, starter, painter, crashed, met>>

UnlinkFiles ==
  /\ deletion.pc = "deleted"
  /\ files' = files \ deletion.listed
  /\ deletion' = [pc |-> "over", listed |-> {}]
  /\ UNCHANGED <<tables, began, handler, starter, painter, crashed, met>>

\* The process dies: transactions are rolled back, painters forgotten.
Crash ==
  /\ MayCrash
  /\ ~crashed
  /\ crashed' = TRUE
  /\ handler' = [h \in Runs |-> [handler[h] EXCEPT !.pc = IF @ = "none" THEN @ ELSE "over"]]
  /\ starter' = [s \in Starts |-> [starter[s] EXCEPT !.pc = IF @ = "none" THEN @ ELSE "over"]]
  /\ painter' = [p \in Painters |-> [painter[p] EXCEPT !.pc = IF @ = "none" THEN @ ELSE "over"]]
  /\ deletion' = [ pc |-> CASE deletion.pc = "listed" -> "none"
                            [] deletion.pc = "deleted" -> "over"
                            [] OTHER -> deletion.pc,
                   listed |-> {} ]
  /\ UNCHANGED <<tables, files, began, met>>

Next ==
  \/ \E h \in Runs : Retry(h)
  \/ \E s \in Starts : LoadStart(s) \/ ConfirmStart(s)
  \/ \E p \in Painters : Paint(p)
  \/ ListFiles
  \/ DeleteRow
  \/ UnlinkFiles
  \/ Crash

Spec == Init /\ [][Next]_vars
-----------------------------------------------------------------------------
\* Type invariant.
TypeOK ==
  /\ row \in Rows
  /\ attempts \subseteq [at : Nat, status : {"done", "failed"}]
  /\ jobs \subseteq SceneJobs
  /\ images \subseteq Images
  /\ files \subseteq Images
  /\ log \subseteq {Request[h] : h \in Runs}
  /\ began \in Nat
  /\ handler \in [Runs ->
       [ pc       : {"none", "loaded", "admitted", "resetting", "reset", "painting", "painted",
                     "failed", "drawn", "undrawn", "over"},
         loaded   : Rows,
         counts   : BOOLEAN,
         at       : Nat,
         oldJobs  : SUBSET SceneJobs,
         oldFiles : SUBSET Images ]]
  /\ starter \in [Starts -> [pc : {"none", "loaded", "over"}, loaded : Rows]]
  /\ painter \in [Painters ->
       [ pc       : {"none", "queued", "next", "painting", "painted", "failed", "over"},
         scene    : 0..SCENES,
         portrait : Portraits \cup {None} ]]
  /\ deletion \in [pc : {"none", "listed", "deleted", "over"}, listed : SUBSET Images]
  /\ crashed \in BOOLEAN
  /\ met \subseteq SUBSET (Runs \cup Starts)

\* images.py: every image row, the portrait of the session among them, is found
\* with its file, whatever resets, deletions and crashes remove.
ImagesHaveFiles ==
  /\ images \subseteq files
  /\ row.portrait # None => [by |-> row.portrait, scene |-> 0] \in images

\* session_admin.py: after the delete no handler and no painter brings a row of
\* the session back.
DeletedStaysDeleted ==
  ~row.exists => attempts = {} /\ jobs = {} /\ images = {} /\ log = {} /\ row.portrait = None

\* common.py: a scene has one image at most, so that the first one found is the
\* scene's, however many painters work.
OneImagePerScene ==
  \A i, j \in images : i.scene = j.scene /\ i.scene # 0 => i = j

PaintersStill == \A p \in Painters : painter[p].pc \in {"none", "over"}

\* api-contract.md: a session with a portrait has had each of its scenes painted,
\* or tried, when no painter is at work, although two painters stop each other
\* where they meet.  It does not survive a second redraw: the painters of three
\* portraits meet, and a scene that was reset is left to none.
ScenesTried ==
  ~Busy /\ PaintersStill /\ row.exists /\ row.portrait # None /\ began <= 1 /\ ~crashed =>
    \A k \in Scenes : \E j \in jobs : j.scene = k

\* ui-spec.md 10: a session without a portrait is one whose last painting failed,
\* which makes the retry free.
NoPortraitMeansFailed == ~Busy /\ row.exists /\ row.portrait = None => Status(row) = "failed"

\* sessions.py: the portrait is missing after a painting that did not fail only
\* where that run was at work together with another, which failed after it.
OnlyOverlapHidesFailure ==
  row.exists /\ row.portrait = None /\ Status(row) # "failed" =>
    \E h \in Runs : handler[h].at > 0 /\ handler[h].at = Newest.at /\ Met(h, Runs)

\* The run committed a portrait job.
Committed(h) == handler[h].at > 0 /\ \E a \in attempts : a.at = handler[h].at

Redraws == {h \in Runs : handler[h].counts /\ Committed(h)}

\* ui-spec.md 4.5: every redraw that was at work alone is counted, whatever the
\* counts of those that overlap overwrite, and two are counted at most.
LoneRedrawsCounted ==
  /\ Cardinality({h \in Redraws : ~Met(h, Runs)}) <= row.count
  /\ row.count <= PORTRAIT_RETRY_LIMIT

\* api-contract.md: a request sent again paints no second portrait.
RequestPaintsOnce ==
  \A g, h \in Runs : Request[g] = Request[h] /\ Committed(g) /\ Committed(h) => g = h

\* api-contract.md: while the process lives, a request sent again paints a second
\* portrait only where it arrived while its first run was at work.
OnlyOverlapPaintsTwice ==
  ~crashed =>
    \A g, h \in Runs : Request[g] = Request[h] /\ Committed(g) /\ Committed(h) =>
      g = h \/ {g, h} \in met

\* sessions.py: a story that has been started has a portrait.
StartedHasPortrait == row.exists /\ row.confirmed => row.portrait # None

\* sessions.py: a story that has been started loses its portrait only where the
\* start and a redraw were at work together.
OnlyOverlapTakesPortrait ==
  row.exists /\ row.confirmed /\ row.portrait = None => \E s \in Starts : Met(s, Runs)

\* sessions.py: a portrait that is painted again takes the scenes of the old one
\* with it, so that all of them show the portrait of the session.
ScenesShowPortrait ==
  ~Busy /\ PaintersStill /\ row.portrait # None =>
    \A i \in images : i.scene # 0 => painter[i.by].portrait = row.portrait
=============================================================================
