----------------------------- MODULE EndingImage -----------------------------
(***************************************************************************)
(* The picture of an ended story.  The handler that ends the story leaves a *)
(* job to run in the server process (`scheduled` of module Turns); the      *)
(* ending page polls the state of the picture and, when the painting        *)
(* failed, offers to paint again, which leaves another job.  The player may *)
(* delete the session meanwhile, and the process may die.                   *)
(*                                                                         *)
(* A job is one transaction.  It inserts its row, paints for half a minute, *)
(* and commits the row together with the picture: a job that is painting    *)
(* has no row that others can see.                                          *)
(***************************************************************************)
EXTENDS Naturals

CONSTANTS
  Retries,     \* the requests to paint the picture again, each with its job
  FirstJob,    \* the job that the end of the story left
  NoImage,     \* no picture
  NoRetry,     \* no answer is awaited
  MayCrash,    \* whether the process may die (once)
  MayDelete    \* whether the player may delete the session

Jobs == Retries \cup {FirstJob}

ASSUME JobsAssumption == FirstJob \notin Retries /\ NoImage \notin Jobs /\ NoRetry \notin Retries

ASSUME MayAssumption == MayCrash \in BOOLEAN /\ MayDelete \in BOOLEAN

VARIABLES
  row,        \* the row of the session: whether it exists, and its picture
  records,    \* committed job rows
  images,     \* committed picture rows, each named by the job that painted it
  files,      \* picture files on disk
  started,    \* transactions of jobs begun so far, the clock of created_at
  worker,     \* what each job is doing
  handler,    \* what the handler of each retry is doing
  deletion,   \* what the handler of DELETE is doing
  page,       \* the ending page in the browser
  crashed     \* whether the process has died

tables == <<row, records, images>>

vars == <<row, records, images, files, started, worker, handler, deletion, page, crashed>>

Pictures == Jobs \cup {NoImage}
-----------------------------------------------------------------------------
(* The state of the picture *)

\* The job row that order_by(created_at desc) puts first; created_at is the
\* moment the transaction of the job began.
Newest(rs) == CHOOSE r \in rs : \A s \in rs : s.at <= r.at

\* _ending_image_state for a session row with this picture.
StateOf(image) ==
  IF image # NoImage THEN [status |-> "done", image |-> image]
  ELSE IF records = {} THEN [status |-> "generating", image |-> NoImage]
  ELSE [status |-> Newest(records).status, image |-> NoImage]

\* The ending page: what it shows of the picture; whether it polls, has seen the
\* picture settled, or has given up; the retry it waits for; whether the button
\* waits for a poll, and whether a retry has ended in an error.
NewPage ==
  [ status |-> "unknown", image |-> NoImage, polling |-> "on", asked |-> NoRetry,
    busy |-> FALSE, error |-> FALSE ]

Init ==
  /\ row = [exists |-> TRUE, image |-> NoImage]
  /\ records = {}
  /\ images = {}
  /\ files = {}
  /\ started = 0
  /\ worker = [j \in Jobs |-> [pc |-> IF j = FirstJob THEN "queued" ELSE "none", at |-> 0]]
  /\ handler = [q \in Retries |-> [pc |-> "none", loaded |-> NoImage]]
  /\ deletion = [pc |-> "none", listed |-> {}]
  /\ page = NewPage
  /\ crashed = FALSE
-----------------------------------------------------------------------------
(* _run_ending_image_job *)

JobAt(j, pc) == worker[j].pc = pc

Goes(j, pc) == worker' = [worker EXCEPT ![j].pc = pc]

\* The first query of the job begins its transaction.
LoadJob(j) ==
  /\ JobAt(j, "queued")
  /\ \/ /\ row.exists
        /\ started' = started + 1
        /\ worker' = [worker EXCEPT ![j] = [pc |-> "loaded", at |-> started + 1]]
     \/ /\ ~row.exists
        /\ Goes(j, "over")
        /\ UNCHANGED started
  /\ UNCHANGED <<tables, files, handler, deletion, page, crashed>>

\* The job row is flushed.  Its foreign key needs the session and keeps it from
\* being deleted until the transaction ends.
\* BugSessionKnownAsLoaded trusts the row the job loaded.
BugSessionKnownAsLoaded == TRUE

SessionKnown == row.exists

InsertJob(j) ==
  /\ JobAt(j, "loaded")
  /\ Goes(j, IF SessionKnown THEN "painting" ELSE "over")
  /\ UNCHANGED <<tables, files, started, handler, deletion, page, crashed>>

\* The picture is painted and its file saved, or the painting fails.
Paint(j) ==
  /\ JobAt(j, "painting")
  /\ \/ Goes(j, "painted") /\ files' = files \cup {j}
     \/ Goes(j, "failed") /\ UNCHANGED files
  /\ UNCHANGED <<tables, started, handler, deletion, page, crashed>>

\* A painting that the content policy refused fails like any other.
FailedStatus == "failed"

\* What a failed job leaves: its row with the failure, in place of the picture.
\* BugFailureRecord rolls everything back.
BugFailureRecord(j) == {}

FailureRecord(j) == {[at |-> worker[j].at, status |-> FailedStatus]}

\* The job row, and the picture with it, become visible.
CommitJob(j) ==
  /\ \/ /\ JobAt(j, "painted")
        /\ records' = records \cup {[at |-> worker[j].at, status |-> "done"]}
        /\ images' = images \cup {j}
        /\ row' = [row EXCEPT !.image = j]
     \/ /\ JobAt(j, "failed")
        /\ records' = records \cup FailureRecord(j)
        /\ UNCHANGED <<images, row>>
  /\ Goes(j, "over")
  /\ UNCHANGED <<files, started, handler, deletion, page, crashed>>

Work(j) == LoadJob(j) \/ InsertJob(j) \/ Paint(j) \/ CommitJob(j)
-----------------------------------------------------------------------------
(* retry_ending_image *)

HandlerAt(q, pc) == handler[q].pc = pc

Replies(q, pc) == handler' = [handler EXCEPT ![q].pc = pc]

LoadRetry(q) ==
  /\ HandlerAt(q, "arrived")
  /\ handler' = [handler EXCEPT ![q] =
                  IF row.exists THEN [pc |-> "loaded", loaded |-> row.image]
                  ELSE [pc |-> "error", loaded |-> NoImage]]
  /\ UNCHANGED <<tables, files, started, worker, deletion, page, crashed>>

\* 409 while the picture is being painted, judged by the picture of the loaded
\* row and the job rows of now.
DecideRetry(q) ==
  /\ HandlerAt(q, "loaded")
  /\ Replies(q, IF ~row.exists \/ StateOf(handler[q].loaded).status = "generating" THEN "error"
                ELSE "admitted")
  /\ UNCHANGED <<tables, files, started, worker, deletion, page, crashed>>

\* The old picture is taken off the row.  The UPDATE is sent only when the
\* loaded row had one; it fails when the row is gone.  Then the job is left.
CommitRetry(q) ==
  LET replaced == handler[q].loaded # NoImage
  IN  /\ HandlerAt(q, "admitted")
      /\ \/ /\ replaced => row.exists
            /\ row' = IF replaced THEN [row EXCEPT !.image = NoImage] ELSE row
            /\ Goes(q, "queued")
            /\ Replies(q, "answered")
         \/ /\ replaced /\ ~row.exists
            /\ Replies(q, "error")
            /\ UNCHANGED <<row, worker>>
      /\ UNCHANGED <<records, images, files, started, deletion, page, crashed>>

Retry(q) == LoadRetry(q) \/ DecideRetry(q) \/ CommitRetry(q)
-----------------------------------------------------------------------------
(* delete_session *)

\* The paths of the pictures are listed before the row is deleted.
ListFiles ==
  /\ MayDelete
  /\ deletion.pc = "none"
  /\ row.exists
  /\ deletion' = [pc |-> "listed", listed |-> images]
  /\ UNCHANGED <<tables, files, started, worker, handler, page, crashed>>

\* The transaction of job j holds the row of the session.
\* BugLocksRowForever never closes the transaction.
BugLocksRowForever(j) == worker[j].pc \in {"painting", "painted", "failed", "over"}

LocksRow(j) == worker[j].pc \in {"painting", "painted", "failed"}

\* DELETE waits for the jobs that hold the row; its cascade takes every job and
\* picture row with it.
DeleteRow ==
  /\ deletion.pc = "listed"
  /\ \A j \in Jobs : ~LocksRow(j)
  /\ row' = [exists |-> FALSE, image |-> NoImage]
  /\ records' = {}
  /\ images' = {}
  /\ deletion' = [deletion EXCEPT !.pc = "deleted"]
  /\ UNCHANGED <<files, started, worker, handler, page, crashed>>

\* BugMayUnlinkEarly removes the files before the rows are gone.
BugMayUnlinkEarly == deletion.pc \in {"listed", "deleted"}

MayUnlink == deletion.pc = "deleted"

UnlinkFiles ==
  /\ MayUnlink
  /\ files' = files \ deletion.listed
  /\ deletion' = [deletion EXCEPT !.pc = "over"]
  /\ UNCHANGED <<tables, started, worker, handler, page, crashed>>
-----------------------------------------------------------------------------
(* The ending page *)

\* The page goes on polling while the picture is being painted.
GoesOn(status) == status = "generating"

\* get_ending, applied as it arrives.
Poll ==
  /\ page.polling = "on"
  /\ row.exists
  /\ LET state == StateOf(row.image)
     IN  page' = [ page EXCEPT !.status  = state.status,
                               !.image   = state.image,
                               !.polling = IF GoesOn(state.status) THEN "on" ELSE "over",
                               !.busy    = FALSE ]
  /\ UNCHANGED <<tables, files, started, worker, handler, deletion, crashed>>

\* The fourth poll in a row fails, or one is answered with 401: the page says so
\* and polls no more.  The failures before it change nothing.
PollStops ==
  /\ page.polling = "on"
  /\ page' = [page EXCEPT !.polling = "stopped"]
  /\ UNCHANGED <<tables, files, started, worker, handler, deletion, crashed>>

\* The button of that notice.
PollAgain ==
  /\ page.polling = "stopped"
  /\ page' = [page EXCEPT !.polling = "on"]
  /\ UNCHANGED <<tables, files, started, worker, handler, deletion, crashed>>

\* The button under a failed picture, or beside the error of an earlier retry,
\* then under a finished picture too; one request at a time.
AskRetry(q) ==
  /\ page.status = "failed" \/ (page.status = "done" /\ page.error)
  /\ page.asked = NoRetry /\ ~page.busy
  /\ HandlerAt(q, "none")
  /\ Replies(q, "arrived")
  /\ page' = [page EXCEPT !.asked = q, !.busy = TRUE, !.error = FALSE]
  /\ UNCHANGED <<tables, files, started, worker, deletion, crashed>>

\* The page after a successful answer shows a picture being painted, if it shows
\* the ending at all, and polls again.
\* BugRepolled leaves polling as it was.
Painting(p) ==
  [ p EXCEPT !.status = IF @ = "unknown" THEN @ ELSE "generating",
             !.image = NoImage, !.asked = NoRetry ]

BugRepolled(p) == Painting(p)

Repolled(p) == [Painting(p) EXCEPT !.polling = "on"]

\* The page after an error, or without an answer: the button is back.
Refused(p) == [p EXCEPT !.asked = NoRetry, !.busy = FALSE, !.error = TRUE]

\* The answer arrives.
HearRetry(q) ==
  /\ page.asked = q
  /\ \/ HandlerAt(q, "answered") /\ page' = Repolled(page)
     \/ HandlerAt(q, "error") /\ page' = Refused(page)
  /\ UNCHANGED <<tables, files, started, worker, handler, deletion, crashed>>

\* The answer did not come within 45 seconds: the handler goes on.
GiveUp ==
  /\ page.asked # NoRetry
  /\ page' = Refused(page)
  /\ UNCHANGED <<tables, files, started, worker, handler, deletion, crashed>>

\* The page is opened again: in the same window the retry under way is still
\* waited for, in a new one nothing is left of it.
Reopen ==
  /\ page' \in {NewPage, [NewPage EXCEPT !.asked = page.asked, !.busy = page.busy]}
  /\ UNCHANGED <<tables, files, started, worker, handler, deletion, crashed>>
-----------------------------------------------------------------------------
\* The process dies: transactions are rolled back, jobs and handlers forgotten.
Crash ==
  /\ MayCrash
  /\ ~crashed
  /\ crashed' = TRUE
  /\ worker' = [j \in Jobs |-> [worker[j] EXCEPT !.pc = IF @ = "none" THEN @ ELSE "over"]]
  /\ handler' = [q \in Retries |->
                  [handler[q] EXCEPT !.pc = IF @ = "none" THEN @ ELSE "error"]]
  /\ deletion' = [deletion EXCEPT !.pc = IF @ = "listed" THEN "none"
                                         ELSE IF @ = "deleted" THEN "over" ELSE @]
  /\ UNCHANGED <<tables, files, started, page>>

Next ==
  \/ \E j \in Jobs : Work(j)
  \/ \E q \in Retries : Retry(q) \/ AskRetry(q) \/ HearRetry(q)
  \/ ListFiles
  \/ DeleteRow
  \/ UnlinkFiles
  \/ Poll
  \/ PollStops
  \/ PollAgain
  \/ GiveUp
  \/ Reopen
  \/ Crash

Spec == Init /\ [][Next]_vars

\* Threads run, paintings end, and a page that is open hears answers and polls
\* while it has not given up (PollStops, which disables Poll, is never forced).
Fairness ==
  /\ \A j \in Jobs : WF_vars(Work(j))
  /\ \A q \in Retries : WF_vars(Retry(q)) /\ WF_vars(HearRetry(q))
  /\ WF_vars(DeleteRow)
  /\ WF_vars(UnlinkFiles)
  /\ WF_vars(Poll)

FairSpec == Spec /\ Fairness
-----------------------------------------------------------------------------
\* Type invariant.
TypeOK ==
  /\ row \in [exists : BOOLEAN, image : Pictures]
  /\ records \subseteq [at : Nat, status : {"done", "failed"}]
  /\ images \subseteq Jobs
  /\ files \subseteq Jobs
  /\ started \in Nat
  /\ worker \in [Jobs -> [ pc : {"none", "queued", "loaded", "painting", "painted", "failed", "over"},
                           at : Nat ]]
  /\ handler \in [Retries ->
       [ pc     : {"none", "arrived", "loaded", "admitted", "answered", "error"},
         loaded : Pictures ]]
  /\ deletion \in [pc : {"none", "listed", "deleted", "over"}, listed : SUBSET Jobs]
  /\ page \in [ status  : {"unknown", "generating", "done", "failed"},
                image   : Pictures,
                polling : {"on", "over", "stopped"},
                asked   : Retries \cup {NoRetry},
                busy    : BOOLEAN,
                error   : BOOLEAN ]
  /\ crashed \in BOOLEAN

\* images.py: a picture that the session, or a page of a session that is still
\* there, names is found with its file, whatever is deleted and whenever the
\* process dies.
PictureHasFile ==
  /\ images \subseteq files
  /\ row.image \in images \cup {NoImage}
  /\ row.exists => page.image \in images \cup {NoImage}

\* session_admin.py: after the delete no job brings a row of the session back.
DeletedStaysDeleted == ~row.exists => records = {} /\ images = {} /\ row.image = NoImage

Still ==
  /\ \A j \in Jobs : worker[j].pc \in {"none", "over"}
  /\ \A q \in Retries : handler[q].pc \notin {"arrived", "loaded", "admitted"}

\* ui-spec.md 10: when nothing runs any more and the process did not die, the
\* ending has a picture, or says it failed so that the player may ask again,
\* however retries and jobs overlapped.
StillMeansSettled ==
  row.exists /\ Still /\ ~crashed => row.image # NoImage \/ StateOf(row.image).status = "failed"

\* A delete does not wait for ever for the jobs that paint.
DeletionEnds == deletion.pc = "listed" ~> deletion.pc # "listed"

\* What excuses a page that does not show the picture: it has given up and says so,
\* or the session is deleted, or the process has died.
Excused == page.polling = "stopped" \/ ~row.exists \/ crashed

\* ui-spec.md 10: the page does not wait for ever.  Once a job has ended, the page shows
\* an outcome, a picture or a failure, or says that it gave up.  After a retry it may
\* be the outcome of an earlier job, which the poll finds while the new one is painting.
OutcomeReachesPage ==
  row.exists /\ records # {} ~> page.status \in {"done", "failed"} \/ Excused

\* ui-spec.md 10: the state of the picture is restored on return, whatever happened
\* to the process: no page is left waiting for a job that nobody runs.
GeneratingEnds ==
  page.status = "generating" ~> page.status # "generating" \/ page.polling = "stopped"
=============================================================================
