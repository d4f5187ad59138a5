------------------------- MODULE EndingImage_proofs -------------------------
(***************************************************************************)
(* What holds of the picture of an ending for any set of retries, with      *)
(* deletion and crash.  The argument: a job that has inserted its row keeps *)
(* the session from being deleted (Locked), so that a deleted session has   *)
(* no job left that could commit; files are removed after the rows only.    *)
(***************************************************************************)
EXTENDS EndingImage, TLAPS

\* The part of the type invariant that the argument needs.
Shape ==
  /\ row \in [exists : BOOLEAN, image : Pictures]
  /\ worker \in [Jobs -> [ pc : {"none", "queued", "loaded", "painting", "painted", "failed", "over"},
                           at : Nat ]]
  /\ started \in Nat
  /\ images \subseteq Jobs
  /\ deletion \in [pc : {"none", "listed", "deleted", "over"}, listed : SUBSET Jobs]
  /\ page = [ status |-> page.status, image |-> page.image, polling |-> page.polling,
              asked |-> page.asked, busy |-> page.busy, error |-> page.error ]

\* The steps of the page.
PageStep ==
  \/ Poll \/ PollStops \/ PollAgain \/ GiveUp \/ Reopen
  \/ \E q \in Retries : AskRetry(q) \/ HearRetry(q)

\* A job that holds the row has a session to hold.
Locked == \A j \in Jobs : LocksRow(j) => row.exists

\* A job that has painted has saved the file.
Saved == \A j \in Jobs : JobAt(j, "painted") => j \in files

\* Files are removed after the rows only.
RowsFirst == deletion.pc = "deleted" => ~row.exists

IInv ==
  /\ Shape
  /\ Locked
  /\ Saved
  /\ RowsFirst
  /\ DeletedStaysDeleted
  /\ PictureHasFile
-----------------------------------------------------------------------------
\* The state of the picture names the picture of the row or none.
LEMMA StateOfPicture ==
  ASSUME NEW image
  PROVE  StateOf(image).image \in {image, NoImage}
BY DEF StateOf

\* What a step of a job leaves of the invariant.
LEMMA WorkKeeps ==
  ASSUME IInv, NEW j \in Jobs, Work(j)
  PROVE  IInv'
<1>1. CASE LoadJob(j)
  BY <1>1 DEF IInv, Shape, Locked, Saved, RowsFirst, DeletedStaysDeleted, PictureHasFile, LoadJob,
              LocksRow, JobAt, Goes, tables
<1>2. CASE InsertJob(j)
  BY <1>2 DEF IInv, Shape, Locked, Saved, RowsFirst, DeletedStaysDeleted, PictureHasFile, InsertJob,
              SessionKnown, LocksRow, JobAt, Goes, tables
<1>3. CASE Paint(j)
  BY <1>3 DEF IInv, Shape, Locked, Saved, RowsFirst, DeletedStaysDeleted, PictureHasFile, Paint,
              LocksRow, JobAt, Goes, tables
<1>4. CASE CommitJob(j)
  <2>1. row.exists
    BY <1>4 DEF IInv, Locked, LocksRow, CommitJob, JobAt
  <2>2. row' \in [exists : BOOLEAN, image : Pictures] /\ row'.exists
    BY <1>4, <2>1 DEF IInv, Shape, CommitJob, Pictures
  <2>3. Shape' /\ Locked' /\ Saved' /\ RowsFirst' /\ DeletedStaysDeleted'
    BY <1>4, <2>2 DEF IInv, Shape, Locked, Saved, RowsFirst, DeletedStaysDeleted, CommitJob,
                      LocksRow, JobAt, Goes
  <2>4. PictureHasFile'
    <3>1. CASE JobAt(j, "painted")
      BY <1>4, <2>1, <3>1 DEF IInv, Shape, Saved, PictureHasFile, CommitJob, JobAt, Goes
    <3>2. CASE JobAt(j, "failed")
      BY <1>4, <3>2 DEF IInv, PictureHasFile, CommitJob, JobAt
    <3>3. QED
      BY <1>4, <3>1, <3>2 DEF CommitJob
  <2>5. QED
    BY <2>3, <2>4 DEF IInv
<1>5. QED
  BY <1>1, <1>2, <1>3, <1>4 DEF Work

\* What a step of a retry's handler leaves of the invariant.
LEMMA RetryKeeps ==
  ASSUME IInv, NEW q \in Retries, Retry(q)
  PROVE  IInv'
<1>1. q \in Jobs
  BY DEF Jobs
<1>2. CASE LoadRetry(q) \/ DecideRetry(q)
  BY <1>2 DEF IInv, Shape, Locked, Saved, RowsFirst, DeletedStaysDeleted, PictureHasFile, LoadRetry,
              DecideRetry, LocksRow, JobAt, tables
<1>3. CASE CommitRetry(q)
  <2>1. CASE UNCHANGED <<row, worker>>
    BY <1>3, <2>1 DEF IInv, Shape, Locked, Saved, RowsFirst, DeletedStaysDeleted, PictureHasFile,
                      CommitRetry, LocksRow, JobAt
  <2>2. CASE /\ handler[q].loaded # NoImage => row.exists
             /\ row' = IF handler[q].loaded # NoImage THEN [row EXCEPT !.image = NoImage] ELSE row
             /\ Goes(q, "queued")
    <3>1. /\ row' \in [exists : BOOLEAN, image : Pictures]
          /\ row'.exists = row.exists
          /\ row'.image \in {row.image, NoImage}
      BY <2>2 DEF IInv, Shape, Pictures
    <3>2. UNCHANGED <<records, images, files, started, deletion, page>>
      BY <1>3 DEF CommitRetry
    <3>3. Shape' /\ Locked' /\ Saved' /\ RowsFirst'
      BY <1>1, <2>2, <3>1, <3>2 DEF IInv, Shape, Locked, Saved, RowsFirst, LocksRow, JobAt, Goes
    <3>4. DeletedStaysDeleted' /\ PictureHasFile'
      BY <3>1, <3>2 DEF IInv, DeletedStaysDeleted, PictureHasFile
    <3>5. QED
      BY <3>3, <3>4 DEF IInv
  <2>3. QED
    BY <1>3, <2>1, <2>2 DEF CommitRetry
<1>4. QED
  BY <1>2, <1>3 DEF Retry

\* What a step of the delete leaves of the invariant.
LEMMA DeletionKeeps ==
  ASSUME IInv, ListFiles \/ DeleteRow \/ UnlinkFiles
  PROVE  IInv'
<1>1. CASE ListFiles
  BY <1>1 DEF IInv, Shape, Locked, Saved, RowsFirst, DeletedStaysDeleted, PictureHasFile, ListFiles,
              LocksRow, JobAt, tables
<1>2. CASE DeleteRow
  <2>1. row' = [exists |-> FALSE, image |-> NoImage] /\ records' = {} /\ images' = {}
    BY <1>2 DEF DeleteRow
  <2>2. UNCHANGED <<files, started, worker, page>> /\ \A j \in Jobs : ~LocksRow(j)
    BY <1>2 DEF DeleteRow
  <2>3. deletion' = [deletion EXCEPT !.pc = "deleted"]
    BY <1>2 DEF DeleteRow
  <2>4. Shape'
    BY <2>1, <2>2, <2>3 DEF IInv, Shape, Pictures
  <2>5. Locked' /\ Saved' /\ RowsFirst'
    BY <2>1, <2>2 DEF IInv, Locked, Saved, RowsFirst, LocksRow, JobAt
  <2>6. DeletedStaysDeleted' /\ PictureHasFile'
    BY <2>1 DEF DeletedStaysDeleted, PictureHasFile
  <2>7. QED
    BY <2>4, <2>5, <2>6 DEF IInv
<1>3. CASE UnlinkFiles
  <2>1. ~row.exists /\ images = {}
    BY <1>3 DEF IInv, RowsFirst, DeletedStaysDeleted, UnlinkFiles, MayUnlink
  <2>2. \A j \in Jobs : ~JobAt(j, "painted")
    BY <2>1 DEF IInv, Locked, LocksRow, JobAt
  <2>3. QED
    BY <1>3, <2>1, <2>2 DEF IInv, Shape, Locked, Saved, RowsFirst, DeletedStaysDeleted,
                            PictureHasFile, UnlinkFiles, LocksRow, JobAt, tables
<1>4. QED
  BY <1>1, <1>2, <1>3

\* What a step of the page leaves of the invariant.
LEMMA PageKeeps ==
  ASSUME IInv, PageStep
  PROVE  IInv'
<1>1. UNCHANGED <<tables, files, started, worker, deletion>>
  BY DEF PageStep, Poll, PollStops, PollAgain, GiveUp, Reopen, AskRetry, HearRetry
<1>2. page'.image \in {page.image, NoImage, row.image}
  <2>1. StateOf(row.image).image \in {row.image, NoImage}
    BY StateOfPicture
  <2>2. CASE Poll
    BY <2>1, <2>2 DEF Poll, IInv, Shape
  <2>3. CASE PollStops \/ PollAgain \/ GiveUp \/ \E q \in Retries : AskRetry(q) \/ HearRetry(q)
    BY <2>3 DEF PollStops, PollAgain, GiveUp, AskRetry, HearRetry, Repolled, Painting, Refused,
                IInv, Shape
  <2>4. CASE Reopen
    <3>1. CASE page' = NewPage BY <3>1 DEF NewPage
    <3>2. CASE page' = [NewPage EXCEPT !.asked = page.asked, !.busy = page.busy]
      BY <3>2 DEF NewPage
    <3> QED BY <2>4, <3>1, <3>2 DEF Reopen
  <2>5. QED
    BY <2>2, <2>3, <2>4 DEF PageStep
<1>3. page' = [ status |-> page'.status, image |-> page'.image, polling |-> page'.polling,
                asked |-> page'.asked, busy |-> page'.busy, error |-> page'.error ]
  BY DEF PageStep, Poll, PollStops, PollAgain, GiveUp, Reopen, AskRetry, HearRetry, Repolled,
         Painting, Refused, NewPage, IInv, Shape
<1>4. QED
  BY <1>1, <1>2, <1>3 DEF IInv, Shape, Locked, Saved, RowsFirst, DeletedStaysDeleted,
                          PictureHasFile, LocksRow, JobAt, tables

\* What a crash leaves of the invariant.
LEMMA CrashKeeps ==
  ASSUME IInv, Crash
  PROVE  IInv'
<1>1. \A j \in Jobs : worker'[j].pc \in {"none", "over"}
  BY DEF Crash, IInv, Shape
<1>2. Shape'
  BY DEF IInv, Shape, Crash, tables
<1>3. QED
  BY <1>1, <1>2 DEF Crash, IInv, Shape, Locked, Saved, RowsFirst, DeletedStaysDeleted,
                    PictureHasFile, LocksRow, JobAt, tables

\* The invariant is inductive.
THEOREM Inductive == Spec => []IInv
<1>1. Init => IInv
  <2> SUFFICES ASSUME Init PROVE IInv
    OBVIOUS
  <2>1. \A j \in Jobs : worker[j].pc \in {"none", "queued"} /\ worker[j].at = 0
    BY DEF Init
  <2>2. Locked /\ Saved
    BY <2>1 DEF Locked, Saved, LocksRow, JobAt
  <2>3. worker \in [Jobs -> [ pc : {"none", "queued", "loaded", "painting", "painted", "failed", "over"},
                             at : Nat ]]
    BY DEF Init
  <2>4. Shape
    BY <2>3 DEF Init, Shape, Pictures, NewPage
  <2>5. RowsFirst /\ DeletedStaysDeleted /\ PictureHasFile
    BY DEF Init, NewPage, RowsFirst, DeletedStaysDeleted, PictureHasFile
  <2>6. QED
    BY <2>2, <2>4, <2>5 DEF IInv
<1>2. IInv /\ [Next]_vars => IInv'
  <2> SUFFICES ASSUME IInv, [Next]_vars PROVE IInv'
    OBVIOUS
  <2>1. CASE UNCHANGED vars
    BY <2>1 DEF vars, tables, IInv, Shape, Locked, Saved, RowsFirst, DeletedStaysDeleted,
                PictureHasFile, LocksRow, JobAt
  <2>2. CASE Next
    BY <2>2, WorkKeeps, RetryKeeps, DeletionKeeps, PageKeeps, CrashKeeps DEF Next, PageStep
  <2>3. QED
    BY <2>1, <2>2
<1>3. QED
  BY <1>1, <1>2, PTL DEF Spec

\* images.py: a picture that the session or a page names is found with its file,
\* for any number of retries, with deletion and crash.
THEOREM PicturesKeepFiles == Spec => []PictureHasFile
<1>1. IInv => PictureHasFile
  BY DEF IInv
<1>2. QED
  BY <1>1, Inductive, PTL

\* session_admin.py: no job brings back a row of a deleted session.
THEOREM DeletionIsFinal == Spec => []DeletedStaysDeleted
<1>1. IInv => DeletedStaysDeleted
  BY DEF IInv
<1>2. QED
  BY <1>1, Inductive, PTL
-----------------------------------------------------------------------------
(***************************************************************************)
(* That a picture is settled when nothing runs: a picture is only taken    *)
(* off the row for a new job, whose transaction begins after every record  *)
(* there is, so that what that job leaves is newer than the pictures that  *)
(* were done before (NobodyForgotten).                                     *)
(***************************************************************************)

\* Of any job rows one began last.
HasNewest == \A T \in SUBSET records : T # {} => \E r \in T : \A t \in T : t.at <= r.at

\* Transactions are counted as they begin.
Counted ==
  /\ \A r \in records : r.at <= started
  /\ \A j \in Jobs : worker[j].at <= started

Begun(j) == worker[j].pc \in {"loaded", "painting", "painted", "failed"}

\* The job is still to begin, or began after this moment.
Later(j, at) == JobAt(j, "queued") \/ (Begun(j) /\ worker[j].at > at)

\* A job row of a picture that was taken off again is not the last word.
Superseded(r) ==
  \/ \E j \in Jobs : Later(j, r.at)
  \/ \E t \in records : t.status = "failed" /\ t.at > r.at

NobodyForgotten ==
  row.exists /\ ~crashed =>
    /\ records = {} => \E j \in Jobs : JobAt(j, "queued") \/ Begun(j)
    /\ row.image = NoImage => \A r \in records : r.status = "done" => Superseded(r)

SInv == TypeOK /\ HasNewest /\ Counted /\ NobodyForgotten

Pages == [ status  : {"unknown", "generating", "done", "failed"},
           image   : Pictures,
           polling : {"on", "over", "stopped"},
           asked   : Retries \cup {NoRetry},
           busy    : BOOLEAN,
           error   : BOOLEAN ]

\* The state of the picture is a state the page knows.
LEMMA StateOfType ==
  ASSUME TypeOK, HasNewest, NEW image \in Pictures
  PROVE  StateOf(image) \in [status : {"done", "generating", "failed"}, image : Pictures]
PROOF
  <1>1. CASE records = {} BY <1>1 DEF StateOf, Pictures
  <1>2. CASE records # {}
    <2>1. \E r \in records : \A t \in records : t.at <= r.at BY <1>2 DEF HasNewest
    <2>2. Newest(records) \in records BY <2>1 DEF Newest
    <2>3. Newest(records).status \in {"done", "failed"} BY <2>2 DEF TypeOK
    <2> QED BY <1>2, <2>3 DEF StateOf, Pictures
  <1> QED BY <1>1, <1>2

\* Every step keeps the types.
LEMMA NextTypeOK == TypeOK /\ HasNewest /\ [Next]_vars => TypeOK'
PROOF
  <1> SUFFICES ASSUME TypeOK, HasNewest, [Next]_vars PROVE TypeOK' OBVIOUS
  <1> USE DEF TypeOK
  <1>1. ASSUME NEW j \in Jobs, LoadJob(j) PROVE TypeOK'
    BY <1>1 DEF LoadJob, JobAt, Goes, tables
  <1>2. ASSUME NEW j \in Jobs, InsertJob(j) PROVE TypeOK'
    BY <1>2 DEF InsertJob, SessionKnown, Goes, tables
  <1>3. ASSUME NEW j \in Jobs, Paint(j) PROVE TypeOK'
    BY <1>3 DEF Paint, Goes, tables
  <1>4. ASSUME NEW j \in Jobs, CommitJob(j) PROVE TypeOK'
    BY <1>4 DEF CommitJob, FailureRecord, FailedStatus, Goes, Pictures
  <1>5. ASSUME NEW q \in Retries, LoadRetry(q) PROVE TypeOK'
    BY <1>5 DEF LoadRetry, tables, Pictures
  <1>6. ASSUME NEW q \in Retries, DecideRetry(q) PROVE TypeOK'
    BY <1>6 DEF DecideRetry, Replies, tables
  <1>7. ASSUME NEW q \in Retries, CommitRetry(q) PROVE TypeOK'
    BY <1>7 DEF CommitRetry, Replies, Goes, Pictures, Jobs
  <1>8. CASE ListFiles BY <1>8 DEF ListFiles, tables
  <1>9. CASE DeleteRow BY <1>9 DEF DeleteRow, Pictures
  <1>10. CASE UnlinkFiles BY <1>10 DEF UnlinkFiles, tables
  <1>11. CASE PageStep
    <2>1. page \in Pages BY DEF Pages
    <2>2. CASE Poll
      <3>1. StateOf(row.image) \in [status : {"done", "generating", "failed"}, image : Pictures]
        BY StateOfType
      <3>2. page' \in Pages BY <2>1, <2>2, <3>1 DEF Poll, Pages
      <3> QED BY <2>2, <3>2 DEF Poll, tables, Pages
    <2>3. CASE PollStops \/ PollAgain BY <2>3 DEF PollStops, PollAgain, tables
    <2>4. Refused(page) \in Pages BY <2>1 DEF Refused, Pages
    <2>5. ASSUME NEW q \in Retries, AskRetry(q) PROVE TypeOK'
      BY <2>5 DEF AskRetry, Replies, tables
    <2>6. ASSUME NEW q \in Retries, HearRetry(q) PROVE TypeOK'
      <3>1. Repolled(page) \in Pages BY <2>1 DEF Repolled, Painting, Pages, Pictures
      <3>2. page' \in Pages BY <2>4, <2>6, <3>1 DEF HearRetry
      <3> QED BY <2>6, <3>2 DEF HearRetry, tables, Pages
    <2>7. CASE GiveUp BY <2>4, <2>7 DEF GiveUp, tables, Pages
    <2>8. CASE Reopen
      <3>1. NewPage \in Pages BY DEF NewPage, Pages, Pictures
      <3>2. [NewPage EXCEPT !.asked = page.asked, !.busy = page.busy] \in Pages
        BY <2>1, <3>1 DEF Pages
      <3>3. page' \in Pages BY <2>8, <3>1, <3>2 DEF Reopen
      <3> QED BY <2>8, <3>3 DEF Reopen, tables, Pages
    <2> QED BY <1>11, <2>2, <2>3, <2>5, <2>6, <2>7, <2>8 DEF PageStep
  <1>12. CASE Crash
    <2>1. worker' \in [Jobs -> [ pc : {"none", "queued", "loaded", "painting", "painted", "failed",
                                       "over"}, at : Nat ]]
      BY <1>12 DEF Crash
    <2>2. handler' \in [Retries ->
            [ pc     : {"none", "arrived", "loaded", "admitted", "answered", "error"},
              loaded : Pictures ]]
      BY <1>12 DEF Crash
    <2>3. deletion' \in [pc : {"none", "listed", "deleted", "over"}, listed : SUBSET Jobs]
      BY <1>12 DEF Crash
    <2> QED BY <1>12, <2>1, <2>2, <2>3 DEF Crash, tables
  <1>13. CASE UNCHANGED vars BY <1>13 DEF vars, tables
  <1> QED BY <1>1, <1>2, <1>3, <1>4, <1>5, <1>6, <1>7, <1>8, <1>9, <1>10, <1>11, <1>12,
             <1>13 DEF Next, Work, Retry, PageStep

\* Every step leaves job rows of which one began last.
LEMMA NextHasNewest == TypeOK /\ HasNewest /\ [Next]_vars => HasNewest'
PROOF
  <1> SUFFICES ASSUME TypeOK, HasNewest, [Next]_vars PROVE HasNewest' OBVIOUS
  <1>1. \/ records' \subseteq records
        \/ \E new : new.at \in Nat /\ records' = records \cup {new}
    <2>1. ASSUME NEW j \in Jobs, CommitJob(j)
          PROVE  \E new : new.at \in Nat /\ records' = records \cup {new}
      BY <2>1 DEF CommitJob, FailureRecord, TypeOK
    <2>2. ASSUME NEW j \in Jobs, LoadJob(j) \/ InsertJob(j) \/ Paint(j) PROVE UNCHANGED records
      BY <2>2 DEF LoadJob, InsertJob, Paint, tables
    <2>3. ASSUME NEW q \in Retries, Retry(q) PROVE UNCHANGED records
      BY <2>3 DEF Retry, LoadRetry, DecideRetry, CommitRetry, tables
    <2>4. ASSUME ListFiles \/ DeleteRow \/ UnlinkFiles \/ Crash PROVE records' \subseteq records
      BY <2>4 DEF ListFiles, DeleteRow, UnlinkFiles, Crash, tables
    <2>5. CASE PageStep
      BY <2>5 DEF PageStep, Poll, PollStops, PollAgain, GiveUp, Reopen, AskRetry, HearRetry, tables
    <2>6. CASE UNCHANGED vars BY <2>6 DEF vars, tables
    <2> QED BY <2>1, <2>2, <2>3, <2>4, <2>5, <2>6 DEF Next, Work, PageStep
  <1>2. CASE records' \subseteq records BY <1>2 DEF HasNewest
  <1>3. CASE \E new : new.at \in Nat /\ records' = records \cup {new}
    <2>1. PICK new : new.at \in Nat /\ records' = records \cup {new} BY <1>3
    <2> SUFFICES ASSUME NEW T \in SUBSET records', T # {}
                 PROVE  \E r \in T : \A t \in T : t.at <= r.at
      BY DEF HasNewest
    <2>2. CASE T \ {new} = {}
      <3>1. T = {new} BY <2>2
      <3> QED BY <2>1, <3>1
    <2>3. CASE T \ {new} # {}
      <3>1. T \ {new} \subseteq records BY <2>1
      <3>2. PICK r \in T \ {new} : \A t \in T \ {new} : t.at <= r.at BY <2>3, <3>1 DEF HasNewest
      <3>3. \A t \in T \ {new} : t.at \in Nat BY <3>1 DEF TypeOK
      <3>4. CASE new.at <= r.at BY <3>2, <3>4
      <3>5. CASE ~(new.at <= r.at) /\ new \in T BY <2>1, <3>2, <3>3, <3>5
      <3>6. CASE new \notin T BY <3>2, <3>6
      <3> QED BY <3>4, <3>5, <3>6
    <2> QED BY <2>2, <2>3
  <1> QED BY <1>1, <1>2, <1>3

\* Every step counts the transactions.
LEMMA NextCounted == TypeOK /\ Counted /\ [Next]_vars => Counted'
PROOF
  <1> SUFFICES ASSUME TypeOK, Counted, [Next]_vars PROVE Counted' OBVIOUS
  <1> USE DEF TypeOK, Counted
  <1>1. ASSUME NEW j \in Jobs, LoadJob(j) PROVE Counted'
    BY <1>1 DEF LoadJob, Goes, tables
  <1>2. ASSUME NEW j \in Jobs, InsertJob(j) \/ Paint(j) PROVE Counted'
    BY <1>2 DEF InsertJob, Paint, Goes, tables
  <1>3. ASSUME NEW j \in Jobs, CommitJob(j) PROVE Counted'
    BY <1>3 DEF CommitJob, FailureRecord, Goes
  <1>4. ASSUME NEW q \in Retries, Retry(q) PROVE Counted'
    BY <1>4 DEF Retry, LoadRetry, DecideRetry, CommitRetry, Goes, tables
  <1>5. ASSUME ListFiles \/ UnlinkFiles \/ PageStep PROVE Counted'
    <2>1. UNCHANGED << records, started >> /\ worker' = worker
      BY <1>5 DEF ListFiles, UnlinkFiles, PageStep, Poll, PollStops, PollAgain, GiveUp, Reopen,
                  AskRetry, HearRetry, tables
    <2> QED BY <2>1
  <1>6. CASE DeleteRow BY <1>6 DEF DeleteRow
  <1>7. CASE Crash BY <1>7 DEF Crash, tables
  <1>8. CASE UNCHANGED vars BY <1>8 DEF vars, tables
  <1> QED BY <1>1, <1>2, <1>3, <1>4, <1>5, <1>6, <1>7, <1>8 DEF Next, Work, PageStep

\* What a step does to the jobs and their rows, in the terms of NobodyForgotten.
LEMMA NextNobodyForgotten ==
  TypeOK /\ Counted /\ NobodyForgotten /\ [Next]_vars => NobodyForgotten'
PROOF
  <1> SUFFICES ASSUME TypeOK, Counted, NobodyForgotten, [Next]_vars, row.exists', ~crashed'
               PROVE  /\ records' = {} => \E j \in Jobs : (JobAt(j, "queued") \/ Begun(j))'
                      /\ row'.image = NoImage =>
                           \A r \in records' : r.status = "done" => Superseded(r)'
    BY DEF NobodyForgotten
  <1> DEFINE Goal == /\ records' = {} => \E j \in Jobs : (JobAt(j, "queued") \/ Begun(j))'
                     /\ row'.image = NoImage =>
                          \A r \in records' : r.status = "done" => Superseded(r)'
  <1> USE DEF TypeOK, JobAt, Begun, Later, Superseded
  <1>1. ASSUME NEW j \in Jobs, LoadJob(j) PROVE Goal
    <2>1. row.exists /\ ~crashed /\ UNCHANGED << records, row >> BY <1>1 DEF LoadJob, tables
    <2>2. worker' = [worker EXCEPT ![j] = [pc |-> "loaded", at |-> started + 1]]
      BY <1>1, <2>1 DEF LoadJob
    <2>3. \A r \in records : r.at < started + 1 BY DEF Counted
    <2> QED BY <2>1, <2>2, <2>3 DEF NobodyForgotten
  <1>2. ASSUME NEW j \in Jobs, InsertJob(j) \/ Paint(j) PROVE Goal
    <2>1. row.exists /\ ~crashed /\ UNCHANGED << records, row >>
      BY <1>2 DEF InsertJob, Paint, tables
    <2>2. /\ worker'[j].pc \in {"painting", "painted", "failed"} /\ Begun(j)
          /\ worker'[j].at = worker[j].at /\ \A k \in Jobs \ {j} : worker'[k] = worker[k]
      BY <1>2, <2>1 DEF InsertJob, Paint, SessionKnown, Goes
    <2> QED BY <2>1, <2>2 DEF NobodyForgotten
  <1>3. ASSUME NEW j \in Jobs, CommitJob(j) PROVE Goal
    <2>1. records' # {} BY <1>3 DEF CommitJob, FailureRecord
    <2>2. CASE JobAt(j, "painted")
      <3>1. row' = [row EXCEPT !.image = j] BY <1>3, <2>2 DEF CommitJob
      <3>2. row'.image = j BY <3>1
      <3> QED BY <2>1, <3>2, JobsAssumption
    <2>3. CASE JobAt(j, "failed")
      <3>1. /\ records' = records \cup {[at |-> worker[j].at, status |-> "failed"]}
            /\ UNCHANGED row /\ ~crashed /\ \A k \in Jobs \ {j} : worker'[k] = worker[k]
        BY <1>3, <2>3 DEF CommitJob, FailureRecord, FailedStatus, Goes
      <3>2. ASSUME NEW r \in records', r.status = "done", row'.image = NoImage
            PROVE  Superseded(r)'
        <4>1. r \in records BY <3>1, <3>2
        <4>2. Superseded(r) BY <3>1, <3>2, <4>1 DEF NobodyForgotten
        <4>3. CASE Later(j, r.at)
          <5> DEFINE t == [at |-> worker[j].at, status |-> "failed"]
          <5>1. t \in records' /\ t.status = "failed" /\ t.at > r.at BY <2>3, <3>1, <4>3
          <5> QED BY <5>1
        <4>4. CASE ~Later(j, r.at) BY <3>1, <4>2, <4>4
        <4> QED BY <4>3, <4>4
      <3> QED BY <2>1, <3>2
    <2> QED BY <1>3, <2>2, <2>3 DEF CommitJob
  <1>4. ASSUME NEW q \in Retries, CommitRetry(q) PROVE Goal
    <2>1. q \in Jobs /\ UNCHANGED << records, crashed >> BY <1>4 DEF CommitRetry, Jobs
    <2>2. CASE worker'[q].pc = "queued"
      <3>1. \E j \in Jobs : worker'[j].pc = "queued" BY <2>1, <2>2
      <3>2. \E j \in Jobs : (JobAt(j, "queued") \/ Begun(j))' BY <3>1
      <3>3. ASSUME NEW r \in records' PROVE Superseded(r)'
        <4>1. \E j \in Jobs : Later(j, r.at)' BY <3>1
        <4> QED BY <4>1
      <3> QED BY <3>2, <3>3
    <2>3. CASE UNCHANGED << row, worker >> BY <2>1, <2>3 DEF NobodyForgotten
    <2>4. worker'[q].pc = "queued" \/ UNCHANGED << row, worker >>
      BY <2>1, <1>4 DEF CommitRetry, Goes
    <2> QED BY <2>2, <2>3, <2>4
  <1>5. ASSUME \/ ListFiles \/ UnlinkFiles \/ PageStep
               \/ \E q \in Retries : LoadRetry(q) \/ DecideRetry(q)
        PROVE  Goal
    <2>1. UNCHANGED << row, records, worker, crashed >>
      BY <1>5 DEF ListFiles, UnlinkFiles, PageStep, Poll, PollStops, PollAgain, GiveUp, Reopen,
                  LoadRetry, DecideRetry, AskRetry, HearRetry, tables
    <2> QED BY <2>1 DEF NobodyForgotten
  <1>6. CASE DeleteRow BY <1>6 DEF DeleteRow
  <1>7. CASE Crash BY <1>7 DEF Crash
  <1>8. CASE UNCHANGED vars
    <2>1. UNCHANGED << row, records, worker, crashed >> BY <1>8 DEF vars, tables
    <2> QED BY <2>1 DEF NobodyForgotten
  <1> QED BY <1>1, <1>2, <1>3, <1>4, <1>5, <1>6, <1>7, <1>8 DEF Next, Work, Retry, PageStep

\* The second invariant is inductive.
THEOREM Settling == Spec => []SInv
PROOF
  <1>1. Init => SInv
    <2> SUFFICES ASSUME Init PROVE SInv OBVIOUS
    <2>1. FirstJob \in Jobs BY DEF Jobs
    <2>2. worker \in [Jobs -> [ pc : {"none", "queued", "loaded", "painting", "painted", "failed",
                                      "over"}, at : Nat ]]
      BY DEF Init
    <2>3. TypeOK BY <2>2 DEF Init, NewPage, TypeOK, Pictures
    <2>4. HasNewest /\ Counted BY DEF Init, HasNewest, Counted
    <2>5. NobodyForgotten BY <2>1 DEF Init, NobodyForgotten, JobAt
    <2> QED BY <2>3, <2>4, <2>5 DEF SInv
  <1>2. SInv /\ [Next]_vars => SInv'
    BY NextTypeOK, NextHasNewest, NextCounted, NextNobodyForgotten DEF SInv
  <1> QED BY <1>1, <1>2, PTL DEF Spec

\* The state of jobs, handlers and the page is of its kind.
THEOREM TypeCorrect == Spec => []TypeOK
PROOF
  <1>1. SInv => TypeOK BY DEF SInv
  <1> QED BY <1>1, Settling, PTL

\* ui-spec.md 10: when nothing runs any more, the ending has its picture or says that it
\* failed, for any number of retries that overlap.
THEOREM PicturesAreSettled == Spec => []StillMeansSettled
PROOF
  <1>1. SInv => StillMeansSettled
    <2> SUFFICES ASSUME SInv, row.exists, Still, ~crashed, row.image = NoImage
                 PROVE  StateOf(row.image).status = "failed"
      BY DEF StillMeansSettled
    <2>1. \A j \in Jobs : ~(JobAt(j, "queued") \/ Begun(j)) BY DEF Still, JobAt, Begun
    <2>2. records # {} BY <2>1 DEF SInv, NobodyForgotten
    <2>3. \E r \in records : \A t \in records : t.at <= r.at BY <2>2 DEF SInv, HasNewest
    <2>4. Newest(records) \in records /\ \A t \in records : t.at <= Newest(records).at
      BY <2>3 DEF Newest
    <2>5. ~Superseded(Newest(records))
      <3>1. \A t \in records : t.at \in Nat BY DEF SInv, TypeOK
      <3>2. \A t \in records : ~(t.at > Newest(records).at) BY <2>4, <3>1
      <3> QED BY <2>1, <3>2 DEF Superseded, Later
    <2>6. Newest(records).status = "failed" BY <2>4, <2>5 DEF SInv, NobodyForgotten, TypeOK
    <2> QED BY <2>2, <2>6 DEF StateOf
  <1> QED BY <1>1, Settling, PTL
=============================================================================
