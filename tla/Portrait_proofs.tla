-------------------------- MODULE Portrait_proofs --------------------------
(***************************************************************************)
(* What holds of the portrait and the images of a session for any number   *)
(* of redraws, starts and scenes, with deletion and crash.                 *)
(*                                                                         *)
(* Files: a reset removes the files of scenes that no painter commits any  *)
(* more (Passed), and a deletion removes its files when nobody can commit  *)
(* (Locked). Scenes: of the painters that hold a job of one scene there is *)
(* one (OneHolder), there is no other job of it (HolderIsFirst), and every *)
(* image has a job (ImageHasJob).                                          *)
(*                                                                         *)
(* Requests: two that are at work have met (Together), and one that has    *)
(* met none acts on the row as it is (Loaded, Ruling).  So a redraw that   *)
(* met none is in the count (Counted), painted for its request alone       *)
(* (Twice), and, the jobs being numbered as they begin (Dated, Begun,      *)
(* Named), the newest job tells why there is no portrait (Hidden).         *)
(*                                                                         *)
(* Where no two have met and nothing dies or is deleted every scene is     *)
(* tried in the end (SceneInv): a painter that meets another one's scene   *)
(* leaves it the rest, so the one that leads has every scene before its    *)
(* own tried, and past it lie only the scenes of the one that started      *)
(* further on.                                                             *)
(*                                                                         *)
(* The page: one that gives no request up waits for all there is           *)
(* (Patient), so that no two of its requests meet.                         *)
(***************************************************************************)
EXTENDS Appearance, FiniteSetTheorems, TLAPS

\* A painter that works is at a scene of the session.
InOrder ==
  \A p \in Painters :
    /\ painter[p].pc \in {"none", "queued"} => painter[p].scene = 0
    /\ painter[p].pc \in {"next", "painting", "painted", "failed"} => painter[p].scene \in Scenes

\* A redraw that counts was loaded below the limit.
Admitted ==
  \A h \in Runs :
    /\ handler[h].pc \in {"none", "loaded"} => ~handler[h].counts
    /\ handler[h].counts => ~LimitReached(handler[h].loaded)

\* Who leaves a painter behind has not left one yet.
Unpainted ==
  /\ \A h \in Runs : handler[h].pc # "over" => painter[h].pc = "none"
  /\ \A s \in Starts : starter[s].pc # "over" => painter[s].pc = "none"

TypeInv == TypeOK /\ InOrder /\ Admitted /\ Unpainted

\* The painter of this scene image has gone on to a later scene, or has ended.
Passed(i) == painter[i.by].pc = "over" \/ i.scene < painter[i.by].scene

ScenesPassed ==
  /\ \A i \in images : i.scene # 0 => Passed(i)
  /\ \A h \in Runs : \A i \in handler[h].oldFiles : i.scene # 0 /\ Passed(i)

\* A job row that is not committed keeps the session.
Locked ==
  /\ \A p \in Painters : Holds(p) => row.exists
  /\ \A h \in Runs : handler[h].pc \in {"painting", "painted", "failed"} => row.exists

\* Files are removed after the rows only.
RowsFirst == deletion.pc = "deleted" => ~row.exists

LockInv == Locked /\ RowsFirst /\ DeletedStaysDeleted

\* A picture that was painted has its file before its row.
Saved ==
  /\ \A p \in Painters : painter[p].pc = "painted" => Picture(p) \in files
  /\ \A h \in Runs : At(h, "painted") => [by |-> h, scene |-> 0] \in files

\* The files that a reset is about to remove are nobody's.
OldFilesGone == \A h \in Runs : At(h, "reset") => handler[h].oldFiles \cap images = {}

FileInv == Saved /\ OldFilesGone /\ ImagesHaveFiles

OneHolder ==
  \A p, q \in Painters : Holds(p) /\ Holds(q) /\ painter[p].scene = painter[q].scene => p = q

HolderIsFirst == \A p \in Painters : Holds(p) => \A j \in jobs : j.scene # painter[p].scene

ImageHasJob == \A i \in images : i.scene # 0 => \E j \in jobs : j.scene = i.scene

SlotInv == OneHolder /\ HolderIsFirst /\ ImageHasJob /\ OneImagePerScene

IInv == TypeInv /\ LockInv /\ ScenesPassed /\ FileInv /\ SlotInv
-----------------------------------------------------------------------------
(* Types *)

TablesOK ==
  /\ row \in Rows
  /\ attempts \subseteq [at : Nat, status : {"done", "failed"}]
  /\ jobs \subseteq SceneJobs
  /\ images \subseteq Images
  /\ files \subseteq Images
  /\ log \subseteq {Request[h] : h \in Runs}
  /\ began \in Nat
  /\ crashed \in BOOLEAN
  /\ met \subseteq SUBSET (Runs \cup Starts)

RunSteps == {"none", "loaded", "admitted", "resetting", "reset", "painting", "painted", "failed",
             "drawn", "undrawn", "over"}

RunStates ==
  [ pc : RunSteps, loaded : Rows, counts : BOOLEAN, at : Nat,
    oldJobs : SUBSET SceneJobs, oldFiles : SUBSET Images ]

HandlerOK == handler \in [Runs -> RunStates]

StarterOK == starter \in [Starts -> [pc : {"none", "loaded", "over"}, loaded : Rows]]

PainterOK ==
  painter \in [Painters ->
    [ pc : {"none", "queued", "next", "painting", "painted", "failed", "over"},
      scene : 0..SCENES, portrait : Portraits \cup {None} ]]

DeletionOK ==
  deletion \in [pc : {"none", "listed", "deleted", "over"}, listed : SUBSET Images]

\* The type invariant in parts.
LEMMA TypeParts == TypeOK <=> TablesOK /\ HandlerOK /\ StarterOK /\ PainterOK /\ DeletionOK
PROOF BY DEF TypeOK, TablesOK, HandlerOK, RunStates, RunSteps, StarterOK, PainterOK, DeletionOK

\* The scenes and painters are what their names say.
LEMMA ConstantsFit ==
  /\ SCENES \in Nat \ {0}
  /\ First \notin Runs /\ None \notin Portraits /\ Starts \cap Portraits = {}
  /\ Runs \subseteq Painters /\ Starts \subseteq Painters /\ Runs \subseteq Portraits
  /\ Portraits \subseteq Painters
PROOF BY SCENESAssumption, RunsAssumption DEF Portraits, Painters

\* A session begins well-formed.
LEMMA InitTypeInv == Init => TypeInv
PROOF
  <1> SUFFICES ASSUME Init PROVE TypeInv OBVIOUS
  <1>0. PICK drawn \in BOOLEAN, count \in Painted :
          /\ row = [ exists |-> TRUE, portrait |-> IF drawn THEN First ELSE None,
                     confirmed |-> FALSE, count |-> count ]
          /\ attempts = {[at |-> 0, status |-> IF drawn THEN "done" ELSE "failed"]}
          /\ images = IF drawn THEN {[by |-> First, scene |-> 0]} ELSE {}
          /\ painter = [p \in Painters |->
                         [ pc |-> IF drawn /\ p = First THEN "queued" ELSE "none", scene |-> 0,
                           portrait |-> IF p = First THEN First ELSE None ]]
    BY DEF Init
  <1>1. /\ jobs = {} /\ files = images /\ log = {} /\ began = 0 /\ crashed = FALSE /\ met = {}
        /\ handler = [h \in Runs |-> [ pc |-> "none", loaded |-> row, counts |-> FALSE, at |-> 0,
                                       oldJobs |-> {}, oldFiles |-> {} ]]
        /\ starter = [s \in Starts |-> [pc |-> "none", loaded |-> row]]
        /\ deletion = [pc |-> "none", listed |-> {}]
    BY DEF Init
  <1>2. row \in Rows BY <1>0, PaintedAssumption DEF Rows, Portraits
  <1>3. images \subseteq Images BY <1>0, ConstantsFit DEF Images, Portraits
  <1>4. painter \in [Painters ->
          [ pc : {"none", "queued", "next", "painting", "painted", "failed", "over"},
            scene : 0..SCENES, portrait : Portraits \cup {None} ]]
    BY <1>0, ConstantsFit DEF Portraits
  <1>5. TypeOK
    <2>1. attempts \subseteq [at : Nat, status : {"done", "failed"}] BY <1>0
    <2>2. jobs \subseteq SceneJobs /\ log \subseteq {Request[h] : h \in Runs} BY <1>1
    <2>3. /\ began \in Nat /\ crashed \in BOOLEAN /\ files \subseteq Images
          /\ met \subseteq SUBSET (Runs \cup Starts)
      BY <1>1, <1>3
    <2>4. TablesOK BY <1>2, <1>3, <2>1, <2>2, <2>3 DEF TablesOK
    <2>5. HandlerOK BY <1>1, <1>2 DEF HandlerOK, RunStates, RunSteps
    <2>6. StarterOK /\ DeletionOK BY <1>1, <1>2 DEF StarterOK, DeletionOK
    <2> QED BY <1>4, <2>4, <2>5, <2>6, TypeParts DEF PainterOK
  <1>6. InOrder BY <1>0 DEF InOrder
  <1>7. Admitted BY <1>1 DEF Admitted
  <1>8. Unpainted BY <1>0, <1>1, ConstantsFit DEF Unpainted, Portraits
  <1> QED BY <1>5, <1>6, <1>7, <1>8 DEF TypeInv

\* Every step keeps the tables well-formed; a redraw that counts was below the limit.
LEMMA NextTablesOK ==
  TablesOK /\ HandlerOK /\ StarterOK /\ PainterOK /\ Admitted /\ InOrder /\ [Next]_vars
    => TablesOK'
PROOF
  <1> SUFFICES ASSUME TablesOK, HandlerOK, StarterOK, PainterOK, Admitted, InOrder, [Next]_vars
               PROVE  TablesOK'
    OBVIOUS
  <1> USE ConstantsFit DEF TablesOK
  <1>1. ASSUME NEW h \in Runs, LoadRetry(h) PROVE TablesOK'
    BY <1>1 DEF LoadRetry, Joins, AtWork, tables
  <1>2. ASSUME NEW h \in Runs, DecideRetry(h) PROVE TablesOK'
    BY <1>2 DEF DecideRetry, tables
  <1>3. ASSUME NEW h \in Runs, ListScenes(h) PROVE TablesOK'
    BY <1>3 DEF ListScenes, tables
  <1>4. ASSUME NEW h \in Runs, ResetScenes(h) PROVE TablesOK'
    BY <1>4 DEF ResetScenes
  <1>5. ASSUME NEW h \in Runs, BeginPortrait(h) PROVE TablesOK'
    BY <1>5 DEF BeginPortrait, tables
  <1>6. ASSUME NEW h \in Runs, PaintPortrait(h) PROVE TablesOK'
    BY <1>6 DEF PaintPortrait, Images, tables
  <1>7. ASSUME NEW h \in Runs, CommitPortrait(h) PROVE TablesOK'
    <2>1. handler[h].loaded \in Rows /\ handler[h].at \in Nat
      BY DEF HandlerOK, RunStates
    <2>2. handler[h].counts => handler[h].loaded.count + 1 \in 0..PORTRAIT_RETRY_LIMIT
      BY <2>1 DEF Admitted, LimitReached, Rows, PORTRAIT_RETRY_LIMIT
    <2>3. PortraitAfter(h) \in Portraits \cup {None}
      BY DEF PortraitAfter, Rows
    <2>4. row' \in Rows BY <1>7, <2>2, <2>3 DEF CommitPortrait, Rows
    <2> QED BY <1>7, <2>1, <2>4 DEF CommitPortrait, Images
  <1>8. ASSUME NEW h \in Runs, StoreRetry(h) PROVE TablesOK'
    BY <1>8 DEF StoreRetry
  <1>9. ASSUME NEW s \in Starts, LoadStart(s) PROVE TablesOK'
    BY <1>9 DEF LoadStart, Joins, AtWork, tables
  <1>10. ASSUME NEW s \in Starts, ConfirmStart(s) PROVE TablesOK'
    BY <1>10 DEF ConfirmStart, Rows
  <1>11. ASSUME NEW p \in Painters, BeginPainter(p) PROVE TablesOK'
    BY <1>11 DEF BeginPainter, tables
  <1>12. ASSUME NEW p \in Painters, InsertJob(p) PROVE TablesOK'
    BY <1>12 DEF InsertJob, tables
  <1>13. ASSUME NEW p \in Painters, PaintScene(p) PROVE TablesOK'
    <2>1. painter[p].scene \in 0..SCENES BY DEF PainterOK
    <2> QED BY <1>13, <2>1 DEF PaintScene, Picture, Images, tables
  <1>14. ASSUME NEW p \in Painters, CommitScene(p) PROVE TablesOK'
    <2>1. painter[p].scene \in Scenes BY <1>14 DEF InOrder, CommitScene
    <2> QED BY <1>14, <2>1 DEF CommitScene, Picture, Images, SceneJobs, Scenes
  <1>15. CASE ListFiles
    BY <1>15 DEF ListFiles, tables
  <1>16. CASE DeleteRow
    BY <1>16 DEF DeleteRow, Rows
  <1>17. CASE UnlinkFiles
    BY <1>17 DEF UnlinkFiles, tables
  <1>18. CASE Crash
    BY <1>18 DEF Crash, tables
  <1>19. CASE UNCHANGED vars
    BY <1>19 DEF vars, tables
  <1> QED BY <1>1, <1>2, <1>3, <1>4, <1>5, <1>6, <1>7, <1>8, <1>9, <1>10, <1>11, <1>12, <1>13,
             <1>14, <1>15, <1>16, <1>17, <1>18, <1>19 DEF Next, Retry, Paint

\* Every step keeps the state of the redraws well-formed.
LEMMA NextHandlerOK == TablesOK /\ HandlerOK /\ [Next]_vars => HandlerOK'
PROOF
  <1> SUFFICES ASSUME TablesOK, HandlerOK, [Next]_vars PROVE HandlerOK' OBVIOUS
  <1> USE DEF HandlerOK, RunStates, RunSteps
  <1>1. ASSUME NEW h \in Runs, LoadRetry(h) PROVE HandlerOK'
    <2>1. row \in Rows BY DEF TablesOK
    <2> DEFINE next == [handler[h] EXCEPT !.pc = IF row.exists THEN "loaded" ELSE "over",
      !.loaded = row]
    <2>2. next \in RunStates BY <2>1
    <2>3. handler' = [handler EXCEPT ![h] = next] BY <1>1 DEF LoadRetry
    <2> HIDE DEF next
    <2> QED BY <2>2, <2>3
  <1>2. ASSUME NEW h \in Runs, DecideRetry(h) PROVE HandlerOK'
    BY <1>2 DEF DecideRetry, At, Goes
  <1>3. ASSUME NEW h \in Runs, ListScenes(h) PROVE HandlerOK'
    <2>1. jobs \in SUBSET SceneJobs /\ OldFiles \in SUBSET Images BY DEF TablesOK, OldFiles
    <2> DEFINE next == [handler[h] EXCEPT !.pc = "resetting", !.oldJobs = jobs,
      !.oldFiles = OldFiles]
    <2>2. next \in RunStates BY <2>1
    <2>3. handler' = [handler EXCEPT ![h] = next] BY <1>3 DEF ListScenes
    <2> HIDE DEF next
    <2> QED BY <2>2, <2>3
  <1>4. ASSUME NEW h \in Runs, ResetScenes(h) PROVE HandlerOK'
    BY <1>4 DEF ResetScenes, At
  <1>5. ASSUME NEW h \in Runs, BeginPortrait(h) PROVE HandlerOK'
    <2>1. began + 1 \in Nat /\ {} \in SUBSET Images BY DEF TablesOK
    <2> DEFINE next == [handler[h] EXCEPT !.pc = IF row.exists THEN "painting" ELSE "over",
                                      !.at = began + 1, !.oldFiles = {}]
    <2>2. next \in RunStates BY <2>1
    <2>3. handler' = [handler EXCEPT ![h] = next] BY <1>5 DEF BeginPortrait
    <2> HIDE DEF next
    <2> QED BY <2>2, <2>3
  <1>6. ASSUME NEW h \in Runs, PaintPortrait(h) PROVE HandlerOK'
    BY <1>6 DEF PaintPortrait, At, Goes
  <1>7. ASSUME NEW h \in Runs, CommitPortrait(h) PROVE HandlerOK'
    BY <1>7 DEF CommitPortrait, At, Goes
  <1>8. ASSUME NEW h \in Runs, StoreRetry(h) PROVE HandlerOK'
    BY <1>8 DEF StoreRetry, Goes
  <1>9. ASSUME NEW s \in Starts, LoadStart(s) PROVE HandlerOK'
    BY <1>9 DEF LoadStart
  <1>10. ASSUME NEW s \in Starts, ConfirmStart(s) PROVE HandlerOK'
    BY <1>10 DEF ConfirmStart
  <1>11. ASSUME NEW p \in Painters, BeginPainter(p) PROVE HandlerOK'
    BY <1>11 DEF BeginPainter
  <1>12. ASSUME NEW p \in Painters, InsertJob(p) PROVE HandlerOK'
    BY <1>12 DEF InsertJob
  <1>13. ASSUME NEW p \in Painters, PaintScene(p) PROVE HandlerOK'
    BY <1>13 DEF PaintScene
  <1>14. ASSUME NEW p \in Painters, CommitScene(p) PROVE HandlerOK'
    BY <1>14 DEF CommitScene
  <1>15. CASE ListFiles
    BY <1>15 DEF ListFiles
  <1>16. CASE DeleteRow
    BY <1>16 DEF DeleteRow
  <1>17. CASE UnlinkFiles
    BY <1>17 DEF UnlinkFiles
  <1>18. CASE Crash
    BY <1>18 DEF Crash
  <1>19. CASE UNCHANGED vars
    BY <1>19 DEF vars
  <1> QED BY <1>1, <1>2, <1>3, <1>4, <1>5, <1>6, <1>7, <1>8, <1>9, <1>10, <1>11, <1>12, <1>13,
             <1>14, <1>15, <1>16, <1>17, <1>18, <1>19 DEF Next, Retry, Paint

\* Every step keeps the state of the starts well-formed.
LEMMA NextStarterOK == TablesOK /\ StarterOK /\ [Next]_vars => StarterOK'
PROOF
  <1> SUFFICES ASSUME TablesOK, StarterOK, [Next]_vars PROVE StarterOK' OBVIOUS
  <1> USE DEF StarterOK
  <1>1. ASSUME NEW h \in Runs, LoadRetry(h) PROVE StarterOK'
    BY <1>1 DEF LoadRetry
  <1>2. ASSUME NEW h \in Runs, DecideRetry(h) PROVE StarterOK'
    BY <1>2 DEF DecideRetry
  <1>3. ASSUME NEW h \in Runs, ListScenes(h) PROVE StarterOK'
    BY <1>3 DEF ListScenes
  <1>4. ASSUME NEW h \in Runs, ResetScenes(h) PROVE StarterOK'
    BY <1>4 DEF ResetScenes
  <1>5. ASSUME NEW h \in Runs, BeginPortrait(h) PROVE StarterOK'
    BY <1>5 DEF BeginPortrait
  <1>6. ASSUME NEW h \in Runs, PaintPortrait(h) PROVE StarterOK'
    BY <1>6 DEF PaintPortrait
  <1>7. ASSUME NEW h \in Runs, CommitPortrait(h) PROVE StarterOK'
    BY <1>7 DEF CommitPortrait
  <1>8. ASSUME NEW h \in Runs, StoreRetry(h) PROVE StarterOK'
    BY <1>8 DEF StoreRetry
  <1>9. ASSUME NEW s \in Starts, LoadStart(s) PROVE StarterOK'
    BY <1>9 DEF LoadStart, TablesOK
  <1>10. ASSUME NEW s \in Starts, ConfirmStart(s) PROVE StarterOK'
    BY <1>10 DEF ConfirmStart
  <1>11. ASSUME NEW p \in Painters, BeginPainter(p) PROVE StarterOK'
    BY <1>11 DEF BeginPainter
  <1>12. ASSUME NEW p \in Painters, InsertJob(p) PROVE StarterOK'
    BY <1>12 DEF InsertJob
  <1>13. ASSUME NEW p \in Painters, PaintScene(p) PROVE StarterOK'
    BY <1>13 DEF PaintScene
  <1>14. ASSUME NEW p \in Painters, CommitScene(p) PROVE StarterOK'
    BY <1>14 DEF CommitScene
  <1>15. CASE ListFiles
    BY <1>15 DEF ListFiles
  <1>16. CASE DeleteRow
    BY <1>16 DEF DeleteRow
  <1>17. CASE UnlinkFiles
    BY <1>17 DEF UnlinkFiles
  <1>18. CASE Crash
    BY <1>18 DEF Crash
  <1>19. CASE UNCHANGED vars
    BY <1>19 DEF vars
  <1> QED BY <1>1, <1>2, <1>3, <1>4, <1>5, <1>6, <1>7, <1>8, <1>9, <1>10, <1>11, <1>12, <1>13,
             <1>14, <1>15, <1>16, <1>17, <1>18, <1>19 DEF Next, Retry, Paint

\* Every step keeps the state of the painters well-formed.
LEMMA NextPainterOK == PainterOK /\ StarterOK /\ InOrder /\ [Next]_vars => PainterOK'
PROOF
  <1> SUFFICES ASSUME PainterOK, StarterOK, InOrder, [Next]_vars PROVE PainterOK' OBVIOUS
  <1> USE ConstantsFit DEF PainterOK
  <1>1. ASSUME NEW h \in Runs, LoadRetry(h) PROVE PainterOK'
    BY <1>1 DEF LoadRetry
  <1>2. ASSUME NEW h \in Runs, DecideRetry(h) PROVE PainterOK'
    BY <1>2 DEF DecideRetry
  <1>3. ASSUME NEW h \in Runs, ListScenes(h) PROVE PainterOK'
    BY <1>3 DEF ListScenes
  <1>4. ASSUME NEW h \in Runs, ResetScenes(h) PROVE PainterOK'
    BY <1>4 DEF ResetScenes
  <1>5. ASSUME NEW h \in Runs, BeginPortrait(h) PROVE PainterOK'
    BY <1>5 DEF BeginPortrait
  <1>6. ASSUME NEW h \in Runs, PaintPortrait(h) PROVE PainterOK'
    BY <1>6 DEF PaintPortrait
  <1>7. ASSUME NEW h \in Runs, CommitPortrait(h) PROVE PainterOK'
    BY <1>7 DEF CommitPortrait
  <1>8. ASSUME NEW h \in Runs, StoreRetry(h) PROVE PainterOK'
    BY <1>8 DEF StoreRetry
  <1>9. ASSUME NEW s \in Starts, LoadStart(s) PROVE PainterOK'
    BY <1>9 DEF LoadStart
  <1>10. ASSUME NEW s \in Starts, ConfirmStart(s) PROVE PainterOK'
    BY <1>10 DEF ConfirmStart, StarterOK, MayStart, Rows
  <1>11. ASSUME NEW p \in Painters, BeginPainter(p) PROVE PainterOK'
    <2>1. 1 \in 0..SCENES OBVIOUS
    <2> QED BY <1>11, <2>1 DEF BeginPainter, Loads
  <1>12. ASSUME NEW p \in Painters, InsertJob(p) PROVE PainterOK'
    BY <1>12 DEF InsertJob, Loads
  <1>13. ASSUME NEW p \in Painters, PaintScene(p) PROVE PainterOK'
    BY <1>13 DEF PaintScene, Loads
  <1>14. ASSUME NEW p \in Painters, CommitScene(p) PROVE PainterOK'
    <2>1. painter[p].scene \in Scenes BY <1>14 DEF InOrder, CommitScene
    <2>2. ~LastScene(p) => painter[p].scene + 1 \in 0..SCENES BY <2>1 DEF LastScene, Scenes
    <2> QED BY <1>14, <2>2 DEF CommitScene, Loads
  <1>15. CASE ListFiles
    BY <1>15 DEF ListFiles
  <1>16. CASE DeleteRow
    BY <1>16 DEF DeleteRow
  <1>17. CASE UnlinkFiles
    BY <1>17 DEF UnlinkFiles
  <1>18. CASE Crash
    BY <1>18 DEF Crash
  <1>19. CASE UNCHANGED vars
    BY <1>19 DEF vars
  <1> QED BY <1>1, <1>2, <1>3, <1>4, <1>5, <1>6, <1>7, <1>8, <1>9, <1>10, <1>11, <1>12, <1>13,
             <1>14, <1>15, <1>16, <1>17, <1>18, <1>19 DEF Next, Retry, Paint

\* Every step keeps the state of the deletion well-formed.
LEMMA NextDeletionOK == TablesOK /\ DeletionOK /\ [Next]_vars => DeletionOK'
PROOF
  <1> SUFFICES ASSUME TablesOK, DeletionOK, [Next]_vars PROVE DeletionOK' OBVIOUS
  <1> USE DEF DeletionOK
  <1>1. ASSUME NEW h \in Runs, LoadRetry(h) PROVE DeletionOK'
    BY <1>1 DEF LoadRetry
  <1>2. ASSUME NEW h \in Runs, DecideRetry(h) PROVE DeletionOK'
    BY <1>2 DEF DecideRetry
  <1>3. ASSUME NEW h \in Runs, ListScenes(h) PROVE DeletionOK'
    BY <1>3 DEF ListScenes
  <1>4. ASSUME NEW h \in Runs, ResetScenes(h) PROVE DeletionOK'
    BY <1>4 DEF ResetScenes
  <1>5. ASSUME NEW h \in Runs, BeginPortrait(h) PROVE DeletionOK'
    BY <1>5 DEF BeginPortrait
  <1>6. ASSUME NEW h \in Runs, PaintPortrait(h) PROVE DeletionOK'
    BY <1>6 DEF PaintPortrait
  <1>7. ASSUME NEW h \in Runs, CommitPortrait(h) PROVE DeletionOK'
    BY <1>7 DEF CommitPortrait
  <1>8. ASSUME NEW h \in Runs, StoreRetry(h) PROVE DeletionOK'
    BY <1>8 DEF StoreRetry
  <1>9. ASSUME NEW s \in Starts, LoadStart(s) PROVE DeletionOK'
    BY <1>9 DEF LoadStart
  <1>10. ASSUME NEW s \in Starts, ConfirmStart(s) PROVE DeletionOK'
    BY <1>10 DEF ConfirmStart
  <1>11. ASSUME NEW p \in Painters, BeginPainter(p) PROVE DeletionOK'
    BY <1>11 DEF BeginPainter
  <1>12. ASSUME NEW p \in Painters, InsertJob(p) PROVE DeletionOK'
    BY <1>12 DEF InsertJob
  <1>13. ASSUME NEW p \in Painters, PaintScene(p) PROVE DeletionOK'
    BY <1>13 DEF PaintScene
  <1>14. ASSUME NEW p \in Painters, CommitScene(p) PROVE DeletionOK'
    BY <1>14 DEF CommitScene
  <1>15. CASE ListFiles
    BY <1>15 DEF ListFiles, TablesOK
  <1>16. CASE DeleteRow
    BY <1>16 DEF DeleteRow
  <1>17. CASE UnlinkFiles
    BY <1>17 DEF UnlinkFiles
  <1>18. CASE Crash
    BY <1>18 DEF Crash
  <1>19. CASE UNCHANGED vars
    BY <1>19 DEF vars
  <1> QED BY <1>1, <1>2, <1>3, <1>4, <1>5, <1>6, <1>7, <1>8, <1>9, <1>10, <1>11, <1>12, <1>13,
             <1>14, <1>15, <1>16, <1>17, <1>18, <1>19 DEF Next, Retry, Paint

\* A painter takes the scenes one after the other.
LEMMA NextInOrder == PainterOK /\ InOrder /\ Unpainted /\ [Next]_vars => InOrder'
PROOF
  <1> SUFFICES ASSUME PainterOK, InOrder, Unpainted, [Next]_vars PROVE InOrder' OBVIOUS
  <1> USE ConstantsFit DEF PainterOK, InOrder, Unpainted
  <1>1. ASSUME NEW h \in Runs, LoadRetry(h) PROVE InOrder'
    BY <1>1 DEF LoadRetry
  <1>2. ASSUME NEW h \in Runs, DecideRetry(h) PROVE InOrder'
    BY <1>2 DEF DecideRetry
  <1>3. ASSUME NEW h \in Runs, ListScenes(h) PROVE InOrder'
    BY <1>3 DEF ListScenes
  <1>4. ASSUME NEW h \in Runs, ResetScenes(h) PROVE InOrder'
    BY <1>4 DEF ResetScenes
  <1>5. ASSUME NEW h \in Runs, BeginPortrait(h) PROVE InOrder'
    BY <1>5 DEF BeginPortrait
  <1>6. ASSUME NEW h \in Runs, PaintPortrait(h) PROVE InOrder'
    BY <1>6 DEF PaintPortrait
  <1>7. ASSUME NEW h \in Runs, CommitPortrait(h) PROVE InOrder'
    BY <1>7 DEF CommitPortrait
  <1>8. ASSUME NEW h \in Runs, StoreRetry(h) PROVE InOrder'
    BY <1>8 DEF StoreRetry
  <1>9. ASSUME NEW s \in Starts, LoadStart(s) PROVE InOrder'
    BY <1>9 DEF LoadStart
  <1>10. ASSUME NEW s \in Starts, ConfirmStart(s) PROVE InOrder'
    BY <1>10 DEF ConfirmStart
  <1>11. ASSUME NEW p \in Painters, BeginPainter(p) PROVE InOrder'
    BY <1>11 DEF BeginPainter, Loads, Scenes
  <1>12. ASSUME NEW p \in Painters, InsertJob(p) PROVE InOrder'
    BY <1>12 DEF InsertJob, Loads
  <1>13. ASSUME NEW p \in Painters, PaintScene(p) PROVE InOrder'
    BY <1>13 DEF PaintScene, Loads
  <1>14. ASSUME NEW p \in Painters, CommitScene(p) PROVE InOrder'
    BY <1>14 DEF CommitScene, Loads, LastScene, Scenes
  <1>15. CASE ListFiles
    BY <1>15 DEF ListFiles
  <1>16. CASE DeleteRow
    BY <1>16 DEF DeleteRow
  <1>17. CASE UnlinkFiles
    BY <1>17 DEF UnlinkFiles
  <1>18. CASE Crash
    BY <1>18 DEF Crash
  <1>19. CASE UNCHANGED vars
    BY <1>19 DEF vars
  <1> QED BY <1>1, <1>2, <1>3, <1>4, <1>5, <1>6, <1>7, <1>8, <1>9, <1>10, <1>11, <1>12, <1>13,
             <1>14, <1>15, <1>16, <1>17, <1>18, <1>19 DEF Next, Retry, Paint

\* The check of the limit holds until the redraw is committed.
LEMMA NextAdmitted == HandlerOK /\ Admitted /\ [Next]_vars => Admitted'
PROOF
  <1> SUFFICES ASSUME HandlerOK, Admitted, [Next]_vars PROVE Admitted' OBVIOUS
  <1> USE DEF HandlerOK, RunStates, Admitted
  <1>1. ASSUME NEW h \in Runs, LoadRetry(h) PROVE Admitted'
    BY <1>1 DEF LoadRetry, At
  <1>2. ASSUME NEW h \in Runs, DecideRetry(h) PROVE Admitted'
    BY <1>2 DEF DecideRetry, At, Goes, LimitReached
  <1>3. ASSUME NEW h \in Runs, ListScenes(h) PROVE Admitted'
    BY <1>3 DEF ListScenes, At
  <1>4. ASSUME NEW h \in Runs, ResetScenes(h) PROVE Admitted'
    BY <1>4 DEF ResetScenes, At
  <1>5. ASSUME NEW h \in Runs, BeginPortrait(h) PROVE Admitted'
    BY <1>5 DEF BeginPortrait, At
  <1>6. ASSUME NEW h \in Runs, PaintPortrait(h) PROVE Admitted'
    BY <1>6 DEF PaintPortrait, At, Goes
  <1>7. ASSUME NEW h \in Runs, CommitPortrait(h) PROVE Admitted'
    BY <1>7 DEF CommitPortrait, At, Goes
  <1>8. ASSUME NEW h \in Runs, StoreRetry(h) PROVE Admitted'
    BY <1>8 DEF StoreRetry, Goes
  <1>9. ASSUME NEW s \in Starts, LoadStart(s) PROVE Admitted'
    BY <1>9 DEF LoadStart
  <1>10. ASSUME NEW s \in Starts, ConfirmStart(s) PROVE Admitted'
    BY <1>10 DEF ConfirmStart
  <1>11. ASSUME NEW p \in Painters, BeginPainter(p) PROVE Admitted'
    BY <1>11 DEF BeginPainter
  <1>12. ASSUME NEW p \in Painters, InsertJob(p) PROVE Admitted'
    BY <1>12 DEF InsertJob
  <1>13. ASSUME NEW p \in Painters, PaintScene(p) PROVE Admitted'
    BY <1>13 DEF PaintScene
  <1>14. ASSUME NEW p \in Painters, CommitScene(p) PROVE Admitted'
    BY <1>14 DEF CommitScene
  <1>15. CASE ListFiles
    BY <1>15 DEF ListFiles
  <1>16. CASE DeleteRow
    BY <1>16 DEF DeleteRow
  <1>17. CASE UnlinkFiles
    BY <1>17 DEF UnlinkFiles
  <1>18. CASE Crash
    BY <1>18 DEF Crash
  <1>19. CASE UNCHANGED vars
    BY <1>19 DEF vars
  <1> QED BY <1>1, <1>2, <1>3, <1>4, <1>5, <1>6, <1>7, <1>8, <1>9, <1>10, <1>11, <1>12, <1>13,
             <1>14, <1>15, <1>16, <1>17, <1>18, <1>19 DEF Next, Retry, Paint

\* A painter is left by the last step of its redraw or start.
LEMMA NextUnpainted ==
  HandlerOK /\ StarterOK /\ PainterOK /\ Unpainted /\ [Next]_vars => Unpainted'
PROOF
  <1> SUFFICES ASSUME HandlerOK, StarterOK, PainterOK, Unpainted, [Next]_vars
               PROVE  Unpainted'
    OBVIOUS
  <1> USE ConstantsFit DEF HandlerOK, RunStates, StarterOK, PainterOK, Unpainted
  <1>1. ASSUME NEW h \in Runs, LoadRetry(h) PROVE Unpainted'
    BY <1>1 DEF LoadRetry, At
  <1>2. ASSUME NEW h \in Runs, DecideRetry(h) PROVE Unpainted'
    BY <1>2 DEF DecideRetry, At, Goes
  <1>3. ASSUME NEW h \in Runs, ListScenes(h) PROVE Unpainted'
    BY <1>3 DEF ListScenes, At
  <1>4. ASSUME NEW h \in Runs, ResetScenes(h) PROVE Unpainted'
    BY <1>4 DEF ResetScenes, At
  <1>5. ASSUME NEW h \in Runs, BeginPortrait(h) PROVE Unpainted'
    BY <1>5 DEF BeginPortrait, At
  <1>6. ASSUME NEW h \in Runs, PaintPortrait(h) PROVE Unpainted'
    BY <1>6 DEF PaintPortrait, At, Goes
  <1>7. ASSUME NEW h \in Runs, CommitPortrait(h) PROVE Unpainted'
    BY <1>7 DEF CommitPortrait, At, Goes
  <1>8. ASSUME NEW h \in Runs, StoreRetry(h) PROVE Unpainted'
    <2>1. handler'[h].pc = "over" /\ \A g \in Runs \ {h} : handler'[g] = handler[g]
      BY <1>8 DEF StoreRetry, Goes
    <2>2. starter' = starter /\ \A p \in Painters \ {h} : painter'[p] = painter[p]
      BY <1>8 DEF StoreRetry
    <2> QED BY <2>1, <2>2
  <1>9. ASSUME NEW s \in Starts, LoadStart(s) PROVE Unpainted'
    BY <1>9 DEF LoadStart
  <1>10. ASSUME NEW s \in Starts, ConfirmStart(s) PROVE Unpainted'
    BY <1>10 DEF ConfirmStart
  <1>11. ASSUME NEW p \in Painters, BeginPainter(p) PROVE Unpainted'
    BY <1>11 DEF BeginPainter, Loads
  <1>12. ASSUME NEW p \in Painters, InsertJob(p) PROVE Unpainted'
    BY <1>12 DEF InsertJob, Loads
  <1>13. ASSUME NEW p \in Painters, PaintScene(p) PROVE Unpainted'
    BY <1>13 DEF PaintScene, Loads
  <1>14. ASSUME NEW p \in Painters, CommitScene(p) PROVE Unpainted'
    BY <1>14 DEF CommitScene, Loads
  <1>15. CASE ListFiles
    BY <1>15 DEF ListFiles
  <1>16. CASE DeleteRow
    BY <1>16 DEF DeleteRow
  <1>17. CASE UnlinkFiles
    BY <1>17 DEF UnlinkFiles
  <1>18. CASE Crash
    BY <1>18 DEF Crash
  <1>19. CASE UNCHANGED vars
    BY <1>19 DEF vars
  <1> QED BY <1>1, <1>2, <1>3, <1>4, <1>5, <1>6, <1>7, <1>8, <1>9, <1>10, <1>11, <1>12, <1>13,
             <1>14, <1>15, <1>16, <1>17, <1>18, <1>19 DEF Next, Retry, Paint

\* The parts together.
LEMMA NextTypeInv == TypeInv /\ [Next]_vars => TypeInv'
PROOF
  <1> SUFFICES ASSUME TypeInv, [Next]_vars PROVE TypeInv' OBVIOUS
  <1>1. TablesOK /\ HandlerOK /\ StarterOK /\ PainterOK /\ DeletionOK
    BY TypeParts DEF TypeInv
  <1>2. TablesOK' /\ HandlerOK' /\ StarterOK' /\ PainterOK' /\ DeletionOK'
    BY <1>1, NextTablesOK, NextHandlerOK, NextStarterOK, NextPainterOK, NextDeletionOK DEF TypeInv
  <1>3. TypeOK'
    BY <1>2 DEF TypeOK, TablesOK, HandlerOK, RunStates, RunSteps, StarterOK, PainterOK, DeletionOK
  <1>4. InOrder' /\ Admitted' /\ Unpainted'
    BY <1>1, NextInOrder, NextAdmitted, NextUnpainted DEF TypeInv
  <1> QED BY <1>3, <1>4 DEF TypeInv

-----------------------------------------------------------------------------
(* Rows and the deletion *)

\* A row of the session is added by a transaction that keeps the session.
LEMMA NextLockInv ==
  TablesOK /\ HandlerOK /\ PainterOK /\ DeletionOK /\ LockInv /\ [Next]_vars => LockInv'
PROOF
  <1> SUFFICES ASSUME TablesOK, HandlerOK, PainterOK, DeletionOK, LockInv, [Next]_vars
               PROVE  LockInv'
    OBVIOUS
  <1> USE ConstantsFit DEF LockInv, Locked, RowsFirst, DeletedStaysDeleted, Holds
  <1>1. ASSUME NEW h \in Runs, LoadRetry(h) PROVE LockInv'
    BY <1>1 DEF LoadRetry, HandlerOK, RunStates, At, tables
  <1>2. ASSUME NEW h \in Runs, DecideRetry(h) PROVE LockInv'
    BY <1>2 DEF DecideRetry, HandlerOK, RunStates, At, Goes, tables
  <1>3. ASSUME NEW h \in Runs, ListScenes(h) PROVE LockInv'
    BY <1>3 DEF ListScenes, HandlerOK, RunStates, At, tables
  <1>4. ASSUME NEW h \in Runs, ResetScenes(h) PROVE LockInv'
    BY <1>4 DEF ResetScenes, HandlerOK, RunStates, At
  <1>5. ASSUME NEW h \in Runs, BeginPortrait(h) PROVE LockInv'
    BY <1>5 DEF BeginPortrait, HandlerOK, RunStates, At, tables
  <1>6. ASSUME NEW h \in Runs, PaintPortrait(h) PROVE LockInv'
    BY <1>6 DEF PaintPortrait, HandlerOK, RunStates, At, Goes, tables
  <1>7. ASSUME NEW h \in Runs, CommitPortrait(h) PROVE LockInv'
    BY <1>7 DEF CommitPortrait, HandlerOK, RunStates, TablesOK, Rows, At, Goes
  <1>8. ASSUME NEW h \in Runs, StoreRetry(h) PROVE LockInv'
    BY <1>8 DEF StoreRetry, HandlerOK, RunStates, PainterOK, Goes
  <1>9. ASSUME NEW s \in Starts, LoadStart(s) PROVE LockInv'
    BY <1>9 DEF LoadStart, tables
  <1>10. ASSUME NEW s \in Starts, ConfirmStart(s) PROVE LockInv'
    BY <1>10 DEF ConfirmStart, TablesOK, Rows, PainterOK
  <1>11. ASSUME NEW p \in Painters, BeginPainter(p) PROVE LockInv'
    BY <1>11 DEF BeginPainter, PainterOK, Loads, tables
  <1>12. ASSUME NEW p \in Painters, InsertJob(p) PROVE LockInv'
    BY <1>12 DEF InsertJob, PainterOK, FreeSlot, Loads, tables
  <1>13. ASSUME NEW p \in Painters, PaintScene(p) PROVE LockInv'
    BY <1>13 DEF PaintScene, PainterOK, Loads, tables
  <1>14. ASSUME NEW p \in Painters, CommitScene(p) PROVE LockInv'
    BY <1>14 DEF CommitScene, PainterOK, Loads
  <1>15. CASE ListFiles
    BY <1>15 DEF ListFiles, DeletionOK, tables
  <1>16. CASE DeleteRow
    BY <1>16 DEF DeleteRow, SessionHeld, Holds, TablesOK, Rows
  <1>17. CASE UnlinkFiles
    BY <1>17 DEF UnlinkFiles, DeletionOK, tables
  <1>18. CASE Crash
    BY <1>18 DEF Crash, HandlerOK, RunStates, PainterOK, DeletionOK, tables
  <1>19. CASE UNCHANGED vars
    BY <1>19 DEF vars, tables
  <1> QED BY <1>1, <1>2, <1>3, <1>4, <1>5, <1>6, <1>7, <1>8, <1>9, <1>10, <1>11, <1>12, <1>13,
             <1>14, <1>15, <1>16, <1>17, <1>18, <1>19 DEF Next, Retry, Paint

-----------------------------------------------------------------------------
(* Files *)

\* An image that is committed is behind its painter, and stays there.
LEMMA NextScenesPassed ==
  TablesOK /\ HandlerOK /\ PainterOK /\ InOrder /\ Unpainted /\ ScenesPassed /\ [Next]_vars
    => ScenesPassed'
PROOF
  <1> SUFFICES ASSUME TablesOK, HandlerOK, PainterOK, InOrder, Unpainted, ScenesPassed, [Next]_vars
               PROVE  ScenesPassed'
    OBVIOUS
  <1> USE ConstantsFit DEF ScenesPassed, Passed
  <1>1. ASSUME NEW h \in Runs, LoadRetry(h) PROVE ScenesPassed'
    BY <1>1 DEF LoadRetry, HandlerOK, RunStates, At, tables
  <1>2. ASSUME NEW h \in Runs, DecideRetry(h) PROVE ScenesPassed'
    BY <1>2 DEF DecideRetry, HandlerOK, RunStates, At, Goes, tables
  <1>3. ASSUME NEW h \in Runs, ListScenes(h) PROVE ScenesPassed'
    BY <1>3 DEF ListScenes, HandlerOK, RunStates, At, OldFiles, tables
  <1>4. ASSUME NEW h \in Runs, ResetScenes(h) PROVE ScenesPassed'
    BY <1>4 DEF ResetScenes, HandlerOK, RunStates, At
  <1>5. ASSUME NEW h \in Runs, BeginPortrait(h) PROVE ScenesPassed'
    BY <1>5 DEF BeginPortrait, HandlerOK, RunStates, At, tables
  <1>6. ASSUME NEW h \in Runs, PaintPortrait(h) PROVE ScenesPassed'
    BY <1>6 DEF PaintPortrait, HandlerOK, RunStates, At, Goes, tables
  <1>7. ASSUME NEW h \in Runs, CommitPortrait(h) PROVE ScenesPassed'
    BY <1>7 DEF CommitPortrait, HandlerOK, RunStates, At, Goes
  <1>8. ASSUME NEW h \in Runs, StoreRetry(h) PROVE ScenesPassed'
    <2>1. \A p \in Painters : painter'[p] = painter[p] \/ (painter[p].pc = "none"
      /\ painter'[p].scene = 0)
      BY <1>8 DEF StoreRetry, PainterOK, Unpainted, At
    <2>2. \A p \in Painters : painter[p].pc = "none" => painter[p].scene = 0 BY DEF InOrder
    <2>3. \A i \in Images : i.scene # 0 /\ Passed(i) => Passed(i)'
      BY <2>1, <2>2 DEF Images, PainterOK
    <2>4. handler' \in [Runs -> RunStates]
      /\ \A g \in Runs : handler'[g].oldFiles = handler[g].oldFiles
      BY <1>8 DEF StoreRetry, Goes, HandlerOK, RunStates, RunSteps
    <2>5. images' = images BY <1>8 DEF StoreRetry
    <2>6. \A g \in Runs : handler[g].oldFiles \subseteq Images BY DEF HandlerOK, RunStates
    <2>7. images \subseteq Images BY DEF TablesOK
    <2> QED BY ONLY <2>3, <2>4, <2>5, <2>6, <2>7, ScenesPassed DEF ScenesPassed
  <1>9. ASSUME NEW s \in Starts, LoadStart(s) PROVE ScenesPassed'
    BY <1>9 DEF LoadStart, tables
  <1>10. ASSUME NEW s \in Starts, ConfirmStart(s) PROVE ScenesPassed'
    BY <1>10 DEF ConfirmStart, PainterOK, InOrder, Unpainted, TablesOK, Images, HandlerOK,
        RunStates
  <1>11. ASSUME NEW p \in Painters, BeginPainter(p) PROVE ScenesPassed'
    BY <1>11 DEF BeginPainter, PainterOK, InOrder, TablesOK, HandlerOK, RunStates, Images,
        Loads, tables
  <1>12. ASSUME NEW p \in Painters, InsertJob(p) PROVE ScenesPassed'
    BY <1>12 DEF InsertJob, PainterOK, Loads, tables
  <1>13. ASSUME NEW p \in Painters, PaintScene(p) PROVE ScenesPassed'
    <2>1. \A q \in Painters : painter'[q].scene = painter[q].scene
      /\ (painter[q].pc = "over" => painter'[q].pc = "over")
      BY <1>13 DEF PaintScene, PainterOK, Loads
    <2>2. UNCHANGED <<images, handler>> BY <1>13 DEF PaintScene, tables
    <2> QED BY <2>1, <2>2 DEF TablesOK, HandlerOK, RunStates, Images
  <1>14. ASSUME NEW p \in Painters, CommitScene(p) PROVE ScenesPassed'
    BY <1>14 DEF CommitScene, PainterOK, InOrder, Picture, LastScene, Scenes, Loads, TablesOK,
        HandlerOK, RunStates, Images
  <1>15. CASE ListFiles
    BY <1>15 DEF ListFiles, tables
  <1>16. CASE DeleteRow
    BY <1>16 DEF DeleteRow
  <1>17. CASE UnlinkFiles
    BY <1>17 DEF UnlinkFiles, tables
  <1>18. CASE Crash
    <2>1. \A q \in Painters : painter'[q].scene = painter[q].scene
      /\ (painter[q].pc = "over" => painter'[q].pc = "over")
      BY <1>18 DEF Crash, PainterOK
    <2>2. images' = images BY <1>18 DEF Crash, tables
    <2>3. \A h \in Runs : handler'[h].oldFiles = handler[h].oldFiles
      BY <1>18 DEF Crash, HandlerOK, RunStates
    <2> QED BY <2>1, <2>2, <2>3 DEF TablesOK, HandlerOK, RunStates, Images
  <1>19. CASE UNCHANGED vars
    BY <1>19 DEF vars, tables
  <1> QED BY <1>1, <1>2, <1>3, <1>4, <1>5, <1>6, <1>7, <1>8, <1>9, <1>10, <1>11, <1>12, <1>13,
             <1>14, <1>15, <1>16, <1>17, <1>18, <1>19 DEF Next, Retry, Paint

\* What is unlinked is named by no row, and by no row to come.
LEMMA NextFiles ==
  TablesOK /\ HandlerOK /\ PainterOK /\ DeletionOK /\ LockInv /\ ScenesPassed /\ FileInv
    /\ [Next]_vars => FileInv'
PROOF
  <1> SUFFICES ASSUME TablesOK, HandlerOK, PainterOK, DeletionOK, LockInv, ScenesPassed, FileInv,
                      [Next]_vars
               PROVE  FileInv'
    OBVIOUS
  <1> USE ConstantsFit DEF FileInv, Saved, OldFilesGone, ImagesHaveFiles, Picture, At
  <1>1. ASSUME NEW h \in Runs, LoadRetry(h) PROVE FileInv'
    BY <1>1 DEF LoadRetry, HandlerOK, RunStates, tables
  <1>2. ASSUME NEW h \in Runs, DecideRetry(h) PROVE FileInv'
    BY <1>2 DEF DecideRetry, HandlerOK, RunStates, Goes, tables
  <1>3. ASSUME NEW h \in Runs, ListScenes(h) PROVE FileInv'
    BY <1>3 DEF ListScenes, HandlerOK, RunStates, tables
  <1>4. ASSUME NEW h \in Runs, ResetScenes(h) PROVE FileInv'
    BY <1>4 DEF ResetScenes, HandlerOK, RunStates, ScenesPassed
  <1>5. ASSUME NEW h \in Runs, BeginPortrait(h) PROVE FileInv'
    BY <1>5 DEF BeginPortrait, HandlerOK, RunStates, ScenesPassed, Passed, Picture, PainterOK,
        tables
  <1>6. ASSUME NEW h \in Runs, PaintPortrait(h) PROVE FileInv'
    BY <1>6 DEF PaintPortrait, HandlerOK, RunStates, Goes, tables
  <1>7. ASSUME NEW h \in Runs, CommitPortrait(h) PROVE FileInv'
    BY <1>7 DEF CommitPortrait, HandlerOK, RunStates, ScenesPassed, TablesOK, Rows,
        PortraitAfter, Goes
  <1>8. ASSUME NEW h \in Runs, StoreRetry(h) PROVE FileInv'
    BY <1>8 DEF StoreRetry, HandlerOK, RunStates, PainterOK, Picture, Goes
  <1>9. ASSUME NEW s \in Starts, LoadStart(s) PROVE FileInv'
    BY <1>9 DEF LoadStart, tables
  <1>10. ASSUME NEW s \in Starts, ConfirmStart(s) PROVE FileInv'
    BY <1>10 DEF ConfirmStart, TablesOK, Rows, PainterOK, Picture
  <1>11. ASSUME NEW p \in Painters, BeginPainter(p) PROVE FileInv'
    BY <1>11 DEF BeginPainter, PainterOK, Picture, Loads, tables
  <1>12. ASSUME NEW p \in Painters, InsertJob(p) PROVE FileInv'
    BY <1>12 DEF InsertJob, PainterOK, Picture, Loads, tables
  <1>13. ASSUME NEW p \in Painters, PaintScene(p) PROVE FileInv'
    BY <1>13 DEF PaintScene, PainterOK, Picture, Loads, tables
  <1>14. ASSUME NEW p \in Painters, CommitScene(p) PROVE FileInv'
    BY <1>14 DEF CommitScene, PainterOK, Picture, ScenesPassed, Passed, Loads
  <1>15. CASE ListFiles
    BY <1>15 DEF ListFiles, tables
  <1>16. CASE DeleteRow
    BY <1>16 DEF DeleteRow, TablesOK, Rows
  <1>17. CASE UnlinkFiles
    BY <1>17 DEF UnlinkFiles, LockInv, Locked, RowsFirst, DeletedStaysDeleted, Holds, tables
  <1>18. CASE Crash
    BY <1>18 DEF Crash, HandlerOK, RunStates, PainterOK, Picture, tables
  <1>19. CASE UNCHANGED vars
    BY <1>19 DEF vars, tables
  <1> QED BY <1>1, <1>2, <1>3, <1>4, <1>5, <1>6, <1>7, <1>8, <1>9, <1>10, <1>11, <1>12, <1>13,
             <1>14, <1>15, <1>16, <1>17, <1>18, <1>19 DEF Next, Retry, Paint

-----------------------------------------------------------------------------
(* Scenes *)

\* The unique key: an inserted job is the first of its scene, and its image the only one.
LEMMA NextSlotInv ==
  PainterOK /\ TablesOK /\ InOrder /\ Unpainted /\ SlotInv /\ [Next]_vars => SlotInv'
PROOF
  <1> SUFFICES ASSUME PainterOK, TablesOK, InOrder, Unpainted, SlotInv, [Next]_vars
               PROVE  SlotInv'
    OBVIOUS
  <1> USE ConstantsFit DEF SlotInv, OneHolder, HolderIsFirst, ImageHasJob, OneImagePerScene, Holds
  <1>1. ASSUME NEW h \in Runs, LoadRetry(h) PROVE SlotInv'
    BY <1>1 DEF LoadRetry, tables
  <1>2. ASSUME NEW h \in Runs, DecideRetry(h) PROVE SlotInv'
    BY <1>2 DEF DecideRetry, tables
  <1>3. ASSUME NEW h \in Runs, ListScenes(h) PROVE SlotInv'
    BY <1>3 DEF ListScenes, tables
  <1>4. ASSUME NEW h \in Runs, ResetScenes(h) PROVE SlotInv'
    BY <1>4 DEF ResetScenes
  <1>5. ASSUME NEW h \in Runs, BeginPortrait(h) PROVE SlotInv'
    BY <1>5 DEF BeginPortrait, tables
  <1>6. ASSUME NEW h \in Runs, PaintPortrait(h) PROVE SlotInv'
    BY <1>6 DEF PaintPortrait, tables
  <1>7. ASSUME NEW h \in Runs, CommitPortrait(h) PROVE SlotInv'
    BY <1>7 DEF CommitPortrait
  <1>8. ASSUME NEW h \in Runs, StoreRetry(h) PROVE SlotInv'
    BY <1>8 DEF StoreRetry, PainterOK, Goes
  <1>9. ASSUME NEW s \in Starts, LoadStart(s) PROVE SlotInv'
    BY <1>9 DEF LoadStart, tables
  <1>10. ASSUME NEW s \in Starts, ConfirmStart(s) PROVE SlotInv'
    BY <1>10 DEF ConfirmStart, PainterOK
  <1>11. ASSUME NEW p \in Painters, BeginPainter(p) PROVE SlotInv'
    BY <1>11 DEF BeginPainter, PainterOK, Loads, tables
  <1>12. ASSUME NEW p \in Painters, InsertJob(p) PROVE SlotInv'
    BY <1>12 DEF InsertJob, PainterOK, FreeSlot, Loads, tables
  <1>13. ASSUME NEW p \in Painters, PaintScene(p) PROVE SlotInv'
    BY <1>13 DEF PaintScene, PainterOK, Loads, tables
  <1>14. ASSUME NEW p \in Painters, CommitScene(p) PROVE SlotInv'
    <2>1. Holds(p) /\ painter[p].scene # 0 BY <1>14 DEF CommitScene, InOrder, Scenes
    <2>2. \A q \in Painters \ {p} : painter'[q] = painter[q]
      BY <1>14 DEF CommitScene, Loads, PainterOK
    <2>3. ~Holds(p)' BY <1>14 DEF CommitScene, Loads, PainterOK
    <2>4. OneHolder' BY <2>2, <2>3 DEF OneHolder
    <2>5. \A q \in Painters \ {p} : Holds(q) => painter[q].scene # painter[p].scene
      BY <2>1 DEF OneHolder
    <2> DEFINE job == [ by |-> p, scene |-> painter[p].scene,
                        status |-> IF painter[p].pc = "painted" THEN "done" ELSE "failed" ]
    <2>6. jobs' = jobs \cup {job} /\ job.scene = painter[p].scene BY <1>14 DEF CommitScene
    <2> HIDE DEF job
    <2>7. HolderIsFirst' BY <2>2, <2>3, <2>5, <2>6 DEF HolderIsFirst
    <2>8. images' = images \/ images' = images \cup {Picture(p)} BY <1>14 DEF CommitScene
    <2>9. ImageHasJob' BY <2>6, <2>8 DEF ImageHasJob, Picture
    <2>10. \A i \in images : i.scene # painter[p].scene BY <2>1 DEF HolderIsFirst, ImageHasJob
    <2>11. OneImagePerScene' BY <2>8, <2>10 DEF OneImagePerScene, Picture
    <2> QED BY <2>4, <2>7, <2>9, <2>11
  <1>15. CASE ListFiles
    BY <1>15 DEF ListFiles, tables
  <1>16. CASE DeleteRow
    BY <1>16 DEF DeleteRow
  <1>17. CASE UnlinkFiles
    BY <1>17 DEF UnlinkFiles, tables
  <1>18. CASE Crash
    BY <1>18 DEF Crash, PainterOK, tables
  <1>19. CASE UNCHANGED vars
    BY <1>19 DEF vars, tables
  <1> QED BY <1>1, <1>2, <1>3, <1>4, <1>5, <1>6, <1>7, <1>8, <1>9, <1>10, <1>11, <1>12, <1>13,
             <1>14, <1>15, <1>16, <1>17, <1>18, <1>19 DEF Next, Retry, Paint

-----------------------------------------------------------------------------
(* Requests that arrive while others are at work *)

client == <<row, attempts, log, began, handler, starter, met, crashed>>

RunBusy(h) == handler[h].pc \notin {"none", "over"}

StartBusy(s) == starter[s].pc \notin {"none", "over"}

\* Two requests at work have met.
Together ==
  /\ \A g, h \in Runs : RunBusy(g) /\ RunBusy(h) => g = h \/ {g, h} \in met
  /\ \A h \in Runs, s \in Starts : RunBusy(h) /\ StartBusy(s) => {h, s} \in met
  /\ \A s, t \in Starts : StartBusy(s) /\ StartBusy(t) => s = t \/ {s, t} \in met

\* What a request loaded is what the row still is, as far as those it met leave it.
Loaded ==
  /\ \A h \in Runs :
       LET r == handler[h].loaded IN
       RunBusy(h) /\ handler[h].pc \notin {"drawn", "undrawn"} /\ row.exists =>
         /\ r.exists
         /\ ~Met(h, Runs) => r.count = row.count /\ r.portrait = row.portrait
         /\ ~Met(h, Starts) => r.confirmed = row.confirmed
  /\ \A s \in Starts :
       LET r == starter[s].loaded IN
       StartBusy(s) /\ row.exists =>
         /\ r.exists
         /\ ~Met(s, Runs) => r.count = row.count /\ r.portrait = row.portrait
         /\ ~Met(s, Starts) => r.confirmed = row.confirmed

\* A run that was let in found no story started, and no answer but from one it met.
LetIn(h) ==
  handler[h].pc \in {"admitted", "resetting", "reset", "painting", "painted", "failed"}

Ruling ==
  \A h \in Runs :
    /\ LetIn(h) => ~handler[h].loaded.confirmed
    /\ RunBusy(h) /\ ~At(h, "loaded") /\ Answered(h) => Met(h, Runs)

OpenInv == Together /\ Loaded /\ Ruling /\ OnlyOverlapTakesPortrait

\* The portrait jobs have the numbers of their transactions; a run under way has not
\* committed its own.
Dated ==
  /\ \A a \in attempts : a.at <= began
  /\ \A h \in Runs :
       /\ handler[h].at <= began
       /\ handler[h].pc \in {"none", "loaded", "admitted", "resetting", "reset"} =>
            handler[h].at = 0
       /\ handler[h].pc \in {"painting", "painted", "failed"} =>
            handler[h].at > 0 /\ \A a \in attempts : a.at # handler[h].at
  /\ \A g, h \in Runs : handler[g].at = handler[h].at /\ handler[h].at > 0 => g = h

\* Who began later while a run paints has met it.
Begun ==
  \A g, h \in Runs :
    handler[h].pc \in {"painting", "painted", "failed"} /\ handler[g].at > handler[h].at =>
      {g, h} \in met

\* A portrait job is the creation's or some run's.
Named == \A a \in attempts : a.at = 0 \/ \E h \in Runs : handler[h].at = a.at

IsNewest(a) == \A b \in attempts \ {a} : b.at < a.at

\* The newest portrait job of a session without a portrait is a failure, or of a run
\* that met another.
Hidden ==
  row.exists =>
    \E a \in attempts :
      /\ IsNewest(a)
      /\ \/ row.portrait # None
         \/ a.status = "failed"
         \/ \E h \in Runs : handler[h].at > 0 /\ handler[h].at = a.at /\ Met(h, Runs)

DateInv == Dated /\ Begun /\ Named /\ Hidden

\* The redraws that were at work alone.
Lone == {h \in Redraws : ~Met(h, Runs)}

\* They are in the count, and in the count that any run at work has loaded.
Counted ==
  /\ IsFiniteSet(Lone)
  /\ Cardinality(Lone) <= row.count
  /\ \A h \in Runs : LetIn(h) \/ At(h, "loaded") => Cardinality(Lone) <= handler[h].loaded.count

\* The job of a run is committed just before its answer; a run that painted for a
\* request that is painted for again met the other.
Twice ==
  ~crashed =>
    /\ \A h \in Runs : Committed(h) => Answered(h) \/ handler[h].pc \in {"drawn", "undrawn"}
    /\ \A g, h \in Runs :
         Committed(g) /\ Request[g] = Request[h] /\ (LetIn(h) \/ Committed(h)) =>
           g = h \/ {g, h} \in met

\* What a client sees is changed by its requests, a deletion and a crash, by no painter.
LEMMA ClientSteps ==
  [Next]_vars =>
    \/ \E h \in Runs : Retry(h)
    \/ \E s \in Starts : LoadStart(s) \/ ConfirmStart(s)
    \/ DeleteRow
    \/ Crash
    \/ UNCHANGED client
PROOF
  <1> SUFFICES ASSUME [Next]_vars, ~UNCHANGED client
               PROVE  \/ \E h \in Runs : Retry(h)
                      \/ \E s \in Starts : LoadStart(s) \/ ConfirmStart(s)
                      \/ DeleteRow
                      \/ Crash
    OBVIOUS
  <1>1. ASSUME NEW p \in Painters, Paint(p) PROVE UNCHANGED client
    BY <1>1 DEF Paint, BeginPainter, InsertJob, PaintScene, CommitScene, client, tables
  <1>2. ListFiles \/ UnlinkFiles \/ UNCHANGED vars => UNCHANGED client
    BY DEF ListFiles, UnlinkFiles, client, tables, vars
  <1> QED BY <1>1, <1>2 DEF Next

\* The order of two requests that meet does not matter.
LEMMA Pairs == \A x, y : {x, y} = {y, x}
PROOF OBVIOUS

\* A request that joins meets all that are at work, and those that met have met.
LEMMA JoinsMeets ==
  ASSUME NEW x, Joins(x)
  PROVE  /\ met \subseteq met'
         /\ \A h \in Runs : RunBusy(h) => {x, h} \in met' /\ {h, x} \in met'
         /\ \A s \in Starts : StartBusy(s) => {x, s} \in met' /\ {s, x} \in met'
PROOF BY Pairs DEF Joins, AtWork, RunBusy, StartBusy

\* What has met has met for good.
LEMMA MetStays ==
  [Next]_vars => met \subseteq met' /\ \A x, others : Met(x, others) => Met(x, others)'
PROOF
  <1> SUFFICES ASSUME [Next]_vars PROVE met \subseteq met' BY DEF Met
  <1>1. ASSUME NEW h \in Runs, Retry(h) PROVE met \subseteq met'
    BY <1>1 DEF Retry, LoadRetry, DecideRetry, ListScenes, ResetScenes, BeginPortrait,
       PaintPortrait, CommitPortrait, StoreRetry, Joins
  <1>2. ASSUME NEW s \in Starts, LoadStart(s) \/ ConfirmStart(s) PROVE met \subseteq met'
    BY <1>2 DEF LoadStart, ConfirmStart, Joins
  <1>3. DeleteRow \/ Crash \/ UNCHANGED client => met \subseteq met'
    BY DEF DeleteRow, Crash, client
  <1> QED BY <1>1, <1>2, <1>3, ClientSteps

\* A request that arrives meets those at work.
LEMMA NextTogether ==
  HandlerOK /\ StarterOK /\ Together /\ [Next]_vars => Together'
PROOF
  <1> SUFFICES ASSUME HandlerOK, StarterOK, Together, [Next]_vars PROVE Together' OBVIOUS
  <1> USE DEF HandlerOK, RunStates, StarterOK, Together, RunBusy, StartBusy
  <1>1. ASSUME NEW h \in Runs, LoadRetry(h) PROVE Together'
    <2>1. Joins(h) BY <1>1 DEF LoadRetry
    <2> QED BY <1>1, <2>1, JoinsMeets DEF LoadRetry, At, tables
  <1>2. ASSUME NEW h \in Runs, DecideRetry(h) PROVE Together'
    BY <1>2 DEF DecideRetry, At, Goes, tables
  <1>3. ASSUME NEW h \in Runs, ListScenes(h) PROVE Together'
    BY <1>3 DEF ListScenes, At, tables
  <1>4. ASSUME NEW h \in Runs, ResetScenes(h) PROVE Together'
    BY <1>4 DEF ResetScenes, At
  <1>5. ASSUME NEW h \in Runs, BeginPortrait(h) PROVE Together'
    BY <1>5 DEF BeginPortrait, At, tables
  <1>6. ASSUME NEW h \in Runs, PaintPortrait(h) PROVE Together'
    BY <1>6 DEF PaintPortrait, At, Goes, tables
  <1>7. ASSUME NEW h \in Runs, CommitPortrait(h) PROVE Together'
    BY <1>7 DEF CommitPortrait, At, Goes
  <1>8. ASSUME NEW h \in Runs, StoreRetry(h) PROVE Together'
    BY <1>8 DEF StoreRetry, At, Goes
  <1>9. ASSUME NEW s \in Starts, LoadStart(s) PROVE Together'
    <2>1. Joins(s) BY <1>9 DEF LoadStart
    <2> QED BY <1>9, <2>1, JoinsMeets DEF LoadStart, tables
  <1>10. ASSUME NEW s \in Starts, ConfirmStart(s) PROVE Together'
    BY <1>10 DEF ConfirmStart
  <1>11. CASE DeleteRow
    BY <1>11 DEF DeleteRow
  <1>12. CASE Crash
    BY <1>12 DEF Crash, tables
  <1>13. CASE UNCHANGED client
    BY <1>13 DEF client
  <1> QED BY <1>1, <1>2, <1>3, <1>4, <1>5, <1>6, <1>7, <1>8, <1>9, <1>10, <1>11, <1>12, <1>13,
             ClientSteps DEF Retry

\* The row changes under a request only by one that it met.
LEMMA NextLoaded ==
  TablesOK /\ HandlerOK /\ StarterOK /\ LockInv /\ Together /\ Loaded /\ [Next]_vars => Loaded'
PROOF
  <1> SUFFICES ASSUME TablesOK, HandlerOK, StarterOK, LockInv, Together, Loaded, [Next]_vars PROVE Loaded' OBVIOUS
  <1> USE DEF HandlerOK, RunStates, StarterOK, Loaded, RunBusy, StartBusy
  <1>1. ASSUME NEW h \in Runs, LoadRetry(h) PROVE Loaded'
    BY <1>1, MetStays DEF LoadRetry, At, tables
  <1>2. ASSUME NEW h \in Runs, DecideRetry(h) PROVE Loaded'
    BY <1>2, MetStays DEF DecideRetry, At, Goes, tables
  <1>3. ASSUME NEW h \in Runs, ListScenes(h) PROVE Loaded'
    BY <1>3, MetStays DEF ListScenes, At, tables
  <1>4. ASSUME NEW h \in Runs, ResetScenes(h) PROVE Loaded'
    BY <1>4, MetStays DEF ResetScenes, At
  <1>5. ASSUME NEW h \in Runs, BeginPortrait(h) PROVE Loaded'
    BY <1>5, MetStays DEF BeginPortrait, At, tables
  <1>6. ASSUME NEW h \in Runs, PaintPortrait(h) PROVE Loaded'
    BY <1>6, MetStays DEF PaintPortrait, At, Goes, tables
  <1>7. ASSUME NEW h \in Runs, CommitPortrait(h) PROVE Loaded'
    <2>0. RunBusy(h) BY <1>7 DEF CommitPortrait
    <2>1. /\ \A g \in Runs : g = h \/ (RunBusy(g) => Met(g, Runs))
          /\ \A s \in Starts : StartBusy(s) => Met(s, Runs)
      <3> HIDE DEF HandlerOK, RunStates, StarterOK, Loaded, RunBusy, StartBusy
      <3> QED BY <2>0, Pairs DEF Together, Met
    <2>2. handler'[h].pc \in {"drawn", "undrawn"} /\ \A g \in Runs \ {h} : handler'[g] = handler[g]
      BY <1>7 DEF CommitPortrait, Goes
    <2>3. /\ row'.exists = row.exists /\ row'.confirmed = row.confirmed
          /\ UNCHANGED <<starter, met>>
      BY <1>7 DEF CommitPortrait, TablesOK, Rows
    <2> QED BY <2>1, <2>2, <2>3 DEF Met
  <1>8. ASSUME NEW h \in Runs, StoreRetry(h) PROVE Loaded'
    BY <1>8, MetStays DEF StoreRetry, At, Goes
  <1>9. ASSUME NEW s \in Starts, LoadStart(s) PROVE Loaded'
    BY <1>9, MetStays DEF LoadStart, tables
  <1>10. ASSUME NEW s \in Starts, ConfirmStart(s) PROVE Loaded'
    <2>1. /\ \A h \in Runs : RunBusy(h) => Met(h, Starts)
          /\ \A t \in Starts \ {s} : StartBusy(t) => Met(t, Starts)
      BY <1>10, Pairs DEF ConfirmStart, Together, Met
    <2>2. starter'[s].pc = "over" /\ \A t \in Starts \ {s} : starter'[t] = starter[t]
      BY <1>10 DEF ConfirmStart
    <2>3. /\ row'.exists = row.exists /\ row'.count = row.count /\ row'.portrait = row.portrait
          /\ UNCHANGED <<handler, met>>
      BY <1>10 DEF ConfirmStart, TablesOK, Rows
    <2> QED BY <2>1, <2>2, <2>3 DEF Met
  <1>11. CASE DeleteRow
    BY <1>11, MetStays DEF DeleteRow, TablesOK, Rows
  <1>12. CASE Crash
    BY <1>12, MetStays DEF Crash, tables
  <1>13. CASE UNCHANGED client
    BY <1>13, MetStays DEF client
  <1> QED BY <1>1, <1>2, <1>3, <1>4, <1>5, <1>6, <1>7, <1>8, <1>9, <1>10, <1>11, <1>12, <1>13,
             ClientSteps DEF Retry

\* A run stays let in until it has committed, and finds answers only of runs it met.
LEMMA NextRuling ==
  TablesOK /\ HandlerOK /\ Together /\ Ruling /\ [Next]_vars => Ruling'
PROOF
  <1> SUFFICES ASSUME TablesOK, HandlerOK, Together, Ruling, [Next]_vars PROVE Ruling' OBVIOUS
  <1> USE DEF HandlerOK, RunStates, Ruling, LetIn, RunBusy, Answered, At
  <1>1. ASSUME NEW h \in Runs, LoadRetry(h) PROVE Ruling'
    BY <1>1, MetStays DEF LoadRetry, At, tables
  <1>2. ASSUME NEW h \in Runs, DecideRetry(h) PROVE Ruling'
    BY <1>2, MetStays DEF DecideRetry, At, Goes, tables
  <1>3. ASSUME NEW h \in Runs, ListScenes(h) PROVE Ruling'
    BY <1>3, MetStays DEF ListScenes, At, tables
  <1>4. ASSUME NEW h \in Runs, ResetScenes(h) PROVE Ruling'
    BY <1>4, MetStays DEF ResetScenes, At
  <1>5. ASSUME NEW h \in Runs, BeginPortrait(h) PROVE Ruling'
    BY <1>5, MetStays DEF BeginPortrait, At, tables
  <1>6. ASSUME NEW h \in Runs, PaintPortrait(h) PROVE Ruling'
    BY <1>6, MetStays DEF PaintPortrait, At, Goes, tables
  <1>7. ASSUME NEW h \in Runs, CommitPortrait(h) PROVE Ruling'
    BY <1>7, MetStays DEF CommitPortrait, At, Goes
  <1>8. ASSUME NEW h \in Runs, StoreRetry(h) PROVE Ruling'
    <2>1. handler'[h].pc = "over" /\ \A g \in Runs \ {h} : handler'[g] = handler[g]
      BY <1>8 DEF StoreRetry, Goes
    <2>2. log' \subseteq log \cup {Request[h]} /\ met' = met BY <1>8 DEF StoreRetry
    <2>3. \A g \in Runs \ {h} : RunBusy(g) => Met(g, Runs)
      BY <1>8, Pairs DEF StoreRetry, Together, Met
    <2> QED BY <2>1, <2>2, <2>3, MetStays DEF Met
  <1>9. ASSUME NEW s \in Starts, LoadStart(s) PROVE Ruling'
    BY <1>9, MetStays DEF LoadStart, tables
  <1>10. ASSUME NEW s \in Starts, ConfirmStart(s) PROVE Ruling'
    BY <1>10, MetStays DEF ConfirmStart
  <1>11. CASE DeleteRow
    BY <1>11, MetStays DEF DeleteRow
  <1>12. CASE Crash
    BY <1>12, MetStays DEF Crash, tables
  <1>13. CASE UNCHANGED client
    BY <1>13, MetStays DEF client
  <1> QED BY <1>1, <1>2, <1>3, <1>4, <1>5, <1>6, <1>7, <1>8, <1>9, <1>10, <1>11, <1>12, <1>13,
             ClientSteps DEF Retry

\* A redraw takes the portrait of a story only if it met a start.
LEMMA NextTakes ==
  TablesOK /\ HandlerOK /\ StarterOK /\ LockInv /\ Loaded /\ Ruling /\ OnlyOverlapTakesPortrait /\ [Next]_vars => OnlyOverlapTakesPortrait'
PROOF
  <1> SUFFICES ASSUME TablesOK, HandlerOK, StarterOK, LockInv, Loaded, Ruling, OnlyOverlapTakesPortrait, [Next]_vars PROVE OnlyOverlapTakesPortrait' OBVIOUS
  <1> USE DEF TablesOK, Rows, HandlerOK, RunStates, StarterOK, OnlyOverlapTakesPortrait
  <1>1. ASSUME NEW h \in Runs, LoadRetry(h) PROVE OnlyOverlapTakesPortrait'
    BY <1>1, MetStays DEF LoadRetry, At, tables
  <1>2. ASSUME NEW h \in Runs, DecideRetry(h) PROVE OnlyOverlapTakesPortrait'
    BY <1>2, MetStays DEF DecideRetry, At, Goes, tables
  <1>3. ASSUME NEW h \in Runs, ListScenes(h) PROVE OnlyOverlapTakesPortrait'
    BY <1>3, MetStays DEF ListScenes, At, tables
  <1>4. ASSUME NEW h \in Runs, ResetScenes(h) PROVE OnlyOverlapTakesPortrait'
    BY <1>4, MetStays DEF ResetScenes, At
  <1>5. ASSUME NEW h \in Runs, BeginPortrait(h) PROVE OnlyOverlapTakesPortrait'
    BY <1>5, MetStays DEF BeginPortrait, At, tables
  <1>6. ASSUME NEW h \in Runs, PaintPortrait(h) PROVE OnlyOverlapTakesPortrait'
    BY <1>6, MetStays DEF PaintPortrait, At, Goes, tables
  <1>7. ASSUME NEW h \in Runs, CommitPortrait(h) PROVE OnlyOverlapTakesPortrait'
    <2>1. row.exists /\ RunBusy(h) /\ ~handler[h].loaded.confirmed
      BY <1>7 DEF CommitPortrait, LockInv, Locked, RunBusy, Ruling, LetIn
    <2>2. CASE Met(h, Starts)
      <3>1. \E s \in Starts : Met(s, Runs) BY <2>2, Pairs DEF Met
      <3> QED BY <3>1, MetStays
    <2>3. CASE ~Met(h, Starts)
      <3>1. ~row.confirmed BY <1>7, <2>1, <2>3 DEF CommitPortrait, Loaded
      <3> QED BY <1>7, <3>1 DEF CommitPortrait
    <2> QED BY <2>2, <2>3
  <1>8. ASSUME NEW h \in Runs, StoreRetry(h) PROVE OnlyOverlapTakesPortrait'
    BY <1>8, MetStays DEF StoreRetry, At, Goes
  <1>9. ASSUME NEW s \in Starts, LoadStart(s) PROVE OnlyOverlapTakesPortrait'
    BY <1>9, MetStays DEF LoadStart, tables
  <1>10. ASSUME NEW s \in Starts, ConfirmStart(s) PROVE OnlyOverlapTakesPortrait'
    <2>1. CASE Met(s, Runs)
      BY <2>1, MetStays
    <2>2. CASE ~Met(s, Runs) /\ row'.confirmed # row.confirmed
      <3>1. row.exists /\ row'.portrait = row.portrait /\ starter[s].loaded.portrait # None
        BY <1>10, <2>2 DEF ConfirmStart, MayStart
      <3> QED BY <1>10, <2>2, <3>1 DEF ConfirmStart, Loaded, StartBusy
    <2>3. CASE row'.confirmed = row.confirmed
      <3>1. row' = row BY <1>10, <2>3 DEF ConfirmStart
      <3> QED BY <3>1, MetStays
    <2> QED BY <2>1, <2>2, <2>3
  <1>11. CASE DeleteRow
    BY <1>11, MetStays DEF DeleteRow
  <1>12. CASE Crash
    BY <1>12, MetStays DEF Crash, tables
  <1>13. CASE UNCHANGED client
    BY <1>13, MetStays DEF client
  <1> QED BY <1>1, <1>2, <1>3, <1>4, <1>5, <1>6, <1>7, <1>8, <1>9, <1>10, <1>11, <1>12, <1>13,
             ClientSteps DEF Retry

\* Portrait transactions are numbered as they begin.
LEMMA NextDated ==
  TablesOK /\ HandlerOK /\ Dated /\ [Next]_vars => Dated'
PROOF
  <1> SUFFICES ASSUME TablesOK, HandlerOK, Dated, [Next]_vars PROVE Dated' OBVIOUS
  <1> USE DEF TablesOK, HandlerOK, RunStates, Dated
  <1>1. ASSUME NEW h \in Runs, LoadRetry(h) PROVE Dated'
    BY <1>1 DEF LoadRetry, At, tables
  <1>2. ASSUME NEW h \in Runs, DecideRetry(h) PROVE Dated'
    BY <1>2 DEF DecideRetry, At, Goes, tables
  <1>3. ASSUME NEW h \in Runs, ListScenes(h) PROVE Dated'
    BY <1>3 DEF ListScenes, At, tables
  <1>4. ASSUME NEW h \in Runs, ResetScenes(h) PROVE Dated'
    BY <1>4 DEF ResetScenes, At
  <1>5. ASSUME NEW h \in Runs, BeginPortrait(h) PROVE Dated'
    BY <1>5 DEF BeginPortrait, At, tables
  <1>6. ASSUME NEW h \in Runs, PaintPortrait(h) PROVE Dated'
    BY <1>6 DEF PaintPortrait, At, Goes, tables
  <1>7. ASSUME NEW h \in Runs, CommitPortrait(h) PROVE Dated'
    BY <1>7 DEF CommitPortrait, At, Goes
  <1>8. ASSUME NEW h \in Runs, StoreRetry(h) PROVE Dated'
    BY <1>8 DEF StoreRetry, At, Goes
  <1>9. ASSUME NEW s \in Starts, LoadStart(s) PROVE Dated'
    BY <1>9 DEF LoadStart, tables
  <1>10. ASSUME NEW s \in Starts, ConfirmStart(s) PROVE Dated'
    BY <1>10 DEF ConfirmStart
  <1>11. CASE DeleteRow
    BY <1>11 DEF DeleteRow
  <1>12. CASE Crash
    BY <1>12 DEF Crash, tables
  <1>13. CASE UNCHANGED client
    BY <1>13 DEF client
  <1> QED BY <1>1, <1>2, <1>3, <1>4, <1>5, <1>6, <1>7, <1>8, <1>9, <1>10, <1>11, <1>12, <1>13,
             ClientSteps DEF Retry

\* Who begins a portrait while another paints meets it.
LEMMA NextBegun ==
  TablesOK /\ HandlerOK /\ Together /\ Dated /\ Begun /\ [Next]_vars => Begun'
PROOF
  <1> SUFFICES ASSUME TablesOK, HandlerOK, Together, Dated, Begun, [Next]_vars PROVE Begun' OBVIOUS
  <1> USE DEF TablesOK, HandlerOK, RunStates, Dated, Begun
  <1>1. ASSUME NEW h \in Runs, LoadRetry(h) PROVE Begun'
    BY <1>1, MetStays DEF LoadRetry, At, tables
  <1>2. ASSUME NEW h \in Runs, DecideRetry(h) PROVE Begun'
    BY <1>2, MetStays DEF DecideRetry, At, Goes, tables
  <1>3. ASSUME NEW h \in Runs, ListScenes(h) PROVE Begun'
    BY <1>3, MetStays DEF ListScenes, At, tables
  <1>4. ASSUME NEW h \in Runs, ResetScenes(h) PROVE Begun'
    BY <1>4, MetStays DEF ResetScenes, At
  <1>5. ASSUME NEW h \in Runs, BeginPortrait(h) PROVE Begun'
    <2>1. handler'[h].at = began + 1 /\ \A g \in Runs \ {h} : handler'[g] = handler[g]
      BY <1>5 DEF BeginPortrait
    <2>2. ASSUME NEW g \in Runs \ {h}, handler[g].pc \in {"painting", "painted", "failed"}
          PROVE  {h, g} \in met
      BY <1>5, <2>2 DEF BeginPortrait, At, Together, RunBusy
    <2>3. ASSUME NEW g \in Runs \ {h} PROVE ~(handler'[g].at > handler'[h].at)
      BY <2>1, <2>3
    <2>4. \A g \in Runs : ~(handler'[g].at > handler'[g].at) BY <1>5 DEF BeginPortrait
    <2> QED BY <2>1, <2>2, <2>3, <2>4, MetStays
  <1>6. ASSUME NEW h \in Runs, PaintPortrait(h) PROVE Begun'
    BY <1>6, MetStays DEF PaintPortrait, At, Goes, tables
  <1>7. ASSUME NEW h \in Runs, CommitPortrait(h) PROVE Begun'
    BY <1>7, MetStays DEF CommitPortrait, At, Goes
  <1>8. ASSUME NEW h \in Runs, StoreRetry(h) PROVE Begun'
    BY <1>8, MetStays DEF StoreRetry, At, Goes
  <1>9. ASSUME NEW s \in Starts, LoadStart(s) PROVE Begun'
    BY <1>9, MetStays DEF LoadStart, tables
  <1>10. ASSUME NEW s \in Starts, ConfirmStart(s) PROVE Begun'
    BY <1>10, MetStays DEF ConfirmStart
  <1>11. CASE DeleteRow
    BY <1>11, MetStays DEF DeleteRow
  <1>12. CASE Crash
    BY <1>12, MetStays DEF Crash, tables
  <1>13. CASE UNCHANGED client
    BY <1>13, MetStays DEF client
  <1> QED BY <1>1, <1>2, <1>3, <1>4, <1>5, <1>6, <1>7, <1>8, <1>9, <1>10, <1>11, <1>12, <1>13,
             ClientSteps DEF Retry

\* A portrait job is some run's.
LEMMA NextNamed ==
  TablesOK /\ HandlerOK /\ Dated /\ Named /\ [Next]_vars => Named'
PROOF
  <1> SUFFICES ASSUME TablesOK, HandlerOK, Dated, Named, [Next]_vars PROVE Named' OBVIOUS
  <1> USE DEF TablesOK, HandlerOK, RunStates, Dated, Named
  <1>1. ASSUME NEW h \in Runs, LoadRetry(h) PROVE Named'
    <2>1. attempts' = attempts /\ \A g \in Runs : handler'[g].at = handler[g].at
      BY <1>1 DEF LoadRetry, tables
    <2> QED BY <2>1
  <1>2. ASSUME NEW h \in Runs, DecideRetry(h) PROVE Named'
    <2>1. attempts' = attempts /\ \A g \in Runs : handler'[g].at = handler[g].at
      BY <1>2 DEF DecideRetry, Goes, tables
    <2> QED BY <2>1
  <1>3. ASSUME NEW h \in Runs, ListScenes(h) PROVE Named'
    <2>1. attempts' = attempts /\ \A g \in Runs : handler'[g].at = handler[g].at
      BY <1>3 DEF ListScenes, tables
    <2> QED BY <2>1
  <1>4. ASSUME NEW h \in Runs, ResetScenes(h) PROVE Named'
    <2>1. attempts' = attempts /\ \A g \in Runs : handler'[g].at = handler[g].at
      BY <1>4 DEF ResetScenes
    <2> QED BY <2>1
  <1>5. ASSUME NEW h \in Runs, BeginPortrait(h) PROVE Named'
    <2>1. handler[h].at = 0 /\ attempts' = attempts /\ \A g \in Runs \ {h} : handler'[g] = handler[g]
      BY <1>5 DEF BeginPortrait, At, tables
    <2> QED BY <2>1
  <1>6. ASSUME NEW h \in Runs, PaintPortrait(h) PROVE Named'
    <2>1. attempts' = attempts /\ \A g \in Runs : handler'[g].at = handler[g].at
      BY <1>6 DEF PaintPortrait, Goes, tables
    <2> QED BY <2>1
  <1>7. ASSUME NEW h \in Runs, CommitPortrait(h) PROVE Named'
    <2> DEFINE job == [at |-> handler[h].at,
                        status |-> IF At(h, "painted") THEN "done" ELSE "failed"]
    <2>1. attempts' = attempts \cup {job} /\ job.at = handler[h].at BY <1>7 DEF CommitPortrait
    <2> HIDE DEF job
    <2>2. \A g \in Runs : handler'[g].at = handler[g].at BY <1>7 DEF CommitPortrait, Goes
    <2> QED BY <2>1, <2>2
  <1>8. ASSUME NEW h \in Runs, StoreRetry(h) PROVE Named'
    <2>1. attempts' = attempts /\ \A g \in Runs : handler'[g].at = handler[g].at
      BY <1>8 DEF StoreRetry, Goes
    <2> QED BY <2>1
  <1>9. ASSUME NEW s \in Starts, LoadStart(s) PROVE Named'
    BY <1>9 DEF LoadStart, tables
  <1>10. ASSUME NEW s \in Starts, ConfirmStart(s) PROVE Named'
    BY <1>10 DEF ConfirmStart
  <1>11. CASE DeleteRow
    BY <1>11 DEF DeleteRow
  <1>12. CASE Crash
    <2>1. attempts' = attempts /\ \A g \in Runs : handler'[g].at = handler[g].at
      BY <1>12 DEF Crash, tables
    <2> QED BY <2>1
  <1>13. CASE UNCHANGED client
    BY <1>13 DEF client
  <1> QED BY <1>1, <1>2, <1>3, <1>4, <1>5, <1>6, <1>7, <1>8, <1>9, <1>10, <1>11, <1>12, <1>13,
             ClientSteps DEF Retry

\* A failure that hides behind a newer portrait job met the run of that job.
LEMMA NextHidden ==
  TablesOK /\ HandlerOK /\ LockInv /\ Dated /\ Begun /\ Named /\ Hidden /\ [Next]_vars => Hidden'
PROOF
  <1> SUFFICES ASSUME TablesOK, HandlerOK, LockInv, Dated, Begun, Named, Hidden, [Next]_vars PROVE Hidden' OBVIOUS
  <1> USE DEF TablesOK, Rows
  <1>a. ASSUME /\ row'.exists => row.exists /\ row'.portrait = row.portrait
               /\ attempts' = attempts
               /\ \A g \in Runs : handler[g].at > 0 => handler'[g].at = handler[g].at
        PROVE  Hidden'
    <2> SUFFICES ASSUME row'.exists
                 PROVE  \E a \in attempts :
                          /\ IsNewest(a)
                          /\ \/ row.portrait # None
                             \/ a.status = "failed"
                             \/ \E h \in Runs :
                                  handler'[h].at > 0 /\ handler'[h].at = a.at /\ Met(h, Runs)'
      BY <1>a DEF Hidden, IsNewest
    <2> QED BY <1>a, MetStays DEF Hidden
  <1>1. ASSUME NEW h \in Runs, LoadRetry(h) PROVE Hidden'
    <2>1. \A g \in Runs : handler[g].at > 0 => handler'[g].at = handler[g].at
      BY <1>1 DEF LoadRetry, HandlerOK, RunStates
    <2> QED BY <1>1, <2>1, <1>a, MetStays DEF LoadRetry, tables
  <1>2. ASSUME NEW h \in Runs, DecideRetry(h) PROVE Hidden'
    <2>1. \A g \in Runs : handler[g].at > 0 => handler'[g].at = handler[g].at
      BY <1>2 DEF DecideRetry, Goes, HandlerOK, RunStates
    <2> QED BY <1>2, <2>1, <1>a, MetStays DEF DecideRetry, tables
  <1>3. ASSUME NEW h \in Runs, ListScenes(h) PROVE Hidden'
    <2>1. \A g \in Runs : handler[g].at > 0 => handler'[g].at = handler[g].at
      BY <1>3 DEF ListScenes, HandlerOK, RunStates
    <2> QED BY <1>3, <2>1, <1>a, MetStays DEF ListScenes, tables
  <1>4. ASSUME NEW h \in Runs, ResetScenes(h) PROVE Hidden'
    <2>1. \A g \in Runs : handler[g].at > 0 => handler'[g].at = handler[g].at
      BY <1>4 DEF ResetScenes, HandlerOK, RunStates
    <2> QED BY <1>4, <2>1, <1>a, MetStays DEF ResetScenes
  <1>5. ASSUME NEW h \in Runs, BeginPortrait(h) PROVE Hidden'
    <2>1. \A g \in Runs : handler[g].at > 0 => handler'[g].at = handler[g].at
      BY <1>5 DEF BeginPortrait, At, Dated, HandlerOK, RunStates
    <2> QED BY <1>5, <2>1, <1>a, MetStays DEF BeginPortrait, tables
  <1>6. ASSUME NEW h \in Runs, PaintPortrait(h) PROVE Hidden'
    <2>1. \A g \in Runs : handler[g].at > 0 => handler'[g].at = handler[g].at
      BY <1>6 DEF PaintPortrait, Goes, HandlerOK, RunStates
    <2> QED BY <1>6, <2>1, <1>a, MetStays DEF PaintPortrait, tables
  <1>7. ASSUME NEW h \in Runs, CommitPortrait(h) PROVE Hidden'
    <2> DEFINE new == [ at |-> handler[h].at,
                       status |-> IF At(h, "painted") THEN "done" ELSE "failed" ]
    <2>0. /\ attempts' = attempts \cup {new} /\ new.at = handler[h].at
          /\ ~At(h, "painted") => new.status = "failed"
      BY <1>7 DEF CommitPortrait
    <2> HIDE DEF new
    <2>1. PICK job :
            /\ attempts' = attempts \cup {job} /\ job.at = handler[h].at
            /\ ~At(h, "painted") => job.status = "failed"
      BY <2>0
    <2>2. \A b \in attempts : b.at \in Nat OBVIOUS
    <2>3. At(h, "painted") => row'.portrait # None
      BY <1>7, ConstantsFit DEF CommitPortrait, PortraitAfter
    <2>4. /\ \A g \in Runs : handler'[g].at = handler[g].at
          /\ met' = met /\ row.exists /\ handler[h].at \in Nat
      BY <1>7 DEF CommitPortrait, Goes, LockInv, Locked, HandlerOK, RunStates
    <2> HIDE DEF TablesOK, Rows
    <2>5. PICK a \in attempts : IsNewest(a) BY <2>4 DEF Hidden
    <2>6. job.at # a.at /\ a.at \in Nat /\ job.at \in Nat
      BY <1>7, <2>1, <2>2, <2>4 DEF CommitPortrait, Dated
    <2>7. CASE job.at > a.at
      <3>1. \A b \in attempts : b.at < job.at BY <2>2, <2>5, <2>6, <2>7 DEF IsNewest
      <3>2. IsNewest(job)' BY <2>1, <3>1 DEF IsNewest
      <3> QED BY <2>1, <2>3, <3>2 DEF Hidden
    <2>8. CASE job.at < a.at
      <3>1. IsNewest(a)' BY <2>1, <2>5, <2>8 DEF IsNewest
      <3>2. a.at > 0 /\ a.at # 0 BY <2>6, <2>8
      <3>3. PICK g \in Runs : handler[g].at = a.at BY <3>2 DEF Named
      <3>4. {g, h} \in met BY <1>7, <2>1, <2>8, <3>3 DEF CommitPortrait, Begun
      <3>5. handler'[g].at > 0 /\ handler'[g].at = a.at BY <2>4, <3>2, <3>3
      <3>6. Met(g, Runs)' BY <2>4, <3>4 DEF Met
      <3> QED BY <2>1, <3>1, <3>5, <3>6 DEF Hidden
    <2> QED BY <2>6, <2>7, <2>8
  <1>8. ASSUME NEW h \in Runs, StoreRetry(h) PROVE Hidden'
    <2>1. \A g \in Runs : handler[g].at > 0 => handler'[g].at = handler[g].at
      BY <1>8 DEF StoreRetry, Goes, HandlerOK, RunStates
    <2> QED BY <1>8, <2>1, <1>a, MetStays DEF StoreRetry
  <1>9. ASSUME NEW s \in Starts, LoadStart(s) PROVE Hidden'
    BY <1>9, <1>a DEF LoadStart, tables
  <1>10. ASSUME NEW s \in Starts, ConfirmStart(s) PROVE Hidden'
    BY <1>10, <1>a DEF ConfirmStart
  <1>11. CASE DeleteRow
    BY <1>11 DEF DeleteRow, Hidden
  <1>12. CASE Crash
    <2>1. \A g \in Runs : handler[g].at > 0 => handler'[g].at = handler[g].at
      BY <1>12 DEF Crash, HandlerOK, RunStates
    <2> QED BY <1>12, <2>1, <1>a, MetStays DEF Crash, tables
  <1>13. CASE UNCHANGED client
    BY <1>13, <1>a DEF client
  <1> QED BY <1>1, <1>2, <1>3, <1>4, <1>5, <1>6, <1>7, <1>8, <1>9, <1>10, <1>11, <1>12, <1>13,
             ClientSteps DEF Retry

\* A redraw that counts, alone, is counted in the step that commits its job.
LEMMA NextCounted ==
  TablesOK /\ HandlerOK /\ LockInv /\ Admitted /\ Together /\ Loaded /\ Dated /\ Counted
    /\ [Next]_vars => Counted'
PROOF
  <1> SUFFICES ASSUME TablesOK, HandlerOK, LockInv, Admitted, Together, Loaded, Dated, Counted,
                      [Next]_vars
               PROVE  Counted'
    OBVIOUS
  <1> USE DEF TablesOK, HandlerOK, RunStates, Rows, Counted, LetIn, At
  <1> DEFINE Kept == row'.count = row.count /\ Lone' \subseteq Lone
             Handled == \A g \in Runs :
               (LetIn(g) \/ At(g, "loaded"))' =>
                 \/ handler'[g].loaded.count = row.count
                 \/ /\ LetIn(g) \/ At(g, "loaded")
                    /\ handler'[g].loaded.count = handler[g].loaded.count
  <1>0. Cardinality(Lone) \in Nat /\ row.count \in Nat
    BY FS_CardinalityType
  <1>1. ASSUME Kept, Handled PROVE Counted'
    <2>1. IsFiniteSet(Lone') /\ Cardinality(Lone') <= Cardinality(Lone) BY <1>1, FS_Subset
    <2>2. Cardinality(Lone') \in Nat BY <2>1, FS_CardinalityType
    <2>3. \A g \in Runs : handler[g].loaded.count \in Nat OBVIOUS
    <2> QED BY <1>0, <1>1, <2>1, <2>2, <2>3
  <1>b. ASSUME UNCHANGED attempts,
               \A g \in Runs : handler'[g].at = handler[g].at /\ handler'[g].counts = handler[g].counts
        PROVE  Lone' \subseteq Lone
    BY <1>b, MetStays DEF Lone, Redraws, Committed
  <1>2. ASSUME NEW h \in Runs, CommitPortrait(h) PROVE Counted'
    <2> DEFINE job == [at |-> handler[h].at,
                        status |-> IF At(h, "painted") THEN "done" ELSE "failed"]
    <2>1. attempts' = attempts \cup {job} /\ job.at = handler[h].at BY <1>2 DEF CommitPortrait
    <2> HIDE DEF job
    <2>2. handler[h].at > 0 /\ \A a \in attempts : a.at # handler[h].at
      BY <1>2 DEF CommitPortrait, Dated
    <2>3. \A g \in Runs : handler'[g].at = handler[g].at /\ handler'[g].counts = handler[g].counts
                          /\ handler'[g].loaded = handler[g].loaded
      BY <1>2 DEF CommitPortrait, Goes
    <2>4. \A g \in Runs \ {h} : Committed(g)' => Committed(g)
      BY <2>1, <2>2, <2>3 DEF Dated, Committed
    <2>5. row.exists /\ RunBusy(h) /\ handler[h].pc \in {"painted", "failed"}
      BY <1>2 DEF CommitPortrait, LockInv, Locked, RunBusy
    <2>6. handler'[h].pc \in {"drawn", "undrawn"} /\ \A g \in Runs \ {h} : handler'[g] = handler[g]
      BY <1>2 DEF CommitPortrait, Goes
    <2>7. met' = met BY <1>2 DEF CommitPortrait
    <2>8. Lone' \subseteq Lone \cup {h} /\ h \notin Lone
      BY <2>2, <2>3, <2>4, <2>7 DEF Lone, Redraws, Committed, Met
    <2>9. /\ handler[h].counts => row'.count = handler[h].loaded.count + 1
          /\ ~handler[h].counts => row'.count = row.count
      BY <1>2 DEF CommitPortrait
    <2>10. Cardinality(Lone) <= handler[h].loaded.count /\ handler[h].loaded.count \in Nat
      BY <2>5
    <2>11. CASE handler[h].counts /\ ~Met(h, Runs)
      <3>1. IsFiniteSet(Lone \cup {h}) /\ Cardinality(Lone \cup {h}) = Cardinality(Lone) + 1
        BY <2>8, FS_AddElement
      <3>2. IsFiniteSet(Lone') /\ Cardinality(Lone') <= Cardinality(Lone \cup {h})
        BY <2>8, <3>1, FS_Subset
      <3>3. Cardinality(Lone') \in Nat BY <3>2, FS_CardinalityType
      <3>4. Cardinality(Lone') <= row'.count BY <1>0, <2>9, <2>10, <2>11, <3>1, <3>2, <3>3
      <3>5. \A g \in Runs \ {h} : ~(LetIn(g) \/ At(g, "loaded"))
        BY <2>5, <2>11, Pairs DEF Together, RunBusy, Met
      <3> QED BY <2>6, <3>2, <3>4, <3>5
    <2>12. CASE ~(handler[h].counts /\ ~Met(h, Runs))
      <3>1. Lone' \subseteq Lone
        BY <2>3, <2>7, <2>8, <2>12 DEF Lone, Redraws, Met
      <3>2. IsFiniteSet(Lone') /\ Cardinality(Lone') <= Cardinality(Lone) BY <3>1, FS_Subset
      <3>3. Cardinality(Lone') \in Nat BY <3>2, FS_CardinalityType
      <3>4. row'.count \in Nat /\ Cardinality(Lone') <= row'.count
        BY <1>0, <2>9, <2>10, <3>2, <3>3
      <3>5. \A g \in Runs \ {h} : LetIn(g) \/ At(g, "loaded") =>
              Cardinality(Lone') <= handler[g].loaded.count
        BY <1>0, <3>2, <3>3
      <3> QED BY <2>6, <3>2, <3>4, <3>5
    <2> QED BY <2>11, <2>12
  <1>3. ASSUME NEW h \in Runs, BeginPortrait(h) PROVE Kept /\ Handled
    <2>1. \A g \in Runs \ {h} : handler'[g] = handler[g] BY <1>3 DEF BeginPortrait
    <2>2. handler'[h].at = began + 1 /\ handler'[h].loaded = handler[h].loaded
      BY <1>3 DEF BeginPortrait
    <2>3. UNCHANGED <<row, attempts>> /\ handler[h].pc = "reset" BY <1>3 DEF BeginPortrait, tables
    <2>4. ~Committed(h)' BY <2>2, <2>3 DEF Committed, Dated
    <2>5. Lone' \subseteq Lone BY <2>1, <2>3, <2>4, MetStays DEF Lone, Redraws, Committed
    <2> QED BY <2>1, <2>2, <2>3, <2>5
  <1>4. ASSUME NEW h \in Runs, LoadRetry(h) \/ DecideRetry(h) \/ ListScenes(h) \/ ResetScenes(h)
        PROVE  Kept /\ Handled
    <2>1. handler[h].at = 0 /\ handler'[h].at = 0
      BY <1>4 DEF LoadRetry, DecideRetry, ListScenes, ResetScenes, Goes, Dated
    <2>2. \A g \in Runs \ {h} : handler'[g] = handler[g]
      BY <1>4 DEF LoadRetry, DecideRetry, ListScenes, ResetScenes, Goes
    <2>3. UNCHANGED <<row, attempts>>
      BY <1>4 DEF LoadRetry, DecideRetry, ListScenes, ResetScenes, tables
    <2>4. Lone' \subseteq Lone BY <2>1, <2>2, <2>3, MetStays DEF Lone, Redraws, Committed
    <2>5. \/ handler'[h].loaded = row
          \/ /\ handler[h].pc \in {"loaded", "admitted", "resetting"}
             /\ handler'[h].loaded = handler[h].loaded
      BY <1>4 DEF LoadRetry, DecideRetry, ListScenes, ResetScenes, Goes
    <2> QED BY <2>2, <2>3, <2>4, <2>5
  <1>5. ASSUME NEW h \in Runs, PaintPortrait(h) \/ StoreRetry(h) PROVE Kept /\ Handled
    <2>1. \A g \in Runs : handler'[g].at = handler[g].at /\ handler'[g].counts = handler[g].counts
      BY <1>5 DEF PaintPortrait, StoreRetry, Goes
    <2>2. UNCHANGED <<row, attempts>> BY <1>5 DEF PaintPortrait, StoreRetry, tables
    <2>3. \A g \in Runs :
            /\ handler'[g].loaded = handler[g].loaded
            /\ (LetIn(g) \/ At(g, "loaded"))' => LetIn(g) \/ At(g, "loaded")
      BY <1>5 DEF PaintPortrait, StoreRetry, Goes
    <2> QED BY <1>b, <2>1, <2>2, <2>3
  <1>6. ASSUME NEW s \in Starts, LoadStart(s) \/ ConfirmStart(s) PROVE Kept /\ Handled
    <2>1. UNCHANGED <<attempts, handler>> /\ row'.count = row.count
      BY <1>6 DEF LoadStart, ConfirmStart, tables
    <2> QED BY <1>b, <2>1
  <1>7. ASSUME DeleteRow PROVE Kept /\ Handled
    <2>1. attempts' = {} /\ row'.count = row.count /\ handler' = handler BY <1>7 DEF DeleteRow
    <2> QED BY <2>1 DEF Lone, Redraws, Committed
  <1>8. ASSUME Crash PROVE Kept /\ Handled
    <2>1. \A g \in Runs : handler'[g].at = handler[g].at /\ handler'[g].counts = handler[g].counts
      BY <1>8 DEF Crash
    <2>2. UNCHANGED <<row, attempts>> /\ \A g \in Runs : handler'[g].pc \in {"none", "over"}
      BY <1>8 DEF Crash, tables
    <2> QED BY <1>b, <2>1, <2>2
  <1>9. ASSUME UNCHANGED client PROVE Kept /\ Handled
    BY <1>9, <1>b DEF client
  <1> QED BY <1>1, <1>2, <1>3, <1>4, <1>5, <1>6, <1>7, <1>8, <1>9, ClientSteps DEF Retry

\* A run that has painted stores its answer next, and who paints for the same request met it.
LEMMA NextTwice ==
  TablesOK /\ HandlerOK /\ LockInv /\ Together /\ Dated /\ Twice /\ [Next]_vars => Twice'
PROOF
  <1> SUFFICES ASSUME TablesOK, HandlerOK, LockInv, Together, Dated, Twice, [Next]_vars PROVE Twice' OBVIOUS
  <1> USE DEF HandlerOK, RunStates, Twice, Committed, Answered, LetIn, At
  <1>1. ASSUME NEW h \in Runs, LoadRetry(h) PROVE Twice'
    <2>1. /\ \A g \in Runs :
               /\ handler'[g].at = handler[g].at
               /\ LetIn(g)' => LetIn(g)
               /\ handler[g].pc \in {"drawn", "undrawn"} => handler'[g].pc = handler[g].pc
          /\ UNCHANGED <<attempts, log, crashed>>
      BY <1>1 DEF LoadRetry, tables
    <2>2. \A g \in Runs : Committed(g)' => Committed(g) BY <2>1
    <2> HIDE DEF HandlerOK, RunStates, Committed, LetIn
    <2> QED BY <2>1, <2>2, MetStays
  <1>2. ASSUME NEW h \in Runs, DecideRetry(h) PROVE Twice'
    <2>1. ~crashed' => ~crashed /\ \A g \in Runs : Committed(g)' => Committed(g)
      BY <1>2 DEF DecideRetry, Goes, tables
    <2>2. /\ \A g \in Runs \ {h} : handler'[g] = handler[g]
          /\ handler[h].pc = "loaded" /\ handler'[h].pc \in {"over", "admitted"}
          /\ handler'[h].pc = "admitted" => ~Answered(h)
          /\ UNCHANGED <<attempts, log, met>>
      BY <1>2 DEF DecideRetry, Goes, tables
    <2>3. ASSUME ~crashed, NEW g \in Runs, Committed(g), Request[g] = Request[h], ~Answered(h)
          PROVE  g = h \/ {g, h} \in met
      BY <2>2, <2>3 DEF Together, RunBusy
    <2>4. ~Committed(h) /\ handler'[h].at = handler[h].at
      BY <2>2, <1>2 DEF Dated, DecideRetry, Goes
    <2> QED BY <2>1, <2>2, <2>3, <2>4
  <1>3. ASSUME NEW h \in Runs, ListScenes(h) PROVE Twice'
    <2>1. /\ \A g \in Runs :
               /\ handler'[g].at = handler[g].at
               /\ LetIn(g)' => LetIn(g)
               /\ handler[g].pc \in {"drawn", "undrawn"} => handler'[g].pc = handler[g].pc
          /\ UNCHANGED <<attempts, log, crashed>>
      BY <1>3 DEF ListScenes, tables
    <2>2. \A g \in Runs : Committed(g)' => Committed(g) BY <2>1
    <2> HIDE DEF HandlerOK, RunStates, Committed, LetIn
    <2> QED BY <2>1, <2>2, MetStays
  <1>4. ASSUME NEW h \in Runs, ResetScenes(h) PROVE Twice'
    <2>1. /\ \A g \in Runs :
               /\ handler'[g].at = handler[g].at
               /\ LetIn(g)' => LetIn(g)
               /\ handler[g].pc \in {"drawn", "undrawn"} => handler'[g].pc = handler[g].pc
          /\ UNCHANGED <<attempts, log, crashed>>
      BY <1>4 DEF ResetScenes
    <2>2. \A g \in Runs : Committed(g)' => Committed(g) BY <2>1
    <2> HIDE DEF HandlerOK, RunStates, Committed, LetIn
    <2> QED BY <2>1, <2>2, MetStays
  <1>5. ASSUME NEW h \in Runs, BeginPortrait(h) PROVE Twice'
    <2>1. handler'[h].at = began + 1 /\ \A g \in Runs \ {h} : handler'[g] = handler[g]
      BY <1>5 DEF BeginPortrait
    <2>2. UNCHANGED <<attempts, log, met, crashed>> /\ handler[h].pc = "reset"
      BY <1>5 DEF BeginPortrait, tables
    <2>3. ~Committed(h)' /\ ~Committed(h) BY <2>1, <2>2 DEF Dated, TablesOK
    <2> QED BY <2>1, <2>2, <2>3
  <1>6. ASSUME NEW h \in Runs, PaintPortrait(h) PROVE Twice'
    <2>1. /\ \A g \in Runs :
               /\ handler'[g].at = handler[g].at
               /\ LetIn(g)' => LetIn(g)
               /\ handler[g].pc \in {"drawn", "undrawn"} => handler'[g].pc = handler[g].pc
          /\ UNCHANGED <<attempts, log, crashed>>
      BY <1>6 DEF PaintPortrait, Goes, tables
    <2>2. \A g \in Runs : Committed(g)' => Committed(g) BY <2>1
    <2> HIDE DEF HandlerOK, RunStates, Committed, LetIn
    <2> QED BY <2>1, <2>2, MetStays
  <1>7. ASSUME NEW h \in Runs, CommitPortrait(h) PROVE Twice'
    <2> DEFINE job == [at |-> handler[h].at,
                        status |-> IF At(h, "painted") THEN "done" ELSE "failed"]
    <2>1. attempts' = attempts \cup {job} /\ job.at = handler[h].at BY <1>7 DEF CommitPortrait
    <2> HIDE DEF job
    <2>2. UNCHANGED <<log, met, crashed>> BY <1>7 DEF CommitPortrait
    <2>3. handler'[h].pc \in {"drawn", "undrawn"} BY <1>7 DEF CommitPortrait, Goes
    <2>4. handler[h].at > 0 /\ handler[h].pc \in {"painted", "failed"} BY <1>7 DEF CommitPortrait, Dated
    <2>5. \A g \in Runs : handler'[g].at = handler[g].at BY <1>7 DEF CommitPortrait, Goes
    <2>6. \A g \in Runs \ {h} : handler'[g] = handler[g] BY <1>7 DEF CommitPortrait, Goes
    <2>7. ASSUME NEW g \in Runs \ {h}, Committed(g)' PROVE Committed(g)
      BY <2>1, <2>4, <2>5, <2>7 DEF Dated
    <2>8. ASSUME NEW g \in Runs \ {h}, ~crashed, Request[g] = Request[h], LetIn(g) \/ Committed(g)
          PROVE  {g, h} \in met
      <3>1. CASE LetIn(g) BY <2>4, <3>1 DEF Together, RunBusy
      <3>2. CASE Committed(g) BY <2>4, <2>8, <3>2
      <3> QED BY <2>8, <3>1, <3>2
    <2>9. ~crashed' => \A g \in Runs : Committed(g)' => Answered(g)' \/ handler'[g].pc \in {"drawn", "undrawn"}
      BY <2>2, <2>3, <2>6, <2>7
    <2>10. ASSUME ~crashed', NEW g \in Runs, NEW k \in Runs, Committed(g)', Request[g] = Request[k],
                 (LetIn(k) \/ Committed(k))', g # k
           PROVE  {g, k} \in met
      <3>1. CASE g = h
        <4>1. k # h BY <2>10, <3>1
        <4>2. LetIn(k) \/ Committed(k) BY <2>6, <2>7, <2>10, <4>1
        <4> QED BY <2>2, <2>8, <2>10, <3>1, <4>1, <4>2, Pairs
      <3>2. CASE k = h /\ g # h BY <2>2, <2>7, <2>8, <2>10, <3>2
      <3>3. CASE g # h /\ k # h
        <4>1. Committed(g) /\ (LetIn(k) \/ Committed(k)) BY <2>6, <2>7, <2>10, <3>3
        <4> QED BY <2>2, <2>10, <4>1
      <3> QED BY <3>1, <3>2, <3>3
    <2> QED BY <2>2, <2>9, <2>10
  <1>8. ASSUME NEW h \in Runs, StoreRetry(h) PROVE Twice'
    <2>1. handler'[h].pc = "over" /\ \A g \in Runs \ {h} : handler'[g] = handler[g]
      BY <1>8 DEF StoreRetry, Goes
    <2>2. UNCHANGED <<attempts, met, crashed>> /\ log \subseteq log' /\ handler'[h].at = handler[h].at
      BY <1>8 DEF StoreRetry, Goes
    <2>3. Answered(h)' \/ ~row.exists BY <1>8 DEF StoreRetry
    <2>4. ~row.exists => attempts = {} BY DEF LockInv, DeletedStaysDeleted
    <2> QED BY <2>1, <2>2, <2>3, <2>4
  <1>9. ASSUME NEW s \in Starts, LoadStart(s) PROVE Twice'
    BY <1>9, MetStays DEF LoadStart, tables
  <1>10. ASSUME NEW s \in Starts, ConfirmStart(s) PROVE Twice'
    BY <1>10, MetStays DEF ConfirmStart
  <1>11. CASE DeleteRow
    <2>1. attempts' = {} BY <1>11 DEF DeleteRow
    <2> QED BY <2>1
  <1>12. CASE Crash
    <2>1. crashed' BY <1>12 DEF Crash
    <2> QED BY <2>1
  <1>13. CASE UNCHANGED client
    BY <1>13, MetStays DEF client
  <1> QED BY <1>1, <1>2, <1>3, <1>4, <1>5, <1>6, <1>7, <1>8, <1>9, <1>10, <1>11, <1>12, <1>13,
             ClientSteps DEF Retry

-----------------------------------------------------------------------------
(* The scenes where no two requests meet, nothing is deleted and nothing dies *)

\* One request is under way at most, ...
OneBusy ==
  /\ \A g, h \in Runs : RunBusy(g) /\ RunBusy(h) => g = h
  /\ \A s, t \in Starts : StartBusy(s) /\ StartBusy(t) => s = t
  /\ \A h \in Runs, s \in Starts : ~(RunBusy(h) /\ StartBusy(s))

\* ... what it loaded is what the row still is, until it commits itself, ...
LoadedIsRow ==
  /\ \A h \in Runs : RunBusy(h) /\ handler[h].pc \notin {"drawn", "undrawn"} /\ row.exists =>
       handler[h].loaded = row
  /\ \A s \in Starts : StartBusy(s) /\ row.exists => starter[s].loaded = row

\* ... and a run that was let in has an unanswered request, and no story was started.
Ruled ==
  \A h \in Runs :
    /\ LetIn(h) => ~handler[h].loaded.confirmed
    /\ RunBusy(h) /\ ~At(h, "loaded") => ~Answered(h)

\* This is what the requests keep when none of them meet.
LEMMA Unmet ==
  TablesOK /\ HandlerOK /\ StarterOK /\ OpenInv /\ met = {} => OneBusy /\ LoadedIsRow /\ Ruled
PROOF
  <1> SUFFICES ASSUME TablesOK, HandlerOK, StarterOK, OpenInv, met = {}
               PROVE  OneBusy /\ LoadedIsRow /\ Ruled
    OBVIOUS
  <1>1. \A x, others : ~Met(x, others) BY DEF Met
  <1>2. OneBusy BY DEF OpenInv, Together, OneBusy
  <1>3. Ruled BY <1>1 DEF OpenInv, Ruling, Ruled
  <1>4. \A r, q \in Rows :
          r.exists = q.exists /\ r.portrait = q.portrait /\ r.confirmed = q.confirmed
            /\ r.count = q.count => r = q
    BY DEF Rows
  <1>5. LoadedIsRow
    <2>1. \A h \in Runs : handler[h].loaded \in Rows BY DEF HandlerOK, RunStates
    <2>2. \A s \in Starts : starter[s].loaded \in Rows BY DEF StarterOK
    <2>3. row \in Rows /\ row.exists \in BOOLEAN BY DEF TablesOK, Rows
    <2>4. \A r \in Rows : r.exists => r.exists = TRUE BY DEF Rows
    <2> QED BY <1>1, <1>4, <2>1, <2>2, <2>3, <2>4 DEF OpenInv, Loaded, LoadedIsRow
  <1> QED BY <1>2, <1>3, <1>5

Working(p) == painter[p].pc \notin {"none", "over"}

\* The scene a working painter is at, or begins with.
Place(p) == IF painter[p].pc = "queued" THEN 1 ELSE painter[p].scene

Tried(J) == {j.scene : j \in J}

\* The painter of the first portrait made the jobs of the scenes x to b - 1 one after the
\* other, and makes the next.
Trails(x, b) ==
  x < b => IF b <= SCENES THEN Working(First) /\ Place(First) = b ELSE ~Working(First)

Trail(J) == \E x, b \in 1..SCENES + 1 : Tried(J) = x..b - 1 /\ Trails(x, b)

\* A painter with all scenes before its own tried, and of the later ones only a trail.
Leads(p) ==
  /\ Working(p)
  /\ \E x, b \in 1..SCENES + 1 :
       /\ Place(p) < x
       /\ Tried(jobs) = 1..Place(p) - 1 \cup x..b - 1
       /\ Trails(x, b)

Covered == Scenes \subseteq Tried(jobs) \/ \E p \in Painters : Leads(p)

\* A painter other than the first finds no scene before its own that is left out.
OthersFollow ==
  \A p \in Painters \ {First} : Working(p) => 1..Place(p) - 1 \subseteq Tried(jobs)

FirstAlone == \A p \in Painters \ {First} : ~Working(p)

\* The portrait of this run is under way.
InRedraw(h) == handler[h].pc \in {"painting", "painted", "failed", "drawn", "undrawn"}

\* Before the first reset, and again when the new portrait has its painter.
Settled == began <= 1 /\ \A h \in Runs : ~At(h, "reset") /\ ~InRedraw(h)

SettledInv == Settled /\ row.portrait # None => Covered /\ OthersFollow

\* From the first reset to the painter of the new portrait.
Between ==
  \/ began = 0 /\ \E h \in Runs : At(h, "reset")
  \/ began = 1 /\ \E h \in Runs : InRedraw(h)

BetweenInv == Between => FirstAlone /\ Trail(jobs)

\* Until then there is one painter; what it adds during the reset is a trail.
BeforeInv ==
  began = 0 /\ ~row.confirmed =>
    /\ FirstAlone
    /\ Working(First) => \A j \in jobs : j.scene < Place(First)
    /\ \A h \in Runs : At(h, "resetting") =>
         handler[h].oldJobs \subseteq jobs /\ Trail(jobs \ handler[h].oldJobs)

\* A redraw has begun its transaction; one that failed has lost the portrait.
RedrawInv ==
  /\ row.exists /\ deletion.pc = "none"
  /\ \A h \in Runs : InRedraw(h) => began >= 1
  /\ \A h \in Runs : At(h, "undrawn") => row.portrait = None

SceneInv == SettledInv /\ BetweenInv /\ BeforeInv /\ RedrawInv

\* One step of a painter as the scenes see it: it stays where it is, ...
Stays(p) == Working(p)' /\ Place(p)' = Place(p) /\ jobs' = jobs

\* ... finds its scene made by another and ends, ...
Yields(p) == ~Working(p)' /\ Place(p) \in Tried(jobs) /\ jobs' = jobs

\* ... or has tried it and goes on.
Passes(p) ==
  /\ Place(p) \notin Tried(jobs)
  /\ \E j : j.scene = Place(p) /\ j \notin jobs /\ jobs' = jobs \cup {j}
  /\ IF Place(p) = SCENES THEN ~Working(p)' ELSE Working(p)' /\ Place(p)' = Place(p) + 1

PainterMoves(p) ==
  /\ Working(p)
  /\ \A q \in Painters \ {p} : painter'[q] = painter[q]
  /\ Stays(p) \/ Yields(p) \/ Passes(p)

\* Every working painter is at a scene.
LEMMA PlaceIsScene ==
  PainterOK /\ InOrder => \A p \in Painters : Working(p) => Place(p) \in Scenes
PROOF BY SCENESAssumption DEF PainterOK, InOrder, Working, Place, Scenes

\* That is what the steps of a painter do while the session exists.
LEMMA PaintMoves ==
  PainterOK /\ TablesOK /\ InOrder /\ HolderIsFirst /\ row.exists
    => \A p \in Painters : Paint(p) => PainterMoves(p)
PROOF
  <1> SUFFICES ASSUME PainterOK, TablesOK, InOrder, HolderIsFirst, row.exists,
                      NEW p \in Painters, Paint(p)
               PROVE  PainterMoves(p)
    OBVIOUS
  <1> USE DEF PainterMoves, Stays, Yields, Passes, Working, Place, PainterOK
  <1>1. CASE BeginPainter(p)
    BY <1>1 DEF BeginPainter, Loads, tables
  <1>2. CASE InsertJob(p)
    <2>1. ~FreeSlot(p) => painter[p].scene \in Tried(jobs) BY DEF FreeSlot, Tried
    <2> QED BY <1>2, <2>1 DEF InsertJob, Loads, tables
  <1>3. CASE PaintScene(p)
    BY <1>3 DEF PaintScene, Loads, tables
  <1>4. CASE CommitScene(p)
    <2> DEFINE job == [ by |-> p, scene |-> painter[p].scene,
                        status |-> IF painter[p].pc = "painted" THEN "done" ELSE "failed" ]
    <2>1. jobs' = jobs \cup {job} /\ job.scene = painter[p].scene BY <1>4 DEF CommitScene
    <2> HIDE DEF job
    <2>2. painter[p].pc \in {"painted", "failed"} BY <1>4 DEF CommitScene
    <2>3. \A j \in jobs : j.scene # painter[p].scene BY <2>2 DEF HolderIsFirst, Holds
    <2>4. painter[p].scene \notin Tried(jobs) /\ job \notin jobs BY <2>1, <2>3 DEF Tried
    <2>5. \E j : j.scene = Place(p) /\ j \notin jobs /\ jobs' = jobs \cup {j} BY <2>1, <2>2, <2>4
    <2>6. painter' = [painter EXCEPT ![p] =
                       IF painter[p].scene = SCENES THEN [painter[p] EXCEPT !.pc = "over"]
                       ELSE [painter[p] EXCEPT !.pc = "next", !.scene = @ + 1]]
      BY <1>4 DEF CommitScene, Loads, LastScene
    <2> QED BY <2>2, <2>4, <2>5, <2>6
  <1> QED BY <1>1, <1>2, <1>3, <1>4 DEF Paint

\* A scene is added to the tried ones at a time.
LEMMA TriedMoves ==
  /\ \A p : Stays(p) \/ Yields(p) => Tried(jobs)' = Tried(jobs)
  /\ \A p : Passes(p) => Tried(jobs)' = Tried(jobs) \cup {Place(p)}
PROOF BY DEF Stays, Yields, Passes, Tried

\* The first painter makes a trail longer.
LEMMA TrailGrows ==
  ASSUME NEW J, NEW K, Working(First), Place(First) \in Scenes, Trail(J),
         Passes(First), Place(First) \notin Tried(J), Tried(K) = Tried(J) \cup {Place(First)}
  PROVE  \E x, b \in 1..SCENES + 1 : Tried(K) = x..b - 1 /\ Trails(x, b)'
PROOF
  <1> USE SCENESAssumption DEF Scenes
  <1>0. PICK k \in Scenes : k = Place(First) OBVIOUS
  <1>1. k + 1 \in 1..SCENES + 1 /\ k \in 1..SCENES + 1 OBVIOUS
  <1>2. PICK x, b \in 1..SCENES + 1 : Tried(J) = x..b - 1 /\ Trails(x, b) BY DEF Trail
  <1>3. \A y \in 1..k : Trails(y, k + 1)' BY <1>0 DEF Trails, Passes
  <1>4. CASE x < b
    <2>1. b = k BY <1>0, <1>2, <1>4 DEF Trails
    <2>2. Tried(K) = x..(k + 1) - 1 BY <1>0, <1>2, <1>4, <2>1
    <2> QED BY <1>1, <1>3, <1>4, <2>1, <2>2
  <1>5. CASE ~(x < b)
    <2>1. Tried(K) = k..(k + 1) - 1 BY <1>0, <1>2, <1>5
    <2> QED BY <1>1, <1>3, <2>1
  <1> QED BY <1>4, <1>5

\* Who tried the next scene after all before leads, or the first painter that it has met.
LEMMA NewLeader ==
  ASSUME NEW p \in Painters, NEW k \in Scenes, NEW x \in 1..SCENES + 1, NEW b \in 1..SCENES + 1,
         k < x, Tried(jobs)' = 1..k \cup x..b - 1, x < b => Trails(x, b)',
         k < SCENES => Working(p)' /\ Place(p)' = k + 1, First \in Painters
  PROVE  Covered'
PROOF
  <1> USE SCENESAssumption DEF Scenes
  <1>1. CASE x < b /\ x = k + 1 /\ b <= SCENES
    <2>1. Tried(jobs)' = 1..b - 1 \cup (SCENES + 1)..(SCENES + 1) - 1 BY <1>1
    <2>2. Working(First)' /\ Place(First)' = b BY <1>1 DEF Trails
    <2>3. Trails(SCENES + 1, SCENES + 1)' BY DEF Trails
    <2>4. Leads(First)' BY <1>1, <2>1, <2>2, <2>3 DEF Leads
    <2> QED BY <2>4 DEF Covered
  <1>2. CASE x < b /\ x = k + 1 /\ b > SCENES
    <2>1. Scenes \subseteq Tried(jobs)' BY <1>2
    <2> QED BY <2>1 DEF Covered
  <1>3. CASE k = SCENES
    <2>1. Scenes \subseteq Tried(jobs)' BY <1>3
    <2> QED BY <2>1 DEF Covered
  <1>4. CASE k < SCENES /\ x < b /\ x # k + 1
    <2>1. k + 1 < x BY <1>4
    <2> QED BY <1>4, <2>1 DEF Covered, Leads
  <1>5. CASE k < SCENES /\ ~(x < b)
    <2>1. Tried(jobs)' = 1..(k + 1) - 1 \cup (SCENES + 1)..(SCENES + 1) - 1 BY <1>5
    <2>2. Trails(SCENES + 1, SCENES + 1)' BY DEF Trails
    <2>3. Leads(p)' BY <1>5, <2>1, <2>2 DEF Leads
    <2> QED BY <2>3 DEF Covered
  <1> QED BY <1>1, <1>2, <1>3, <1>4, <1>5

\* Where another one leads, the first painter's trail beyond it stays.
LEMMA LeaderKept ==
  ASSUME NEW p \in Painters, NEW q \in Painters, p # q, PainterMoves(p), Leads(q),
         Place(p) \in Scenes, Place(q) \in Scenes, First \in Painters,
         p # First => 1..Place(p) - 1 \subseteq Tried(jobs)
  PROVE  Covered'
PROOF
  <1> USE SCENESAssumption DEF Scenes
  <1>0. PICK k \in Scenes, l \in Scenes : k = Place(p) /\ l = Place(q) OBVIOUS
  <1>1. PICK x, b \in 1..SCENES + 1 :
          l < x /\ Tried(jobs) = 1..l - 1 \cup x..b - 1 /\ Trails(x, b)
    BY <1>0 DEF Leads
  <1>2. Working(q)' /\ Place(q)' = l BY <1>0 DEF PainterMoves, Working, Place, Leads
  <1>3. CASE (Stays(p) \/ Yields(p)) /\ Trails(x, b)'
    <2>1. Tried(jobs)' = Tried(jobs) BY <1>0, <1>3, TriedMoves
    <2> QED BY <1>0, <1>1, <1>2, <1>3, <2>1 DEF Covered, Leads
  <1>4. Stays(p) \/ Yields(p) => Trails(x, b)'
    <2>1. CASE p # First
      BY <1>0, <1>1, <2>1 DEF Trails, PainterMoves, Working, Place
    <2>2. CASE p = First /\ Stays(p)
      BY <1>0, <1>1, <2>2 DEF Trails, Stays, PainterMoves
    <2>3. CASE p = First /\ Yields(p)
      BY <1>0, <1>1, <2>3 DEF Trails, Yields, PainterMoves
    <2> QED BY <1>0, <2>1, <2>2, <2>3
  <1>5. CASE Passes(p)
    <2>1. Tried(jobs)' = Tried(jobs) \cup {k} /\ k \notin Tried(jobs)
      BY <1>0, <1>5, TriedMoves DEF Passes
    <2>2. k >= l BY <1>0, <1>1, <2>1
    <2>3. CASE k > l
      <3>1. p = First BY <1>0, <1>1, <2>1, <2>3
      <3>2. \A y \in 1..k : Trails(y, k + 1)' BY <1>0, <1>5, <3>1 DEF Trails, Passes
      <3>3. CASE x < b
        <4>1. b = k BY <1>0, <1>1, <3>1, <3>3 DEF Trails, PainterMoves
        <4>2. Tried(jobs)' = 1..l - 1 \cup x..(k + 1) - 1 BY <1>0, <1>1, <2>1, <3>3, <4>1
        <4> QED BY <1>0, <1>1, <1>2, <3>2, <3>3, <4>1, <4>2 DEF Covered, Leads
      <3>4. CASE ~(x < b)
        <4>1. Tried(jobs)' = 1..l - 1 \cup k..(k + 1) - 1 BY <1>0, <1>1, <2>1, <3>4
        <4> QED BY <1>0, <1>2, <2>3, <3>2, <4>1 DEF Covered, Leads
      <3> QED BY <1>0, <3>3, <3>4
    <2>4. CASE k = l
      <3>1. Tried(jobs)' = 1..k \cup x..b - 1 BY <1>0, <1>1, <2>1, <2>4
      <3>2. x < b => p # First
        <4> SUFFICES ASSUME x < b, p = First PROVE FALSE OBVIOUS
        <4>1. Working(First) /\ Place(First) = k BY <1>0 DEF PainterMoves
        <4> QED BY <1>1, <2>4, <4>1 DEF Trails
      <3>3. x < b => Trails(x, b)' BY <1>1, <3>2 DEF Trails, PainterMoves, Working, Place
      <3>4. k < SCENES => Working(p)' /\ Place(p)' = k + 1 BY <1>0, <1>5 DEF Passes
      <3> QED BY <1>1, <2>4, <3>1, <3>3, <3>4, NewLeader
    <2> QED BY <1>0, <2>2, <2>3, <2>4
  <1> QED BY <1>0, <1>3, <1>4, <1>5 DEF PainterMoves

\* Under PainterMoves a leader stays, or another painter becomes one, until all is tried.
LEMMA CoveredKept ==
  ASSUME NEW p \in Painters, PainterMoves(p), Covered, OthersFollow,
         \A q \in Painters : Working(q) => Place(q) \in Scenes, First \in Painters
  PROVE  Covered' /\ OthersFollow'
PROOF
  <1> USE SCENESAssumption DEF Scenes
  <1>0. Working(p) /\ Place(p) \in Scenes BY DEF PainterMoves
  <1>1. Tried(jobs) \subseteq Tried(jobs)' BY TriedMoves DEF PainterMoves
  <1>2. OthersFollow'
    <2> SUFFICES ASSUME NEW q \in Painters \ {First}, Working(q)'
                 PROVE  1..Place(q)' - 1 \subseteq Tried(jobs)'
      BY DEF OthersFollow
    <2>1. CASE q # p
      BY <1>1, <2>1 DEF OthersFollow, PainterMoves, Working, Place
    <2>2. CASE q = p
      <3>1. 1..Place(p) - 1 \subseteq Tried(jobs) BY <1>0, <2>2 DEF OthersFollow
      <3>2. CASE Stays(p) BY <1>1, <2>2, <3>1, <3>2 DEF Stays
      <3>3. CASE Passes(p)
        <4>1. Tried(jobs)' = Tried(jobs) \cup {Place(p)} BY <3>3, TriedMoves
        <4>2. Place(p)' = Place(p) + 1 BY <2>2, <3>3 DEF Passes
        <4> QED BY <1>0, <2>2, <3>1, <4>1, <4>2
      <3> QED BY <2>2, <3>2, <3>3 DEF PainterMoves, Yields
    <2> QED BY <2>1, <2>2
  <1>3. Covered'
    <2>1. CASE Scenes \subseteq Tried(jobs)
      BY <1>1, <2>1 DEF Covered
    <2>2. ASSUME NEW q \in Painters, q # p, Leads(q) PROVE Covered'
      <3>1. Working(q) /\ Place(q) \in Scenes BY <2>2 DEF Leads
      <3>2. p # First => 1..Place(p) - 1 \subseteq Tried(jobs) BY <1>0 DEF OthersFollow
      <3> QED BY <1>0, <2>2, <3>1, <3>2, LeaderKept
    <2>3. CASE Leads(p)
      <3>1. PICK k \in Scenes : k = Place(p) BY <1>0
      <3>2. PICK x, b \in 1..SCENES + 1 :
              k < x /\ Tried(jobs) = 1..k - 1 \cup x..b - 1 /\ Trails(x, b)
        BY <2>3, <3>1 DEF Leads
      <3>3. k \notin Tried(jobs) BY <3>2
      <3>4. CASE Stays(p)
        <4>1. Tried(jobs)' = Tried(jobs) BY <3>4, TriedMoves
        <4>2. Trails(x, b)'
          BY <3>2, <3>4 DEF Trails, Stays, PainterMoves, Working, Place
        <4> QED BY <3>1, <3>2, <3>4, <4>1, <4>2 DEF Stays, Leads, Covered
      <3>5. ~Yields(p) BY <3>1, <3>3 DEF Yields
      <3>6. CASE Passes(p)
        <4>1. Tried(jobs)' = 1..k \cup x..b - 1 BY <3>1, <3>2, <3>6, TriedMoves
        <4>2. x < b => p # First
          BY <1>0, <3>1, <3>2 DEF Trails
        <4>3. x < b => Trails(x, b)' BY <3>2, <4>2 DEF Trails, PainterMoves, Working, Place
        <4>4. k < SCENES => Working(p)' /\ Place(p)' = k + 1 BY <3>1, <3>6 DEF Passes
        <4> QED BY <3>1, <3>2, <4>1, <4>3, <4>4, NewLeader
      <3> QED BY <3>4, <3>5, <3>6 DEF PainterMoves
    <2> QED BY <2>1, <2>2, <2>3 DEF Covered
  <1> QED BY <1>2, <1>3

\* The session is as it was: this step is one of its requests, of a painter, or does nothing here.
LEMMA SceneSteps ==
  ~MayCrash /\ ~MayDelete /\ RedrawInv /\ [Next]_vars =>
    \/ \E h \in Runs : Retry(h)
    \/ \E s \in Starts : LoadStart(s) \/ ConfirmStart(s)
    \/ \E p \in Painters : Paint(p)
    \/ UNCHANGED vars
PROOF BY DEF RedrawInv, Next, Crash, ListFiles, DeleteRow, UnlinkFiles

\* A painter changes jobs and painters only.
LEMMA PaintKeeps == \A p \in Painters : Paint(p) => UNCHANGED <<client, deletion>>
PROOF BY DEF Paint, BeginPainter, InsertJob, PaintScene, CommitScene, client, tables

\* A redraw that fails takes the portrait.
LEMMA NextRedrawInv ==
  ~MayCrash /\ ~MayDelete /\ TablesOK /\ HandlerOK /\ OneBusy /\ LoadedIsRow /\ RedrawInv
    /\ [Next]_vars => RedrawInv'
PROOF
  <1> SUFFICES ASSUME ~MayCrash, ~MayDelete, TablesOK, HandlerOK, OneBusy, LoadedIsRow, RedrawInv,
                      [Next]_vars
               PROVE  RedrawInv'
    OBVIOUS
  <1> USE DEF RedrawInv, InRedraw, At, TablesOK, HandlerOK, RunStates
  <1>1. ASSUME NEW h \in Runs, LoadRetry(h) PROVE RedrawInv'
    BY <1>1 DEF LoadRetry, tables
  <1>2. ASSUME NEW h \in Runs, DecideRetry(h) PROVE RedrawInv'
    BY <1>2 DEF DecideRetry, Goes, tables
  <1>3. ASSUME NEW h \in Runs, ListScenes(h) PROVE RedrawInv'
    BY <1>3 DEF ListScenes, tables
  <1>4. ASSUME NEW h \in Runs, ResetScenes(h) PROVE RedrawInv'
    BY <1>4 DEF ResetScenes
  <1>5. ASSUME NEW h \in Runs, BeginPortrait(h) PROVE RedrawInv'
    BY <1>5 DEF BeginPortrait, tables
  <1>6. ASSUME NEW h \in Runs, PaintPortrait(h) PROVE RedrawInv'
    BY <1>6 DEF PaintPortrait, Goes, tables
  <1>7. ASSUME NEW h \in Runs, CommitPortrait(h) PROVE RedrawInv'
    <2>1. handler[h].loaded = row /\ RunBusy(h)
      BY <1>7 DEF CommitPortrait, LoadedIsRow, RunBusy
    <2>2. \A g \in Runs \ {h} : handler'[g].pc # "undrawn"
      BY <1>7, <2>1 DEF CommitPortrait, Goes, OneBusy, RunBusy
    <2>3. handler'[h].pc = "undrawn" => row'.portrait = None
      BY <1>7, <2>1 DEF CommitPortrait, PortraitAfter, Goes, Rows
    <2> QED BY <1>7, <2>2, <2>3 DEF CommitPortrait, Goes, Rows
  <1>8. ASSUME NEW h \in Runs, StoreRetry(h) PROVE RedrawInv'
    BY <1>8 DEF StoreRetry, Goes
  <1>9. ASSUME NEW s \in Starts, LoadStart(s) PROVE RedrawInv'
    BY <1>9 DEF LoadStart, tables
  <1>10. ASSUME NEW s \in Starts, ConfirmStart(s) PROVE RedrawInv'
    BY <1>10 DEF ConfirmStart, Rows
  <1>11. ASSUME NEW p \in Painters, Paint(p) PROVE RedrawInv'
    BY <1>11, PaintKeeps DEF client
  <1>12. CASE UNCHANGED vars
    BY <1>12 DEF vars
  <1> QED BY <1>1, <1>2, <1>3, <1>4, <1>5, <1>6, <1>7, <1>8, <1>9, <1>10, <1>11, <1>12, SceneSteps
             DEF Retry

\* Where one painter works, the jobs it adds to a trail of its own are a trail.
LEMMA TrailKept ==
  ASSUME NEW p \in Painters, PainterMoves(p), FirstAlone, Trail(jobs),
         Working(First) => Place(First) \in Scenes
  PROVE  FirstAlone' /\ Trail(jobs)'
PROOF
  <1>1. p = First BY DEF PainterMoves, FirstAlone
  <1>2. FirstAlone' BY <1>1 DEF PainterMoves, FirstAlone, Working
  <1>3. CASE Stays(First)
    <2>1. Tried(jobs)' = Tried(jobs) BY <1>3, TriedMoves
    <2> QED BY <1>1, <1>2, <1>3, <2>1 DEF Trail, Trails, Stays, PainterMoves
  <1>4. ~Yields(First)
    BY <1>1, SCENESAssumption DEF Yields, Trail, Trails, PainterMoves
  <1>5. CASE Passes(First)
    <2>1. Tried(jobs)' = Tried(jobs) \cup {Place(First)} /\ Place(First) \notin Tried(jobs)
      BY <1>5, TriedMoves DEF Passes
    <2>2. Tried(jobs') = Tried(jobs)' BY DEF Tried
    <2>3. Working(First) BY <1>1 DEF PainterMoves
    <2> QED BY <1>2, <1>5, <2>1, <2>2, <2>3, TrailGrows DEF Trail
  <1> QED BY <1>1, <1>3, <1>4, <1>5 DEF PainterMoves

\* A session in a redraw is left with one painter's trail.
LEMMA NextBetweenInv ==
  ~MayCrash /\ ~MayDelete /\ TablesOK /\ HandlerOK /\ PainterOK /\ InOrder /\ HolderIsFirst
    /\ OneBusy /\ LoadedIsRow /\ Ruled /\ RedrawInv /\ BeforeInv /\ BetweenInv /\ [Next]_vars
    => BetweenInv'
PROOF
  <1> SUFFICES ASSUME ~MayCrash, ~MayDelete, TablesOK, HandlerOK, PainterOK, InOrder, HolderIsFirst,
                      OneBusy, LoadedIsRow, Ruled, RedrawInv, BeforeInv, BetweenInv, [Next]_vars
               PROVE  BetweenInv'
    OBVIOUS
  <1> DEFINE Same == UNCHANGED <<jobs, painter>>
  <1>0. began \in Nat /\ \A h \in Runs : handler[h] \in RunStates BY DEF TablesOK, HandlerOK
  <1>a. ASSUME Same, Between' => Between PROVE BetweenInv'
    BY <1>a DEF BetweenInv, FirstAlone, Working, Trail, Trails, Place
  <1>b. ASSUME NEW h \in Runs, UNCHANGED began, \A g \in Runs \ {h} : handler'[g] = handler[g],
               ~At(h, "reset")', InRedraw(h)' => InRedraw(h)
        PROVE  Between' => Between
    BY <1>b DEF Between, At, InRedraw
  <1>1. ASSUME NEW h \in Runs, LoadRetry(h) \/ DecideRetry(h) \/ ListScenes(h) \/ PaintPortrait(h)
        PROVE  BetweenInv'
    <2>1. /\ Same /\ UNCHANGED began
          /\ \A g \in Runs \ {h} : handler'[g] = handler[g]
          /\ ~At(h, "reset")' /\ (InRedraw(h)' => InRedraw(h))
      BY <1>1 DEF LoadRetry, DecideRetry, ListScenes, PaintPortrait, Goes, At, InRedraw, tables,
          HandlerOK, RunStates
    <2> QED BY <1>a, <1>b, <2>1
  <1>4. ASSUME NEW h \in Runs, ResetScenes(h), Between' PROVE FirstAlone' /\ Trail(jobs)'
    <2>1. RunBusy(h) /\ LetIn(h) /\ handler[h].loaded = row
      BY <1>4 DEF ResetScenes, At, RunBusy, LetIn, LoadedIsRow, RedrawInv
    <2>2. ~row.confirmed BY <2>1 DEF Ruled
    <2>3. \A g \in Runs : ~InRedraw(g)'
      BY <1>4, <2>1 DEF ResetScenes, InRedraw, OneBusy, RunBusy, HandlerOK, RunStates
    <2>4. began = 0 BY <1>4, <2>3 DEF Between, ResetScenes
    <2>5. FirstAlone /\ Trail(jobs \ handler[h].oldJobs)
      BY <1>4, <2>2, <2>4 DEF BeforeInv, ResetScenes
    <2>6. jobs' = jobs \ handler[h].oldJobs /\ UNCHANGED painter BY <1>4 DEF ResetScenes
    <2> QED BY <2>5, <2>6 DEF FirstAlone, Working, Trail, Trails, Place, Tried
  <1>5. ASSUME NEW h \in Runs, BeginPortrait(h) PROVE BetweenInv'
    <2>1. Same /\ began' = began + 1 /\ At(h, "reset") BY <1>5 DEF BeginPortrait, tables
    <2>2. began' # 0 /\ (began' = 1 => began = 0) BY <1>0, <2>1
    <2> QED BY <1>a, <2>1, <2>2 DEF Between
  <1>7. ASSUME NEW h \in Runs, CommitPortrait(h) \/ StoreRetry(h) PROVE BetweenInv'
    <2>1. /\ UNCHANGED <<jobs, began>>
          /\ \A g \in Runs \ {h} : handler'[g] = handler[g]
          /\ ~At(h, "reset")' /\ InRedraw(h) /\ (CommitPortrait(h) => UNCHANGED painter)
      BY <1>7 DEF CommitPortrait, StoreRetry, Goes, At, InRedraw, HandlerOK, RunStates
    <2>2. Between' => Between BY <1>b, <2>1
    <2>3. CASE StoreRetry(h)
      <3>1. \A g \in Runs : ~At(g, "reset")' /\ ~InRedraw(g)'
        BY <2>1, <2>3 DEF StoreRetry, Goes, At, InRedraw, OneBusy, RunBusy, HandlerOK, RunStates
      <3> QED BY <3>1 DEF BetweenInv, Between
    <2> QED BY <1>7, <1>a, <2>1, <2>2, <2>3
  <1>9. ASSUME NEW s \in Starts, LoadStart(s) PROVE BetweenInv'
    BY <1>9, <1>a DEF LoadStart, Between, At, InRedraw, tables
  <1>10. ASSUME NEW s \in Starts, ConfirmStart(s) PROVE BetweenInv'
    <2>1. \A h \in Runs : ~RunBusy(h) BY <1>10 DEF ConfirmStart, OneBusy, StartBusy
    <2>2. UNCHANGED handler BY <1>10 DEF ConfirmStart
    <2> QED BY <2>1, <2>2 DEF BetweenInv, Between, At, InRedraw, RunBusy
  <1>11. ASSUME NEW p \in Painters, Paint(p) PROVE BetweenInv'
    <2>1. PainterMoves(p) BY <1>11, PaintMoves DEF RedrawInv
    <2>2. UNCHANGED <<began, handler>> BY <1>11, PaintKeeps DEF client
    <2>3. Working(First) => Place(First) \in Scenes BY PlaceIsScene DEF Painters, Portraits
    <2> QED BY <2>1, <2>2, <2>3, TrailKept DEF BetweenInv, Between, At, InRedraw
  <1>12. CASE UNCHANGED vars
    BY <1>12, <1>a DEF vars, Between, At, InRedraw
  <1> QED BY <1>1, <1>4, <1>5, <1>7, <1>9, <1>10, <1>11, <1>12, SceneSteps DEF Retry, BetweenInv

\* Until the first reset there is one painter, and during it that adds to a trail.
LEMMA NextBeforeInv ==
  ~MayCrash /\ ~MayDelete /\ TablesOK /\ HandlerOK /\ PainterOK /\ InOrder /\ HolderIsFirst
    /\ OneBusy /\ RedrawInv /\ BeforeInv /\ [Next]_vars
    => BeforeInv'
PROOF
  <1> SUFFICES ASSUME ~MayCrash, ~MayDelete, TablesOK, HandlerOK, PainterOK, InOrder, HolderIsFirst,
                      OneBusy, RedrawInv, BeforeInv, [Next]_vars, (began = 0 /\ ~row.confirmed)'
               PROVE  BeforeInv'
    BY DEF BeforeInv
  <1> DEFINE Same == UNCHANGED <<jobs, painter>>
             Kept(h) == At(h, "resetting")' => handler'[h] = handler[h]
  <1>0. began \in Nat /\ \A h \in Runs : handler[h] \in RunStates BY DEF TablesOK, HandlerOK
  <1>a. ASSUME Same, \A h \in Runs : Kept(h), began = 0, ~row.confirmed PROVE BeforeInv'
    BY <1>a DEF BeforeInv, FirstAlone, Working, Trail, Trails, Place, At, Tried
  <1>1. ASSUME NEW h \in Runs, LoadRetry(h) \/ DecideRetry(h) \/ PaintPortrait(h) PROVE BeforeInv'
    <2>1. Same /\ UNCHANGED <<began, row>> /\ \A g \in Runs : Kept(g)
      BY <1>1 DEF LoadRetry, DecideRetry, PaintPortrait, Goes, At, tables, HandlerOK, RunStates
    <2> QED BY <1>a, <2>1
  <1>3. ASSUME NEW h \in Runs, ListScenes(h) PROVE BeforeInv'
    <2>1. Same /\ UNCHANGED <<began, row>> BY <1>3 DEF ListScenes, tables
    <2>2. handler'[h].oldJobs = jobs /\ \A g \in Runs \ {h} : handler'[g] = handler[g]
      BY <1>3 DEF ListScenes, HandlerOK, RunStates
    <2>3. FirstAlone' /\ (Working(First)' => \A j \in jobs' : j.scene < Place(First)')
      BY <2>1 DEF BeforeInv, FirstAlone, Working, Place
    <2>4. Trail(jobs \ jobs)'
      <3>1. PICK x \in 1..SCENES + 1 : x = 1 BY SCENESAssumption
      <3>2. Tried(jobs \ jobs)' = x..x - 1 BY <3>1 DEF Tried
      <3>3. Trails(x, x)' BY <3>1 DEF Trails
      <3> QED BY <3>2, <3>3 DEF Trail
    <2>5. ASSUME NEW g \in Runs, At(g, "resetting")'
          PROVE  handler'[g].oldJobs \subseteq jobs' /\ Trail(jobs \ handler[g].oldJobs)'
      <3>1. CASE g = h BY <2>1, <2>2, <2>4, <3>1 DEF Trail, Trails, Working, Place, Tried
      <3>2. CASE g # h
        BY <2>1, <2>2, <2>5, <3>2 DEF BeforeInv, At, Trail, Trails, Working, Place, Tried
      <3> QED BY <3>1, <3>2
    <2> QED BY <2>3, <2>5 DEF BeforeInv
  <1>4. ASSUME NEW h \in Runs, ResetScenes(h) PROVE BeforeInv'
    <2>1. \A g \in Runs : ~At(g, "resetting")'
      BY <1>4 DEF ResetScenes, OneBusy, RunBusy, At, HandlerOK, RunStates
    <2>2. jobs' \subseteq jobs /\ UNCHANGED <<painter, row, began>> BY <1>4 DEF ResetScenes
    <2> QED BY <2>1, <2>2 DEF BeforeInv, FirstAlone, Working, Place
  <1>5. ASSUME NEW h \in Runs, BeginPortrait(h) PROVE BeforeInv'
    BY <1>0, <1>5 DEF BeginPortrait
  <1>7. ASSUME NEW h \in Runs, CommitPortrait(h) \/ StoreRetry(h) PROVE BeforeInv'
    BY <1>7 DEF CommitPortrait, StoreRetry, RedrawInv, InRedraw, At
  <1>9. ASSUME NEW s \in Starts, LoadStart(s) PROVE BeforeInv'
    BY <1>9, <1>a DEF LoadStart, tables
  <1>10. ASSUME NEW s \in Starts, ConfirmStart(s) PROVE BeforeInv'
    BY <1>10, <1>a DEF ConfirmStart, TablesOK, Rows
  <1>11. ASSUME NEW p \in Painters, Paint(p) PROVE BeforeInv'
    <2>1. PainterMoves(p) BY <1>11, PaintMoves DEF RedrawInv
    <2>2. UNCHANGED <<began, handler, row>> BY <1>11, PaintKeeps DEF client
    <2>3. Working(First) => Place(First) \in Scenes BY PlaceIsScene DEF Painters, Portraits
    <2>4. FirstAlone /\ p = First /\ Working(First)
      BY <2>1, <2>2 DEF PainterMoves, BeforeInv, FirstAlone
    <2>5. FirstAlone' BY <2>1, <2>4 DEF PainterMoves, FirstAlone, Working
    <2>6. \A j \in jobs : j.scene < Place(First) BY <2>2, <2>4 DEF BeforeInv
    <2>7. ~Yields(First)
      BY <2>3, <2>4, <2>6 DEF Yields, Tried, Scenes
    <2>8. CASE Stays(First)
      BY <2>2, <2>4, <2>5, <2>8 DEF Stays, BeforeInv, Trail, Trails, At, Tried
    <2>9. CASE Passes(First)
      <3>1. PICK j : j.scene = Place(First) /\ j \notin jobs /\ jobs' = jobs \cup {j}
        BY <2>9 DEF Passes
      <3>2. Working(First)' => Place(First)' = Place(First) + 1 BY <2>9 DEF Passes
      <3>3. PICK k \in Scenes : k = Place(First) BY <2>3, <2>4
      <3>4. Working(First)' => \A i \in jobs' : i.scene < Place(First)'
        <4> SUFFICES ASSUME Working(First)', NEW i \in jobs' PROVE i.scene < k + 1
          BY <3>2, <3>3
        <4>1. CASE i = j BY <3>1, <3>3, <4>1 DEF Scenes
        <4>2. CASE i \in jobs
          <5>1. i.scene < k /\ i.scene \in Scenes BY <2>6, <3>3, <4>2 DEF TablesOK, SceneJobs
          <5> QED BY <5>1 DEF Scenes
        <4> QED BY <3>1, <4>1, <4>2
      <3>5. ASSUME NEW g \in Runs, At(g, "resetting")'
            PROVE  handler'[g].oldJobs \subseteq jobs' /\ Trail(jobs \ handler[g].oldJobs)'
        <4>1. handler[g].oldJobs \subseteq jobs /\ Trail(jobs \ handler[g].oldJobs)
          BY <2>2, <3>5 DEF BeforeInv, At
        <4> DEFINE J == jobs \ handler[g].oldJobs
                   K == jobs' \ handler'[g].oldJobs
        <4>2. K = J \cup {j} BY <2>2, <3>1, <4>1
        <4>3. Place(First) \notin Tried(J) BY <2>9 DEF Passes, Tried
        <4>4. Tried(K) = Tried(J) \cup {Place(First)} BY <3>1, <4>2 DEF Tried
        <4>5. \E x, b \in 1..SCENES + 1 : Tried(K) = x..b - 1 /\ Trails(x, b)'
          <5> HIDE DEF J, K
          <5>1. Trail(J) BY <4>1 DEF J
          <5> QED BY <2>3, <2>4, <2>9, <4>3, <4>4, <5>1, TrailGrows
        <4> QED BY <2>2, <3>1, <4>1, <4>5 DEF Trail, Tried
      <3> QED BY <2>5, <3>4, <3>5 DEF BeforeInv
    <2> QED BY <2>1, <2>4, <2>7, <2>8, <2>9 DEF PainterMoves
  <1>12. CASE UNCHANGED vars
    BY <1>12, <1>a DEF vars
  <1> QED BY <1>1, <1>3, <1>4, <1>5, <1>7, <1>9, <1>10, <1>11, <1>12, SceneSteps DEF Retry

\* No scene is left out: a painter is there for it, or it is tried.
LEMMA NextSettledInv ==
  ~MayCrash /\ ~MayDelete /\ TablesOK /\ HandlerOK /\ StarterOK /\ PainterOK /\ InOrder
    /\ Unpainted /\ HolderIsFirst /\ OneBusy /\ Ruled /\ RedrawInv /\ BetweenInv /\ SettledInv
    /\ [Next]_vars => SettledInv'
PROOF
  <1> SUFFICES ASSUME ~MayCrash, ~MayDelete, TablesOK, HandlerOK, StarterOK, PainterOK, InOrder,
                      Unpainted, HolderIsFirst, OneBusy, Ruled, RedrawInv, BetweenInv, SettledInv,
                      [Next]_vars, Settled', row'.portrait # None
               PROVE  Covered' /\ OthersFollow'
    BY DEF SettledInv
  <1> USE ConstantsFit DEF Scenes
  <1> DEFINE Same == UNCHANGED <<jobs, painter>>
  <1>0. began \in Nat /\ \A h \in Runs : handler[h] \in RunStates BY DEF TablesOK, HandlerOK
  <1>a. ASSUME Same, Settled, row.portrait # None PROVE Covered' /\ OthersFollow'
    BY <1>a DEF SettledInv, Covered, OthersFollow, Leads, Working, Trails, Place, Tried
  <1>1. ASSUME NEW h \in Runs, LoadRetry(h) \/ DecideRetry(h) \/ ListScenes(h)
        PROVE  Covered' /\ OthersFollow'
    <2>1. Same /\ UNCHANGED <<began, row>> /\ ~At(h, "reset") /\ ~InRedraw(h)
      BY <1>1 DEF LoadRetry, DecideRetry, ListScenes, Goes, At, InRedraw, tables
    <2>2. \A g \in Runs \ {h} : handler'[g] = handler[g]
      BY <1>1 DEF LoadRetry, DecideRetry, ListScenes, Goes, HandlerOK
    <2> QED BY <1>a, <2>1, <2>2 DEF Settled, At, InRedraw
  <1>4. ASSUME NEW h \in Runs, ResetScenes(h) \/ BeginPortrait(h) \/ PaintPortrait(h)
                 \/ CommitPortrait(h)
        PROVE  FALSE
    BY <1>4 DEF ResetScenes, BeginPortrait, PaintPortrait, CommitPortrait, Goes, Settled, At,
        InRedraw, HandlerOK, RunStates, RedrawInv
  <1>8. ASSUME NEW h \in Runs, StoreRetry(h) PROVE Covered' /\ OthersFollow'
    <2>1. InRedraw(h) /\ UNCHANGED <<row, began, jobs>> BY <1>8 DEF StoreRetry, InRedraw
    <2>2. began = 1 BY <1>0, <2>1 DEF Settled, RedrawInv
    <2>3. FirstAlone /\ Trail(jobs) BY <2>1, <2>2 DEF BetweenInv, Between
    <2>4. handler[h].pc = "drawn" BY <1>8, <2>1 DEF StoreRetry, RedrawInv, At
    <2>5. ~Answered(h) BY <2>4 DEF Ruled, RunBusy, At, RedrawInv
    <2>6. painter' = [painter EXCEPT ![h] = [pc |-> "queued", scene |-> 0, portrait |-> h]]
      BY <1>8, <2>4, <2>5 DEF StoreRetry, RedrawInv, At
    <2>7. Working(h)' /\ Place(h)' = 1 /\ h # First /\ h \in Painters
      BY <2>6 DEF Working, Place, PainterOK
    <2>8. \A p \in Painters \ {h} : painter'[p] = painter[p] BY <2>6 DEF PainterOK
    <2>9. OthersFollow' BY <2>3, <2>7, <2>8 DEF OthersFollow, FirstAlone, Working
    <2>10. PICK x, b \in 1..SCENES + 1 : Tried(jobs) = x..b - 1 /\ Trails(x, b)
      BY <2>3 DEF Trail
    <2>11. Tried(jobs)' = x..b - 1 BY <2>1, <2>10 DEF Tried
    <2>12. First \in Painters BY DEF Painters, Portraits
    <2>13. Trails(x, b)' BY <2>7, <2>8, <2>10, <2>12 DEF Trails, Working, Place
    <2>14. Trails(SCENES + 1, SCENES + 1)' BY DEF Trails
    <2>15. CASE x < b /\ x = 1 /\ b <= SCENES
      <3>1. Working(First)' /\ Place(First)' = b BY <2>13, <2>15 DEF Trails
      <3>2. Tried(jobs)' = 1..b - 1 \cup (SCENES + 1)..(SCENES + 1) - 1 BY <2>11, <2>15
      <3> QED BY <2>9, <2>12, <2>14, <2>15, <3>1, <3>2 DEF Covered, Leads
    <2>16. CASE x < b /\ x = 1 /\ b > SCENES
      <3>1. Scenes \subseteq Tried(jobs)' BY <2>11, <2>16
      <3> QED BY <2>9, <3>1 DEF Covered
    <2>17. CASE x < b /\ x # 1
      <3>1. Tried(jobs)' = 1..1 - 1 \cup x..b - 1 BY <2>11, <2>17
      <3>2. 1 < x BY <2>17
      <3> QED BY <2>7, <2>9, <2>13, <3>1, <3>2 DEF Covered, Leads
    <2>18. CASE ~(x < b)
      <3>1. Tried(jobs)' = 1..1 - 1 \cup (SCENES + 1)..(SCENES + 1) - 1 BY <2>11, <2>18
      <3>2. 1 < SCENES + 1 OBVIOUS
      <3> QED BY <2>7, <2>9, <2>14, <3>1, <3>2 DEF Covered, Leads
    <2> QED BY <2>15, <2>16, <2>17, <2>18
  <1>9. ASSUME NEW s \in Starts, LoadStart(s) PROVE Covered' /\ OthersFollow'
    BY <1>9, <1>a DEF LoadStart, Settled, At, InRedraw, tables
  <1>10. ASSUME NEW s \in Starts, ConfirmStart(s) PROVE Covered' /\ OthersFollow'
    <2>1. Settled /\ row.portrait # None /\ UNCHANGED jobs
      BY <1>10 DEF ConfirmStart, Settled, At, InRedraw, TablesOK, Rows
    <2>2. CASE UNCHANGED painter BY <1>a, <2>1, <2>2
    <2>3. CASE ~UNCHANGED painter
      <3>1. /\ jobs = {}
            /\ painter' = [painter EXCEPT ![s] = [ pc |-> "queued", scene |-> 0,
                                                   portrait |-> starter[s].loaded.portrait ]]
        BY <1>10, <2>3 DEF ConfirmStart
      <3>2. Working(s)' /\ Place(s)' = 1 /\ s # First /\ s \in Painters
        BY <3>1 DEF Working, Place, PainterOK, Portraits
      <3>3. \A p \in Painters \ {s} : painter'[p] = painter[p] BY <3>1 DEF PainterOK
      <3>4. OthersFollow'
        BY <2>1, <3>2, <3>3 DEF SettledInv, OthersFollow, Working, Place, Tried
      <3>5. Tried(jobs)' = 1..1 - 1 \cup (SCENES + 1)..(SCENES + 1) - 1
        BY <2>1, <3>1 DEF Tried
      <3>6. Trails(SCENES + 1, SCENES + 1)' /\ 1 < SCENES + 1 BY DEF Trails
      <3> QED BY <3>2, <3>4, <3>5, <3>6 DEF Covered, Leads
    <2> QED BY <2>2, <2>3
  <1>11. ASSUME NEW p \in Painters, Paint(p) PROVE Covered' /\ OthersFollow'
    <2>1. PainterMoves(p) BY <1>11, PaintMoves DEF RedrawInv
    <2>2. Settled /\ row.portrait # None
      BY <1>11, PaintKeeps DEF client, Settled, At, InRedraw
    <2>3. \A q \in Painters : Working(q) => Place(q) \in Scenes BY PlaceIsScene
    <2> QED BY <2>1, <2>2, <2>3, CoveredKept DEF SettledInv, Painters, Portraits
  <1>12. CASE UNCHANGED vars
    BY <1>12, <1>a DEF vars, Settled, At, InRedraw
  <1> QED BY <1>1, <1>4, <1>8, <1>9, <1>10, <1>11, <1>12, SceneSteps DEF Retry

\* A new session has its painter, or waits for a portrait.
LEMMA InitSceneInv == Init => SceneInv
PROOF
  <1> SUFFICES ASSUME Init PROVE SceneInv OBVIOUS
  <1> USE ConstantsFit DEF Scenes
  <1>1. /\ row.exists /\ jobs = {} /\ began = 0 /\ deletion.pc = "none"
        /\ row.portrait # None => painter[First].pc = "queued"
        /\ \A p \in Painters \ {First} : painter[p].pc = "none"
        /\ \A h \in Runs : handler[h].pc = "none"
    BY DEF Init, Portraits, Painters
  <1>2. RedrawInv BY <1>1 DEF RedrawInv, InRedraw, At
  <1>3. BeforeInv /\ BetweenInv
    BY <1>1 DEF BeforeInv, BetweenInv, Between, InRedraw, At, FirstAlone, Working
  <1>4. Tried(jobs) = 1..1 - 1 \cup (SCENES + 1)..(SCENES + 1) - 1 BY <1>1 DEF Tried
  <1>5. Trails(SCENES + 1, SCENES + 1) /\ 1 < SCENES + 1 BY DEF Trails
  <1>6. First \in Painters BY DEF Painters, Portraits
  <1>7. row.portrait # None => Leads(First) BY <1>1, <1>4, <1>5 DEF Leads, Working, Place
  <1>8. SettledInv BY <1>1, <1>6, <1>7 DEF SettledInv, Covered, OthersFollow, Working
  <1> QED BY <1>2, <1>3, <1>8 DEF SceneInv

-----------------------------------------------------------------------------
(* The page *)

\* Whoever answered has ended, and whatever is on its way has not arrived.
Heard ==
  /\ \A a \in answers : a.run \in Runs /\ At(a.run, "over")
  /\ \A h \in Runs : h \in sent => At(h, "none")
  /\ \A s \in Starts : s \in sent => starter[s].pc = "none"

\* The page waits for one request at a time.
Waits ==
  /\ page.busy \in {None, page.gate} \cup page.starting
  /\ page.gate \in {None, page.busy}
  /\ page.starting \subseteq {page.busy}

\* A page that gives no request up: what it waits for is all there is.
Patient ==
  page.patient =>
    /\ met = {}
    /\ Waits
    /\ sent \cup AtWork \subseteq {page.busy}

PageInv == PageOK /\ Heard /\ Patient

\* The server does nothing but what Portrait does, and the page does not touch it.
LEMMA PageSteps ==
  ASSUME [AppNext]_appVars
  PROVE  [Next]_vars
PROOF
  <1> USE DEF vars, tables
  <1>1. CASE AskRedraw \/ AskStart \/ HearRedraw \/ HearStart \/ LoseRedraw \/ LoseStart \/ Reopen
    BY <1>1 DEF AskRedraw, AskStart, HearRedraw, HearStart, LoseRedraw, LoseStart, Reopen
  <1>2. CASE Arrive BY <1>2 DEF Arrive, Next, Retry
  <1>3. ASSUME NEW h \in Runs, Serve(h) PROVE Next BY <1>3 DEF Serve, Next
  <1>4. CASE Work BY <1>4 DEF Work, Next
  <1>5. CASE UNCHANGED appVars BY <1>5 DEF appVars
  <1> QED BY <1>1, <1>2, <1>3, <1>4, <1>5 DEF AppNext

\* The page shows a status and a count.
LEMMA RowIsView ==
  ASSUME TablesOK, Hidden, DeletedStaysDeleted
  PROVE  View(row) \in Views
PROOF
  <1>1. row \in Rows /\ attempts \subseteq [at : Nat, status : {"done", "failed"}]
    BY DEF TablesOK
  <1>2. Status(row) \in {"done", "failed", "pending"}
    <2>1. CASE row.portrait # None BY <2>1 DEF Status
    <2>2. CASE row.portrait = None /\ attempts = {} BY <2>2 DEF Status
    <2>3. CASE row.portrait = None /\ attempts # {}
      <3>1. PICK a \in attempts : IsNewest(a) BY <2>3 DEF Hidden, DeletedStaysDeleted
      <3>2. \A b \in attempts : b.at <= a.at BY <1>1, <3>1 DEF IsNewest
      <3>3. Newest \in attempts BY <3>2 DEF Newest
      <3> QED BY <1>1, <2>3, <3>3 DEF Status
    <2> QED BY <2>1, <2>2, <2>3
  <1> QED BY <1>1, <1>2 DEF View, Views, Rows

LEMMA OpenedIsPage ==
  ASSUME View(row) \in Views, row.confirmed \in BOOLEAN,
         NEW r \in {Request[h] : h \in Runs} \cup {None}, NEW g \in Runs \cup {None},
         NEW S \in SUBSET Starts, NEW p \in BOOLEAN
  PROVE  Opened(r, g, S, p) \in Pages
PROOF
  <1> DEFINE v == View(row)
             again == r # None \/ v.status = "failed"
             opened == ~row.confirmed /\ (again \/ v.portrait # None)
  <1>1. opened \in BOOLEAN OBVIOUS
  <1>2. (IF again THEN "redraw" ELSE "none") \in {"none", "redraw", "start"} OBVIOUS
  <1> HIDE DEF opened, again
  <1>3. v \in Views OBVIOUS
  <1>4. Opened(r, g, S, p) =
          [ open |-> opened, shown |-> v, request |-> r,
            error |-> IF again THEN "redraw" ELSE "none",
            gate |-> g, starting |-> S, busy |-> None, patient |-> p ]
    BY DEF Opened, opened, again
  <1> HIDE DEF v
  <1> QED BY <1>1, <1>2, <1>3, <1>4 DEF Pages

\* What a request that has been served answers, and that it is over then.
LEMMA AnswersAreViews ==
  ASSUME NEW h \in Runs, View(row) \in Views, answers \subseteq [run : Runs, shows : Views],
         HandlerOK, Retry(h)
  PROVE  /\ AnswerOf(h) \subseteq [run : Runs, shows : Views]
         /\ \A a \in AnswerOf(h) : a.run = h /\ At(h, "over")'
PROOF
  <1>1. ASSUME NEW a \in AnswerOf(h)
        PROVE  a \in [run : Runs, shows : Views] /\ a.run = h
    BY <1>1 DEF AnswerOf
  <1>2. ASSUME NEW a \in AnswerOf(h) PROVE At(h, "over")'
    <2>1. \/ At(h, "loaded") /\ Answered(h)
          \/ handler[h].pc \in {"drawn", "undrawn"}
      BY <1>2 DEF AnswerOf
    <2>2. CASE At(h, "loaded") /\ Answered(h)
      <3>1. DecideRetry(h)
        BY <2>2 DEF Retry, At, LoadRetry, ListScenes, ResetScenes, BeginPortrait, PaintPortrait,
           CommitPortrait, StoreRetry
      <3>2. Goes(h, "over") BY <2>2, <3>1 DEF DecideRetry
      <3> QED BY <3>2 DEF Goes, At, HandlerOK, RunStates
    <2>3. CASE handler[h].pc \in {"drawn", "undrawn"}
      <3>1. StoreRetry(h)
        BY <2>3 DEF Retry, At, LoadRetry, DecideRetry, ListScenes, ResetScenes, BeginPortrait,
           PaintPortrait, CommitPortrait
      <3>2. Goes(h, "over") BY <3>1 DEF StoreRetry
      <3> QED BY <3>2 DEF Goes, At, HandlerOK, RunStates
    <2> QED BY <2>1, <2>2, <2>3
  <1> QED BY <1>1, <1>2

\* A step of the server.
LEMMA ServerKeepsPage ==
  ASSUME PageInv, HandlerOK, StarterOK, View(row) \in Views,
         (\E h \in Runs : Serve(h)) \/ Work \/ Arrive
  PROVE  PageInv'
PROOF
  <1>a. PageOK /\ Heard /\ Patient BY DEF PageInv
  <1>1. ASSUME NEW h \in Runs, Serve(h) PROVE PageInv'
    <2>1. Retry(h) /\ ~At(h, "none") /\ UNCHANGED <<page, sent, starter, met>>
          /\ answers' = answers \cup AnswerOf(h)
      BY <1>1 DEF Serve, Retry, LoadRetry, DecideRetry, ListScenes, ResetScenes, BeginPortrait,
         PaintPortrait, CommitPortrait, StoreRetry
    <2>2. \A g \in Runs \ {h} : handler'[g] = handler[g]
      BY <2>1 DEF Retry, LoadRetry, DecideRetry, ListScenes, ResetScenes, BeginPortrait,
         PaintPortrait, CommitPortrait, StoreRetry, Goes, HandlerOK
    <2>3. handler[h].pc # "over"
      BY <2>1 DEF Retry, LoadRetry, DecideRetry, ListScenes, ResetScenes, BeginPortrait,
         PaintPortrait, CommitPortrait, StoreRetry, At
    <2>4. AtWork' \subseteq AtWork
      <3>1. handler[h].pc # "none" BY <2>1 DEF At
      <3>2. h \in AtWork BY <2>3, <3>1 DEF AtWork
      <3> QED BY <2>1, <2>2, <3>2 DEF AtWork
    <2>5. PageOK' BY <1>a, <2>1, AnswersAreViews DEF PageOK
    <2>6. Heard'
      <3>1. \A a \in answers : a.run \in Runs /\ At(a.run, "over")' BY <1>a, <2>2, <2>3 DEF Heard, At
      <3>2. \A a \in AnswerOf(h) : a.run \in Runs /\ At(a.run, "over")'
        BY <1>a, <2>1, AnswersAreViews DEF PageOK
      <3>3. h \notin sent BY <1>a, <2>1 DEF Heard
      <3> QED BY <1>a, <2>1, <2>2, <3>1, <3>2, <3>3 DEF Heard, At
    <2>7. Patient' BY <1>a, <2>1, <2>4 DEF Patient, Waits
    <2> QED BY <2>5, <2>6, <2>7 DEF PageInv
  <1>2. CASE Work
    <2>1. UNCHANGED <<page, sent, answers, met>>
      BY <1>2 DEF Work, ConfirmStart, Paint, BeginPainter, InsertJob, PaintScene, CommitScene,
         ListFiles, DeleteRow, UnlinkFiles, Crash, tables
    <2>2. /\ \A h \in Runs : handler'[h].pc \in {handler[h].pc, "over"}
          /\ \A h \in Runs : At(h, "none") => At(h, "none")'
          /\ \A s \in Starts : starter'[s].pc \in {starter[s].pc, "over"}
          /\ \A s \in Starts : starter[s].pc = "none" => starter'[s].pc = "none"
      <3>1. CASE \E s \in Starts : ConfirmStart(s)
        BY <3>1 DEF ConfirmStart, At, StarterOK
      <3>2. CASE Crash BY <3>2 DEF Crash, At, HandlerOK, StarterOK, RunStates
      <3>3. CASE UNCHANGED <<handler, starter>> BY <3>3 DEF At
      <3> QED
        BY <1>2, <3>1, <3>2, <3>3 DEF Work, Paint, BeginPainter, InsertJob, PaintScene,
           CommitScene, ListFiles, DeleteRow, UnlinkFiles
    <2>3. AtWork' \subseteq AtWork BY <2>2 DEF AtWork, At
    <2>4. PageOK' /\ Patient' BY <1>a, <2>1, <2>3 DEF PageOK, Patient, Waits
    <2>5. Heard' BY <1>a, <2>1, <2>2 DEF Heard, At
    <2> QED BY <2>4, <2>5 DEF PageInv
  <1>3. CASE Arrive
    <2>1. PICK x \in sent :
            /\ (x \in Runs /\ LoadRetry(x)) \/ (x \in Starts /\ LoadStart(x))
            /\ sent' = sent \ {x}
      BY <1>3 DEF Arrive
    <2>2. UNCHANGED <<page, answers>> BY <1>3 DEF Arrive
    <2>3. PageOK' BY <1>a, <2>1, <2>2 DEF PageOK
    <2>4. /\ \A h \in Runs \ {x} : handler'[h] = handler[h]
          /\ \A s \in Starts \ {x} : starter'[s] = starter[s]
          /\ \A h \in Runs : At(h, "over") => At(h, "over")'
          /\ Joins(x)
      BY <2>1, RunsAssumption DEF LoadRetry, LoadStart, At, HandlerOK, StarterOK, Portraits
    <2>5. Heard' BY <1>a, <2>1, <2>2, <2>4 DEF Heard, At
    <2>6. ASSUME page.patient PROVE met' = {} /\ sent' \cup AtWork' \subseteq {page.busy}
      <3>1. met = {} /\ sent \cup AtWork \subseteq {page.busy} BY <1>a, <2>6 DEF Patient
      <3>2. x = page.busy /\ sent' = {} BY <2>1, <3>1
      <3>3. x \notin AtWork
        BY <2>1, RunsAssumption DEF AtWork, LoadRetry, LoadStart, At, Portraits
      <3>4. AtWork = {} BY <3>1, <3>2, <3>3
      <3>5. AtWork' \subseteq AtWork \cup {x} BY <2>4 DEF AtWork
      <3> QED BY <2>4, <3>1, <3>2, <3>4, <3>5 DEF Joins
    <2>7. Patient' BY <1>a, <2>2, <2>6 DEF Patient, Waits
    <2> QED BY <2>3, <2>5, <2>7 DEF PageInv
  <1> QED BY <1>1, <1>2, <1>3

\* A step of the page.
LEMMA PageKeepsPage ==
  ASSUME PageInv, HandlerOK, StarterOK, View(row) \in Views, row.confirmed \in BOOLEAN,
         AskRedraw \/ AskStart \/ HearRedraw \/ HearStart \/ LoseRedraw \/ LoseStart \/ Reopen
  PROVE  PageInv'
PROOF
  <1>a. PageOK /\ Heard /\ Patient /\ page \in Pages BY DEF PageInv, PageOK
  <1>b. UNCHANGED <<row, handler, starter, met, answers>>
    BY DEF AskRedraw, AskStart, HearRedraw, HearStart, LoseRedraw, LoseStart, Reopen, vars
  <1>c. AtWork' = AtWork BY <1>b DEF AtWork
  <1>d. None \notin Runs \cup Starts BY NoneAssumption
  <1>e. Runs \cap Starts = {} BY RunsAssumption DEF Portraits
  <1>f. ASSUME NEW x, Ended(x), x \in Runs \/ x \in Starts, page.busy = x, page.patient
        PROVE  sent = {} /\ AtWork = {}
    BY <1>a, <1>e, <1>f DEF Patient, Ended, AtWork, At
  <1>1. CASE AskRedraw
    <2>1. page.busy = None BY <1>1 DEF AskRedraw, Ready
    <2>2. CASE page.gate # None
      <3>1. page' = [page EXCEPT !.error = "none"] /\ UNCHANGED sent BY <1>1, <2>2 DEF AskRedraw
      <3>2. PageOK' BY <1>a, <1>b, <3>1 DEF PageOK, Pages
      <3>3. ~page.patient BY <1>a, <2>1, <2>2 DEF Patient, Waits
      <3> QED BY <1>a, <1>b, <3>1, <3>2, <3>3 DEF PageInv, Heard, Patient, Pages, At
    <2>3. CASE page.gate = None
      <3>1. PICK h \in Runs :
              /\ Unsent(h)
              /\ page' = [page EXCEPT !.request = Request[h], !.error = "none",
                                      !.gate = h, !.busy = h]
              /\ sent' = sent \cup {h}
        BY <1>1, <2>3 DEF AskRedraw
      <3>2. PageOK' BY <1>a, <1>b, <3>1 DEF PageOK, Pages
      <3>3. Heard' BY <1>a, <1>b, <1>e, <3>1 DEF Heard, Unsent, At
      <3>4. Patient'
        <4> SUFFICES ASSUME page'.patient
                     PROVE  met' = {} /\ Waits' /\ sent' \cup AtWork' \subseteq {page'.busy}
          BY DEF Patient
        <4>1. page'.busy = h /\ page'.gate = h /\ page'.starting = page.starting /\ page.patient
          BY <1>a, <3>1 DEF Pages
        <4>2. met = {} /\ page.starting \subseteq {None} /\ sent \cup AtWork \subseteq {None}
          BY <1>a, <2>1, <4>1 DEF Patient, Waits
        <4>3. page.starting = {} /\ sent = {} /\ AtWork = {}
          BY <1>a, <1>d, <4>2 DEF AtWork, PageOK, Pages
        <4> QED BY <1>b, <1>c, <3>1, <4>1, <4>2, <4>3 DEF Waits
      <3> QED BY <3>2, <3>3, <3>4 DEF PageInv
    <2> QED BY <2>2, <2>3
  <1>2. CASE AskStart
    <2>1. PICK s \in Starts :
            /\ s \notin sent /\ starter[s].pc = "none"
            /\ page' = [page EXCEPT !.error = "none", !.starting = @ \cup {s}, !.busy = s]
            /\ sent' = sent \cup {s}
      BY <1>2 DEF AskStart
    <2>2. PageOK' BY <1>a, <1>b, <2>1 DEF PageOK, Pages
    <2>3. Heard' BY <1>a, <1>b, <1>e, <2>1 DEF Heard, At
    <2>4. Patient'
      <3> SUFFICES ASSUME page'.patient
                   PROVE  met' = {} /\ Waits' /\ sent' \cup AtWork' \subseteq {page'.busy}
        BY DEF Patient
      <3>1. /\ page'.busy = s /\ page'.gate = page.gate
            /\ page'.starting = page.starting \cup {s} /\ page.patient
        BY <1>a, <2>1 DEF Pages
      <3>2. page.busy = None BY <1>2 DEF AskStart, Ready
      <3>3. /\ met = {} /\ page.gate = None
            /\ page.starting \subseteq {None} /\ sent \cup AtWork \subseteq {None}
        BY <1>a, <3>1, <3>2 DEF Patient, Waits
      <3>4. page.starting = {} /\ sent = {} /\ AtWork = {}
        BY <1>a, <1>d, <3>3 DEF AtWork, PageOK, Pages
      <3> QED BY <1>b, <1>c, <2>1, <3>1, <3>3, <3>4 DEF Waits
    <2> QED BY <2>2, <2>3, <2>4 DEF PageInv
  <1>3. CASE HearRedraw
    <2>1. PICK a \in answers :
            LET done == Done(a.run, a.shows.status = "done", "redraw")
            IN  /\ a.run = page.gate
                /\ page' = [page EXCEPT !.shown = Shown(a), !.request = None, !.gate = None,
                                        !.busy = done.busy, !.error = done.error]
      BY <1>3 DEF HearRedraw
    <2>2. sent' = sent BY <1>3 DEF HearRedraw
    <2>3. Shown(a) \in Views /\ a.run \in Runs BY <1>a DEF PageOK, Shown
    <2>4. page' \in Pages BY <1>a, <2>1, <2>3 DEF Pages, Done
    <2>5. PageOK' BY <1>a, <1>b, <2>2, <2>4 DEF PageOK
    <2>6. Heard' BY <1>a, <1>b, <2>2 DEF Heard, At
    <2>7. Ended(a.run) BY <1>a, <2>3 DEF Ended, Heard, At
    <2>8. Patient'
      <3> SUFFICES ASSUME page'.patient
                   PROVE  met' = {} /\ Waits' /\ sent' \cup AtWork' \subseteq {page'.busy}
        BY DEF Patient
      <3>1. /\ page'.gate = None /\ page'.starting = page.starting /\ page.patient
            /\ page'.busy = IF page.busy = a.run THEN None ELSE page.busy
        BY <1>a, <2>1 DEF Pages, Done
      <3>2. page.busy = a.run BY <1>a, <1>d, <2>1, <2>3, <3>1 DEF Patient, Waits
      <3>3. sent = {} /\ AtWork = {} BY <1>f, <2>3, <2>7, <3>1, <3>2
      <3>4. page.starting = {} BY <1>a, <1>e, <2>3, <3>1, <3>2 DEF Patient, Waits, Pages
      <3> QED BY <1>a, <1>b, <1>c, <2>2, <3>1, <3>2, <3>3, <3>4 DEF Patient, Waits
    <2> QED BY <2>5, <2>6, <2>8 DEF PageInv
  <1>4. CASE HearStart
    <2>1. PICK s \in page.starting :
            /\ s \notin sent /\ starter[s].pc = "over"
            /\ page' = [page EXCEPT !.open = FALSE, !.request = None, !.starting = @ \ {s},
                                    !.busy = Done(s, TRUE, "start").busy]
      BY <1>4 DEF HearStart
    <2>2. sent' = sent BY <1>4 DEF HearStart
    <2>3. s \in Starts BY <1>a DEF Pages
    <2>4. page' \in Pages BY <1>a, <2>1 DEF Pages, Done
    <2>5. PageOK' BY <1>a, <1>b, <2>2, <2>4 DEF PageOK
    <2>6. Heard' BY <1>a, <1>b, <2>2 DEF Heard, At
    <2>7. Ended(s) BY <1>e, <2>1, <2>3 DEF Ended
    <2>8. Patient'
      <3> SUFFICES ASSUME page'.patient
                   PROVE  met' = {} /\ Waits' /\ sent' \cup AtWork' \subseteq {page'.busy}
        BY DEF Patient
      <3>1. /\ page'.gate = page.gate /\ page'.starting = page.starting \ {s} /\ page.patient
            /\ page'.busy = IF page.busy = s THEN None ELSE page.busy
        BY <1>a, <2>1 DEF Pages, Done
      <3>2. page.busy = s BY <1>a, <2>1, <3>1 DEF Patient, Waits
      <3>3. sent = {} /\ AtWork = {} BY <1>f, <2>3, <2>7, <3>1, <3>2
      <3>4. page.gate = None BY <1>a, <1>e, <2>3, <3>1, <3>2 DEF Patient, Waits, Pages
      <3>5. page'.starting = {} BY <1>a, <3>1, <3>2 DEF Patient, Waits
      <3> QED BY <1>a, <1>b, <1>c, <2>2, <3>1, <3>2, <3>3, <3>4, <3>5 DEF Patient, Waits
    <2> QED BY <2>5, <2>6, <2>8 DEF PageInv
  <1>5. CASE LoseRedraw
    <2>1. LET done == Done(page.gate, FALSE, "redraw")
          IN  /\ page.gate # None
              /\ page' = [page EXCEPT !.gate = None, !.busy = done.busy, !.error = done.error,
                                      !.patient = @ /\ Ended(page.gate)]
              /\ UNCHANGED sent
      BY <1>5 DEF LoseRedraw
    <2>2. page.gate \in Runs BY <1>a, <2>1 DEF Pages
    <2>3. (page.patient /\ Ended(page.gate)) \in BOOLEAN OBVIOUS
    <2>4. page' \in Pages BY <1>a, <2>1, <2>3 DEF Pages, Done
    <2>5. PageOK' BY <1>a, <1>b, <2>1, <2>4 DEF PageOK
    <2>6. Heard' BY <1>a, <1>b, <2>1 DEF Heard, At
    <2>7. Patient'
      <3> SUFFICES ASSUME page'.patient
                   PROVE  met' = {} /\ Waits' /\ sent' \cup AtWork' \subseteq {page'.busy}
        BY DEF Patient
      <3>1. /\ page'.gate = None /\ page'.starting = page.starting
            /\ page.patient /\ Ended(page.gate)
            /\ page'.busy = IF page.busy = page.gate THEN None ELSE page.busy
        BY <1>a, <2>1 DEF Pages, Done
      <3>2. page.busy = page.gate BY <1>a, <2>1, <3>1 DEF Patient, Waits
      <3>3. sent = {} /\ AtWork = {} BY <1>f, <2>2, <3>1, <3>2
      <3>4. page.starting = {} BY <1>a, <1>e, <2>2, <3>1, <3>2 DEF Patient, Waits, Pages
      <3> QED BY <1>a, <1>b, <1>c, <2>1, <3>1, <3>2, <3>3, <3>4 DEF Patient, Waits
    <2> QED BY <2>5, <2>6, <2>7 DEF PageInv
  <1>6. CASE LoseStart
    <2>1. PICK s \in page.starting :
            LET done == Done(s, FALSE, "start")
            IN  page' = [page EXCEPT !.starting = @ \ {s}, !.busy = done.busy,
                                     !.error = done.error, !.patient = @ /\ Ended(s)]
      BY <1>6 DEF LoseStart
    <2>2. sent' = sent BY <1>6 DEF LoseStart
    <2>3. s \in Starts BY <1>a DEF Pages
    <2>4. (page.patient /\ Ended(s)) \in BOOLEAN OBVIOUS
    <2>5. page' \in Pages BY <1>a, <2>1, <2>4 DEF Pages, Done
    <2>6. PageOK' BY <1>a, <1>b, <2>2, <2>5 DEF PageOK
    <2>7. Heard' BY <1>a, <1>b, <2>2 DEF Heard, At
    <2>8. Patient'
      <3> SUFFICES ASSUME page'.patient
                   PROVE  met' = {} /\ Waits' /\ sent' \cup AtWork' \subseteq {page'.busy}
        BY DEF Patient
      <3>1. /\ page'.gate = page.gate /\ page'.starting = page.starting \ {s}
            /\ page.patient /\ Ended(s)
            /\ page'.busy = IF page.busy = s THEN None ELSE page.busy
        BY <1>a, <2>1 DEF Pages, Done
      <3>2. page.busy = s BY <1>a, <2>1, <3>1 DEF Patient, Waits
      <3>3. sent = {} /\ AtWork = {} BY <1>f, <2>3, <3>1, <3>2
      <3>4. page.gate = None BY <1>a, <1>e, <2>3, <3>1, <3>2 DEF Patient, Waits, Pages
      <3>5. page'.starting = {} BY <1>a, <3>1, <3>2 DEF Patient, Waits
      <3> QED BY <1>a, <1>b, <1>c, <2>2, <3>1, <3>2, <3>3, <3>4, <3>5 DEF Patient, Waits
    <2> QED BY <2>6, <2>7, <2>8 DEF PageInv
  <1>7. CASE Reopen
    <2>1. PICK same \in BOOLEAN, draft \in BOOLEAN :
            page' = Opened(IF draft THEN page.request ELSE None,
                           IF same THEN page.gate ELSE None,
                           IF same THEN page.starting ELSE {},
                           page.patient /\ page.gate = None /\ page.starting = {})
      BY <1>7 DEF Reopen
    <2>2. sent' = sent BY <1>7 DEF Reopen
    <2> DEFINE r == IF draft THEN page.request ELSE None
               g == IF same THEN page.gate ELSE None
               S == IF same THEN page.starting ELSE {}
               p == page.patient /\ page.gate = None /\ page.starting = {}
    <2>3. /\ r \in {Request[h] : h \in Runs} \cup {None} /\ g \in Runs \cup {None}
          /\ S \in SUBSET Starts /\ p \in BOOLEAN
      BY <1>a DEF Pages
    <2>4. page' = Opened(r, g, S, p) BY <2>1
    <2>5. page'.patient = p /\ page'.gate = g /\ page'.starting = S /\ page'.busy = None
      BY <2>4 DEF Opened
    <2>6. PageOK'
      <3> HIDE DEF r, g, S, p
      <3>1. page' \in Pages BY <2>3, <2>4, OpenedIsPage
      <3> QED BY <1>a, <1>b, <2>2, <3>1 DEF PageOK
    <2>7. Heard' BY <1>a, <1>b, <2>2 DEF Heard, At
    <2>8. Patient'
      <3> SUFFICES ASSUME page'.patient
                   PROVE  met' = {} /\ Waits' /\ sent' \cup AtWork' \subseteq {page'.busy}
        BY DEF Patient
      <3>1. page.patient /\ page.gate = None /\ page.starting = {} BY <2>5
      <3>2. page.busy = None /\ met = {} /\ sent \cup AtWork \subseteq {page.busy}
        BY <1>a, <3>1 DEF Patient, Waits
      <3> QED BY <1>b, <1>c, <2>2, <2>5, <3>1, <3>2 DEF Waits
    <2> QED BY <2>6, <2>7, <2>8 DEF PageInv
  <1> QED BY <1>1, <1>2, <1>3, <1>4, <1>5, <1>6, <1>7

-----------------------------------------------------------------------------
(* Theorems *)

\* They hold of a new session.
LEMMA InitInv == Init => LockInv /\ ScenesPassed /\ FileInv /\ SlotInv
PROOF
  <1> SUFFICES ASSUME Init PROVE LockInv /\ ScenesPassed /\ FileInv /\ SlotInv OBVIOUS
  <1>1. /\ row.exists /\ jobs = {} /\ files = images
        /\ \A i \in images : i.scene = 0
        /\ row.portrait # None => [by |-> row.portrait, scene |-> 0] \in images
        /\ \A p \in Painters : painter[p].pc \in {"none", "queued"}
    BY DEF Init
  <1>2. \A h \in Runs : handler[h].pc = "none" /\ handler[h].oldFiles = {} BY DEF Init
  <1>3. deletion.pc = "none" BY DEF Init
  <1>4. LockInv BY <1>1, <1>2, <1>3 DEF LockInv, Locked, RowsFirst, DeletedStaysDeleted, Holds
  <1>5. ScenesPassed BY <1>1, <1>2 DEF ScenesPassed
  <1>6. FileInv BY <1>1, <1>2 DEF FileInv, Saved, OldFilesGone, ImagesHaveFiles, At
  <1>7. SlotInv
    BY <1>1 DEF SlotInv, OneHolder, HolderIsFirst, ImageHasJob, OneImagePerScene, Holds
  <1> QED BY <1>4, <1>5, <1>6, <1>7

\* No request has arrived at a new session.
LEMMA InitOpen == Init => OpenInv /\ DateInv /\ Counted /\ Twice
PROOF
  <1> SUFFICES ASSUME Init PROVE OpenInv /\ DateInv /\ Counted /\ Twice OBVIOUS
  <1>1. /\ ~row.confirmed /\ began = 0 /\ row.count \in Nat
        /\ \E a \in attempts : attempts = {a} /\ a.at = 0
             /\ (row.portrait # None \/ a.status = "failed")
    <2>1. PICK drawn \in BOOLEAN, count \in Painted :
            /\ row = [ exists |-> TRUE, portrait |-> IF drawn THEN First ELSE None,
                       confirmed |-> FALSE, count |-> count ]
            /\ attempts = {[at |-> 0, status |-> IF drawn THEN "done" ELSE "failed"]}
      BY DEF Init
    <2>2. began = 0 BY DEF Init
    <2>3. ~drawn => [at |-> 0, status |-> IF drawn THEN "done" ELSE "failed"].status = "failed"
      OBVIOUS
    <2>4. drawn => row.portrait # None BY <2>1, RunsAssumption DEF Portraits
    <2> QED BY <2>1, <2>2, <2>3, <2>4, PaintedAssumption
  <1>2. \A h \in Runs : handler[h].pc = "none" /\ handler[h].at = 0 /\ ~handler[h].counts
    BY DEF Init
  <1>3. \A s \in Starts : starter[s].pc = "none" BY DEF Init
  <1>4. OpenInv
    BY <1>1, <1>2, <1>3 DEF OpenInv, Together, Loaded, Ruling, LetIn, OnlyOverlapTakesPortrait,
       RunBusy, StartBusy
  <1>5. Dated /\ Begun /\ Named BY <1>1, <1>2 DEF Dated, Begun, Named
  <1>6. Hidden BY <1>1 DEF Hidden, IsNewest
  <1>7. \A h \in Runs : ~Committed(h) BY <1>2 DEF Committed
  <1>8. Counted
    <2>1. Lone = {} BY <1>7 DEF Lone, Redraws
    <2>2. \A h \in Runs : ~LetIn(h) /\ ~At(h, "loaded") BY <1>2 DEF LetIn, At
    <2> QED BY <1>1, <2>1, <2>2, FS_EmptySet DEF Counted
  <1>9. Twice BY <1>2, <1>7 DEF Twice, LetIn
  <1> QED BY <1>4, <1>5, <1>6, <1>8, <1>9 DEF DateInv

AllInv == IInv /\ OpenInv /\ DateInv /\ Counted /\ Twice

\* The invariant is inductive.
THEOREM Inductive == Spec => []AllInv
PROOF
  <1>1. ASSUME AllInv, [Next]_vars PROVE AllInv'
    <2>1. TablesOK /\ HandlerOK /\ StarterOK /\ PainterOK /\ Admitted /\ LockInv
      BY <1>1, TypeParts DEF AllInv, IInv, TypeInv
    <2>2. IInv'
      BY <1>1, NextTypeInv, NextLockInv, NextScenesPassed, NextFiles, NextSlotInv, TypeParts
         DEF AllInv, IInv, TypeInv
    <2>3. OpenInv'
      BY <1>1, <2>1, NextTogether, NextLoaded, NextRuling, NextTakes DEF AllInv, OpenInv
    <2>4. DateInv'
      BY <1>1, <2>1, NextDated, NextBegun, NextNamed, NextHidden DEF AllInv, OpenInv, DateInv
    <2>5. Counted' /\ Twice'
      BY <1>1, <2>1, NextCounted, NextTwice DEF AllInv, OpenInv, DateInv
    <2> QED BY <2>2, <2>3, <2>4, <2>5 DEF AllInv
  <1>2. Init => AllInv BY InitTypeInv, InitInv, InitOpen DEF AllInv, IInv
  <1>3. AllInv /\ [Next]_vars => AllInv' BY <1>1
  <1> QED BY <1>2, <1>3, PTL DEF Spec

\* The state of every row, handler and painter is of its kind, for any number of them.
THEOREM TypeCorrect == Spec => []TypeOK
PROOF
  <1>1. AllInv => TypeOK BY DEF AllInv, IInv, TypeInv
  <1> QED BY <1>1, Inductive, PTL

\* sessions.py:211, session_admin.py:34: resets, redraws and a deletion remove no file of an
\* image that a row names, however they overlap the painters.
THEOREM ImagesKeepFiles == Spec => []ImagesHaveFiles
PROOF
  <1>1. AllInv => ImagesHaveFiles BY DEF AllInv, IInv, FileInv
  <1> QED BY <1>1, Inductive, PTL

\* session_admin.py: no redraw, start or painter brings a row of a deleted session back.
THEOREM DeletionIsFinal == Spec => []DeletedStaysDeleted
PROOF
  <1>1. AllInv => DeletedStaysDeleted BY DEF AllInv, IInv, LockInv
  <1> QED BY <1>1, Inductive, PTL

\* sessions.py:284, models.py:180: however many painters work, a scene has one image.
THEOREM ScenesHaveOneImage == Spec => []OneImagePerScene
PROOF
  <1>1. AllInv => OneImagePerScene BY DEF AllInv, IInv, SlotInv
  <1> QED BY <1>1, Inductive, PTL

\* sessions.py:327: the portrait of a started story is missing only if a start was at work
\* together with a redraw, whatever else arrives, dies or is deleted.
THEOREM StartsAloneKeepPortrait == Spec => []OnlyOverlapTakesPortrait
PROOF
  <1>1. AllInv => OnlyOverlapTakesPortrait BY DEF AllInv, OpenInv
  <1> QED BY <1>1, Inductive, PTL

\* sessions.py:56: where the newest portrait job of a session without a portrait did not fail,
\* so that the next redraw is not free, that job is of a run that was at work together with
\* another.
THEOREM RedrawsAloneShowFailure == Spec => []OnlyOverlapHidesFailure
PROOF
  <1>1. AllInv => OnlyOverlapHidesFailure
    <2> SUFFICES ASSUME AllInv, row.exists, row.portrait = None, Status(row) # "failed"
                 PROVE  \E h \in Runs :
                          handler[h].at > 0 /\ handler[h].at = Newest.at /\ Met(h, Runs)
      BY DEF OnlyOverlapHidesFailure
    <2>1. PICK a \in attempts :
            /\ IsNewest(a)
            /\ \/ a.status = "failed"
               \/ \E h \in Runs : handler[h].at > 0 /\ handler[h].at = a.at /\ Met(h, Runs)
      BY DEF AllInv, DateInv, Hidden
    <2>2. attempts \subseteq [at : Nat, status : {"done", "failed"}]
      BY TypeParts DEF AllInv, IInv, TypeInv, TablesOK
    <2>3. \A b \in attempts : b.at <= a.at BY <2>1, <2>2 DEF IsNewest
    <2>4. Newest \in attempts /\ \A b \in attempts : b.at <= Newest.at BY <2>3 DEF Newest
    <2>5. Newest = a BY <2>1, <2>2, <2>4 DEF IsNewest
    <2> QED BY <2>1, <2>5 DEF Status
  <1> QED BY <1>1, Inductive, PTL

\* sessions.py:258: every redraw that was at work alone is in the count, whatever those that
\* overlap write over each other, and two are counted at most.
THEOREM RedrawsAloneAreCounted == Spec => []LoneRedrawsCounted
PROOF
  <1>1. AllInv => LoneRedrawsCounted
    BY TypeParts DEF AllInv, IInv, TypeInv, TablesOK, Rows, Counted, Lone, LoneRedrawsCounted,
       PORTRAIT_RETRY_LIMIT
  <1> QED BY <1>1, Inductive, PTL

\* sessions.py:227: while the process lives, two portraits are painted for one request only by
\* two runs of it that were at work together.
THEOREM RepeatsAlonePaintOnce == Spec => []OnlyOverlapPaintsTwice
PROOF
  <1>1. AllInv => OnlyOverlapPaintsTwice BY DEF AllInv, Twice, OnlyOverlapPaintsTwice
  <1> QED BY <1>1, Inductive, PTL

\* api-contract.md, sessions.py:284: where no two requests were at work together, nothing dies
\* and nothing is deleted, every scene of the portrait is tried when the painters have ended,
\* although two painters stop each other where they meet - one redraw long.
THEOREM EverySceneTried ==
  ~MayCrash /\ ~MayDelete => (Spec => [](met = {} => ScenesTried))
PROOF
  <1> SUFFICES ASSUME ~MayCrash, ~MayDelete PROVE Spec => [](met = {} => ScenesTried) OBVIOUS
  <1> DEFINE Inv == met = {} => SceneInv
  <1>1. Init => Inv BY InitSceneInv
  <1>2. AllInv /\ Inv /\ [Next]_vars => Inv'
    <2> SUFFICES ASSUME AllInv, Inv, [Next]_vars, met' = {} PROVE SceneInv' OBVIOUS
    <2>1. TablesOK /\ HandlerOK /\ StarterOK /\ PainterOK /\ InOrder /\ Unpainted /\ HolderIsFirst
      BY TypeParts DEF AllInv, IInv, TypeInv, SlotInv
    <2>2. met = {} BY MetStays
    <2>3. OneBusy /\ LoadedIsRow /\ Ruled BY <2>1, <2>2, Unmet DEF AllInv
    <2> QED BY <2>1, <2>2, <2>3, NextRedrawInv, NextBetweenInv, NextBeforeInv, NextSettledInv
            DEF SceneInv
  <1>3. Inv => (met = {} => ScenesTried)
    <2> SUFFICES ASSUME SceneInv, ~Busy, PaintersStill, row.portrait # None, began <= 1,
                        NEW k \in Scenes
                 PROVE  \E j \in jobs : j.scene = k
      BY DEF ScenesTried
    <2>1. Settled BY DEF Settled, Busy, AtWork, At, InRedraw
    <2>2. Covered BY <2>1 DEF SceneInv, SettledInv
    <2>3. \A p \in Painters : ~Leads(p) BY DEF PaintersStill, Leads, Working
    <2> QED BY <2>2, <2>3 DEF Covered, Tried
  <1> QED BY <1>1, <1>2, <1>3, Inductive, PTL DEF Spec

\* The server behaves as Portrait says, whatever the page sends it and when.
LEMMA AppRefines == AppSpec => Spec
PROOF
  <1>1. AppInit => Init BY DEF AppInit
  <1>2. [AppNext]_appVars => [Next]_vars BY PageSteps
  <1> QED BY <1>1, <1>2, PTL DEF AppSpec, Spec

\* The page's state is of its kind, and one that gives nothing up waits for all there is.
LEMMA AppInductive == AppSpec => []PageInv
PROOF
  <1>a. AllInv => /\ HandlerOK /\ StarterOK /\ View(row) \in Views /\ row.confirmed \in BOOLEAN
    BY TypeParts, RowIsView DEF AllInv, IInv, TypeInv, TablesOK, Rows, DateInv, LockInv
  <1>1. AppInit /\ AllInv => PageInv
    <2> SUFFICES ASSUME AppInit, AllInv PROVE PageInv OBVIOUS
    <2>1. /\ page = Opened(None, None, {}, TRUE) /\ sent = {} /\ answers = {} /\ met = {}
          /\ \A h \in Runs : handler[h].pc = "none"
          /\ \A s \in Starts : starter[s].pc = "none"
      BY DEF AppInit, Init
    <2>2. page \in Pages BY <1>a, <2>1, OpenedIsPage
    <2>3. page.busy = None /\ page.gate = None /\ page.starting = {} BY <2>1 DEF Opened
    <2>4. AtWork = {} BY <2>1 DEF AtWork
    <2> QED BY <2>1, <2>2, <2>3, <2>4 DEF PageInv, PageOK, Heard, Patient, Waits
  <1>2. AllInv /\ PageInv /\ [AppNext]_appVars => PageInv'
    <2> SUFFICES ASSUME AllInv, PageInv, [AppNext]_appVars PROVE PageInv' OBVIOUS
    <2>1. CASE AppNext BY <1>a, <2>1, ServerKeepsPage, PageKeepsPage DEF AppNext
    <2>2. CASE UNCHANGED appVars
      BY <2>2 DEF appVars, vars, PageInv, PageOK, Heard, Patient, Waits, AtWork, At
    <2> QED BY <2>1, <2>2
  <1> QED BY <1>1, <1>2, AppRefines, Inductive, PTL DEF AppSpec

\* The page, its requests and their answers are of their kind, for any number of requests.
THEOREM PageTypeCorrect == AppSpec => []PageOK
PROOF
  <1>1. PageInv => PageOK BY DEF PageInv
  <1> QED BY <1>1, AppInductive, PTL

\* ui-spec.md 4.5, App.tsx:423: a page that gives no request up before it has ended has no two
\* at work together, and so every redraw is counted, none is painted twice for one request, a
\* missing portrait is a failed one and a started story has its portrait.
THEOREM PatienceIsSafe == AppSpec => []PatientPageIsSafe
PROOF
  <1>1. OnlyOverlapTakesPortrait /\ OnlyOverlapHidesFailure /\ LoneRedrawsCounted
          /\ OnlyOverlapPaintsTwice /\ PageInv => PatientPageIsSafe
    <2> SUFFICES ASSUME OnlyOverlapTakesPortrait, OnlyOverlapHidesFailure, LoneRedrawsCounted,
                        OnlyOverlapPaintsTwice, PageInv, page.patient
                 PROVE  /\ met = {}
                        /\ Cardinality(Redraws) <= row.count
                        /\ ~crashed => RequestPaintsOnce
                        /\ NoPortraitMeansFailed
                        /\ StartedHasPortrait
      BY DEF PatientPageIsSafe
    <2>1. met = {} BY DEF PageInv, Patient
    <2>2. \A x, others : ~Met(x, others) BY <2>1 DEF Met
    <2>3. Redraws = {h \in Redraws : ~Met(h, Runs)} BY <2>2
    <2>4. Cardinality(Redraws) <= row.count BY <2>3 DEF LoneRedrawsCounted
    <2>5. ~crashed => RequestPaintsOnce BY <2>1 DEF RequestPaintsOnce, OnlyOverlapPaintsTwice
    <2>6. NoPortraitMeansFailed BY <2>2 DEF NoPortraitMeansFailed, OnlyOverlapHidesFailure
    <2>7. StartedHasPortrait BY <2>2 DEF StartedHasPortrait, OnlyOverlapTakesPortrait
    <2> QED BY <2>1, <2>4, <2>5, <2>6, <2>7
  <1> QED
    BY <1>1, AppRefines, AppInductive, StartsAloneKeepPortrait, RedrawsAloneShowFailure,
       RedrawsAloneAreCounted, RepeatsAlonePaintOnce, PTL
=============================================================================
