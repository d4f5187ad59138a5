-------------------------- MODULE EndingText_proofs --------------------------
(***************************************************************************)
(* What holds of the end of a story from its text to its picture, for any  *)
(* directions the model may propose, any retries and any number of them.   *)
(*                                                                         *)
(* A step of the composition is a step of EndingImage or leaves it alone,  *)
(* so that what was proved there holds here.  The argument for the facts:  *)
(* whatever is proposed, validate_image_scene_spec makes a direction that  *)
(* fits the facts and that prompts.py has the phrases of (DirectionFits);  *)
(* no job but the first has begun before the ending is stored, and every   *)
(* job that has begun after that has slots made from it (SlotsMade).       *)
(***************************************************************************)
EXTENDS EndingText, EndingImage_proofs

\* The slots of a job agree with what was confirmed, the door aside, in phrases there are.
SlotsFit(j) == Fits(slots[j], story) /\ Worded(slots[j].direction)

\* Until the ending is stored the picture waits; from then on a job has its slots.
SlotsMade ==
  /\ telling.at # "stored" =>
       images = {} /\ \A j \in Jobs : worker[j].pc \in {"none", "queued"}
  /\ telling.at # "stored" => \A j \in Retries : worker[j].pc = "none"
  /\ telling.at = "stored" => \A j \in Jobs : worker[j].pc # "none" => SlotsFit(j)
  /\ \A j \in images : worker[j].pc # "none"

TInv == TextTypeOK /\ SlotsMade
-----------------------------------------------------------------------------
\* What validate_image_scene_spec leaves of a proposal fits those facts and is worded.
LEMMA DirectionFits ==
  ASSUME NEW s \in Stories, NEW spec \in Specs
  PROVE  /\ Fits(Slots(s, Direction(s, spec)), s)
         /\ Worded(Direction(s, spec))
PROOF
  <1> DEFINE d == Direction(s, spec)
  <1>1. Axes = {"location", "camera_shot", "camera_angle", "character_action", "gaze",
                "composition", "mood", "lighting"}
    BY DEF Axes, DEFAULT_DIRECTION
  <1>2. \/ LocationFits(d.location, s.session)
        \/ d.location = "still_at_the_door"
    BY <1>1 DEF Direction, Allowed, DEFAULT_DIRECTION
  <1>3. \/ ActionFits(d.character_action, s)
        \/ d.character_action = "turning_back_for_last_look"
    BY <1>1 DEF Direction, Allowed, DEFAULT_DIRECTION
  <1>4. \A axis \in Axes \ {"location", "character_action"} :
          d[axis] \in CHOICES[axis] \/ d[axis] = DEFAULT_DIRECTION[axis]
    BY <1>1 DEF Direction, Allowed
  <1> HIDE DEF d
  <1>5. Fits(Slots(s, d), s)
    BY <1>2, <1>3 DEF Fits, Slots, SaysPresent, SaysGone, SaysCard, SaysBook, SaysTogether,
                      SaysEmptyHands, LocationFits, ActionFits, PropsOf
  <1>6. Worded(d)
    <2>1. d["location"] \in PHRASES["location"] BY <1>2 DEF LocationFits, PHRASES
    <2>2. d["character_action"] \in PHRASES["character_action"] BY <1>3 DEF ActionFits, PHRASES
    <2>3. \A axis \in Axes \ {"location", "character_action"} : d[axis] \in PHRASES[axis]
      BY <1>1, <1>4 DEF CHOICES, DEFAULT_DIRECTION, PHRASES
    <2> QED BY <2>1, <2>2, <2>3 DEF Worded
  <1> QED BY <1>5, <1>6 DEF d

\* The default direction is what is left of a proposal that says nothing.
LEMMA DefaultFits ==
  ASSUME NEW s \in Stories
  PROVE  Direction(s, NoSpec) = DEFAULT_DIRECTION
PROOF
  <1>1. Axes = {"location", "camera_shot", "camera_angle", "character_action", "gaze",
                "composition", "mood", "lighting"}
    BY DEF Axes, DEFAULT_DIRECTION
  <1>2. \A axis \in Axes : ~Allowed(axis, NoSpec[axis], s)
    <2>1. \A axis \in Axes : NoSpec[axis] = "" BY DEF NoSpec
    <2>2. ~LocationFits("", s.session) /\ ~ActionFits("", s) BY DEF LocationFits, ActionFits
    <2>3. \A axis \in Axes \ {"location", "character_action"} : "" \notin CHOICES[axis]
      <3>1. /\ "" \notin CHOICES["camera_shot"] /\ "" \notin CHOICES["camera_angle"]
            /\ "" \notin CHOICES["gaze"] /\ "" \notin CHOICES["composition"]
            /\ "" \notin CHOICES["mood"] /\ "" \notin CHOICES["lighting"]
        BY DEF CHOICES
      <3> QED BY <1>1, <3>1
    <2> QED BY <2>1, <2>2, <2>3 DEF Allowed
  <1>3. Direction(s, NoSpec) = [axis \in Axes |-> DEFAULT_DIRECTION[axis]]
    BY <1>2 DEF Direction
  <1>4. DEFAULT_DIRECTION = [axis \in Axes |-> DEFAULT_DIRECTION[axis]]
    BY DEF Axes, DEFAULT_DIRECTION
  <1> QED BY <1>3, <1>4

\* Whatever a job is given is made from a proposal or from the default, and fits.
LEMMA MadeFits ==
  ASSUME TextTypeOK, NEW spec \in Proposals, NEW j, slots[j] = Slots(story, Direction(story, spec))
  PROVE  SlotsFit(j)
PROOF
  <1>1. story \in Stories /\ spec \in Specs
    BY StoriesAssumption, ProposalsAssumption DEF TextTypeOK
  <1>2. Slots(story, Direction(story, spec)).direction = Direction(story, spec) BY DEF Slots
  <1> QED BY <1>1, <1>2, DirectionFits DEF SlotsFit

\* Before anything is asked the picture waits.
LEMMA InitTInv == TextInit => TInv
PROOF
  <1> SUFFICES ASSUME TextInit PROVE TInv OBVIOUS
  <1>1. TextTypeOK BY ProposalsAssumption, RetriesAssumption DEF TextInit, TextTypeOK
  <1>2. SlotsMade BY JobsAssumption DEF TextInit, SlotsMade, Init, Jobs
  <1> QED BY <1>1, <1>2 DEF TInv

\* A step of the composition is a step of the picture, or leaves it alone.
LEMMA StepOfPicture == [TextNext]_allVars => [Next]_vars
PROOF BY DEF TextNext, Tell, CallOnce, Reject, StoreEnding, LoseText, AskAgain, Picture, allVars

\* A step of the picture begins a job by queuing it, and leaves a painted picture to a
\* job that has begun.
LEMMA BeginsQueued ==
  ASSUME IInv, SlotsMade, [Next]_vars
  PROVE  /\ \A j \in Jobs : worker[j].pc = "none" => worker'[j].pc \in {"none", "queued"}
         /\ \A j \in images' : worker'[j].pc # "none"
PROOF
  <1>1. /\ images \subseteq Jobs
        /\ \A j \in images : worker[j].pc # "none"
        /\ worker \in [Jobs -> [ pc : {"none", "queued", "loaded", "painting", "painted", "failed",
                                       "over"}, at : Nat ]]
    BY DEF IInv, Shape, SlotsMade
  <1>2. ASSUME NEW j \in Jobs, Work(j)
        PROVE  /\ \A k \in Jobs \ {j} : worker'[k] = worker[k]
               /\ worker[j].pc # "none" /\ worker'[j].pc # "none"
               /\ images' \subseteq images \cup {j}
    BY <1>1, <1>2 DEF Work, LoadJob, InsertJob, Paint, CommitJob, JobAt, Goes, tables, SessionKnown
  <1>3. ASSUME NEW q \in Retries, Retry(q)
        PROVE  /\ \A k \in Jobs \ {q} : worker'[k] = worker[k]
               /\ worker'[q].pc = "queued" \/ worker'[q] = worker[q]
               /\ images' = images
    BY <1>1, <1>3 DEF Retry, LoadRetry, DecideRetry, CommitRetry, Goes, tables, Jobs, Replies
  <1>4. ASSUME ListFiles \/ UnlinkFiles \/ PageStep PROVE UNCHANGED << worker, images >>
    BY <1>4 DEF ListFiles, UnlinkFiles, PageStep, Poll, PollStops, PollAgain, GiveUp, Reopen,
                AskRetry, HearRetry, tables
  <1>5. CASE DeleteRow
    BY <1>1, <1>5 DEF DeleteRow
  <1>6. CASE Crash
    BY <1>1, <1>6 DEF Crash, tables
  <1>7. CASE UNCHANGED vars
    BY <1>1, <1>7 DEF vars, tables
  <1> QED BY <1>1, <1>2, <1>3, <1>4, <1>5, <1>6, <1>7 DEF Next, Jobs, PageStep

\* What the story is told with, step by step.
LEMMA NextTextTypeOK == TextTypeOK /\ [TextNext]_allVars => TextTypeOK'
PROOF
  <1> SUFFICES ASSUME TextTypeOK, [TextNext]_allVars PROVE TextTypeOK' OBVIOUS
  <1> USE ProposalsAssumption, RetriesAssumption DEF TextTypeOK, Told
  <1> DEFINE Tellings == [at : {"asking", "rejected", "failed", "told", "stored"},
                          attempt : 0 .. MAX_RETRIES, spec : Proposals]
  <1>1. CASE CallOnce
    <2>1. ASSUME NEW spec \in Proposals, Told(spec) PROVE telling' \in Tellings BY <2>1
    <2>2. ASSUME NEW at \in {"rejected", "failed"}, telling' = [telling EXCEPT !.at = at]
          PROVE  telling' \in Tellings
      BY <2>2
    <2>3. telling' \in Tellings BY <1>1, <2>1, <2>2 DEF CallOnce
    <2>4. UNCHANGED << story, slots >> BY <1>1 DEF CallOnce
    <2> QED BY <2>3, <2>4
  <1>2. CASE Reject
    <2>1. CASE telling.attempt < MAX_RETRIES
      <3>1. telling.attempt + 1 \in 0 .. MAX_RETRIES BY <2>1
      <3>2. telling' = [telling EXCEPT !.at = "asking", !.attempt = telling.attempt + 1]
        BY <1>2, <2>1 DEF Reject, Rejections
      <3>3. telling' \in Tellings BY <3>1, <3>2
      <3>4. UNCHANGED << story, slots >> BY <1>2 DEF Reject
      <3> QED BY <3>3, <3>4
    <2>2. CASE ~(telling.attempt < MAX_RETRIES)
      <3>1. Told(NoSpec) BY <1>2, <2>2 DEF Reject, Fallback
      <3>2. telling' \in Tellings BY <3>1
      <3> QED BY <1>2, <3>2 DEF Reject
    <2> QED BY <2>1, <2>2
  <1>3. CASE LoseText BY <1>3 DEF LoseText
  <1>4. CASE AskAgain BY <1>4 DEF AskAgain
  <1>5. CASE StoreEnding
    <2>1. telling' \in [at : {"stored"}, attempt : 0 .. MAX_RETRIES, spec : Proposals]
      BY <1>5 DEF StoreEnding
    <2>2. slots' \in [Jobs -> {Slots(story, Direction(story, spec)) : spec \in Proposals} \cup {NoSlots}]
      BY <1>5 DEF StoreEnding
    <2> QED BY <1>5, <2>1, <2>2 DEF StoreEnding
  <1>6. CASE Picture(Next)
    <2>1. SlotsOfRetry \in {Slots(story, Direction(story, spec)) : spec \in Proposals}
      BY DefaultFits, StoriesAssumption DEF SlotsOfRetry
    <2> HIDE DEF SlotsOfRetry
    <2>2. slots' \in [Jobs -> {Slots(story, Direction(story, spec)) : spec \in Proposals} \cup {NoSlots}]
      BY <1>6, <2>1 DEF Picture
    <2> QED BY <1>6, <2>2 DEF Picture
  <1>7. CASE UNCHANGED allVars BY <1>7 DEF allVars, textVars
  <1> QED BY <1>1, <1>2, <1>3, <1>4, <1>5, <1>6, <1>7 DEF TextNext, Tell

\* The slots of the jobs, step by step.
LEMMA NextSlotsMade == IInv /\ TInv /\ [TextNext]_allVars => SlotsMade'
PROOF
  <1> SUFFICES ASSUME IInv, TInv, [TextNext]_allVars PROVE SlotsMade' OBVIOUS
  <1> USE DEF TInv
  <1>1. CASE CallOnce \/ Reject \/ LoseText \/ AskAgain
    <2>1. UNCHANGED << worker, images >> /\ telling.at # "stored"
      BY <1>1 DEF CallOnce, Reject, LoseText, AskAgain, vars, tables
    <2>2. telling'.at # "stored"
      <3>1. CASE CallOnce BY <2>1, <3>1 DEF CallOnce, Told, TextTypeOK
      <3>2. CASE Reject BY <2>1, <3>2 DEF Reject, Told, TextTypeOK
      <3>3. CASE LoseText \/ AskAgain BY <3>3 DEF LoseText, AskAgain, TextTypeOK
      <3> QED BY <1>1, <3>1, <3>2, <3>3
    <2> QED BY <2>1, <2>2 DEF SlotsMade
  <1>2. CASE StoreEnding
    <2>1. /\ UNCHANGED << worker, images, story >> /\ telling.at = "told" /\ telling'.at = "stored"
          /\ slots'[FirstJob] = Slots(story, Direction(story, telling.spec))
      BY <1>2 DEF StoreEnding, vars, tables, TextTypeOK, Jobs
    <2>2. story \in Stories /\ telling.spec \in Specs
      BY StoriesAssumption, ProposalsAssumption DEF TextTypeOK
    <2>3. SlotsFit(FirstJob)'
      <3>1. slots'[FirstJob].direction = Direction(story, telling.spec) BY <2>1 DEF Slots
      <3> QED BY <2>1, <2>2, <3>1, DirectionFits DEF SlotsFit
    <2>4. \A j \in Jobs : worker'[j].pc # "none" => j = FirstJob
      BY <2>1 DEF SlotsMade, Jobs
    <2> QED BY <2>1, <2>3, <2>4 DEF SlotsMade
  <1>3. CASE Picture(Next)
    <2>1. /\ Next /\ telling.at = "stored" /\ UNCHANGED << story, telling >>
          /\ slots' = [j \in Jobs |->
               IF JobAt(j, "none") /\ worker'[j].pc = "queued" THEN SlotsOfRetry ELSE slots[j]]
      BY <1>3 DEF Picture
    <2>2. /\ \A j \in Jobs : worker[j].pc = "none" => worker'[j].pc \in {"none", "queued"}
          /\ \A j \in images' : worker'[j].pc # "none"
      BY <2>1, BeginsQueued
    <2>3. ASSUME NEW j \in Jobs, worker'[j].pc # "none" PROVE SlotsFit(j)'
      <3>1. CASE worker[j].pc = "none"
        <4>1. slots'[j] = Slots(story, DEFAULT_DIRECTION)
          BY <2>1, <2>2, <2>3, <3>1 DEF JobAt, SlotsOfRetry
        <4>2. story \in Stories /\ NoSpec \in Specs
          BY StoriesAssumption, ProposalsAssumption DEF TextTypeOK
        <4>3. /\ Fits(Slots(story, DEFAULT_DIRECTION), story) /\ Worded(DEFAULT_DIRECTION)
          BY <4>2, DirectionFits, DefaultFits
        <4>4. Slots(story, DEFAULT_DIRECTION).direction = DEFAULT_DIRECTION BY DEF Slots
        <4> QED BY <2>1, <4>1, <4>3, <4>4 DEF SlotsFit
      <3>2. CASE worker[j].pc # "none"
        <4>1. slots'[j] = slots[j] BY <2>1, <3>2 DEF JobAt
        <4>2. SlotsFit(j) BY <2>1, <3>2 DEF SlotsMade
        <4> QED BY <2>1, <4>1, <4>2 DEF SlotsFit
      <3> QED BY <3>1, <3>2
    <2> QED BY <2>1, <2>2, <2>3 DEF SlotsMade
  <1>4. CASE UNCHANGED allVars
    <2>1. UNCHANGED << worker, images, story, telling, slots >>
      BY <1>4 DEF allVars, textVars, vars, tables
    <2> QED BY <2>1 DEF SlotsMade, SlotsFit
  <1> QED BY <1>1, <1>2, <1>3, <1>4 DEF TextNext, Tell

\* The composition implements EndingImage: the text comes before its picture's steps.
THEOREM ImplementsPicture == TextSpec => Spec
PROOF
  <1>1. TextInit => Init BY DEF TextInit
  <1> QED BY <1>1, StepOfPicture, PTL DEF TextSpec, Spec

\* The invariant holds of the composition.
THEOREM TextInductive == TextSpec => [](IInv /\ TInv)
PROOF
  <1>1. IInv /\ TInv /\ [TextNext]_allVars => TInv'
    BY NextTextTypeOK, NextSlotsMade DEF TInv
  <1> QED BY <1>1, InitTInv, ImplementsPicture, Inductive, PTL DEF TextSpec

\* client.py: the model is asked MAX_RETRIES + 1 times at most, and what is told is a
\* proposal or the fallback.
THEOREM TextTypeCorrect == TextSpec => []TextTypeOK
PROOF
  <1>1. TInv => TextTypeOK BY DEF TInv
  <1> QED BY <1>1, TextInductive, PTL

\* ending.py: no picture says of a presence, a possession or an agreement what was not
\* confirmed, for every story, whatever the model proposed.  Of the door it may: the default
\* place shows it just locked.
THEOREM PicturesFitEvents == TextSpec => []PictureFitsEvents
PROOF
  <1>1. IInv /\ TInv => PictureFitsEvents
    <2> SUFFICES ASSUME IInv, TInv, NEW j \in images PROVE Fits(slots[j], story)
      BY DEF PictureFitsEvents
    <2>1. j \in Jobs /\ worker[j].pc # "none" /\ telling.at = "stored"
      BY DEF IInv, Shape, TInv, SlotsMade
    <2> QED BY <2>1 DEF TInv, SlotsMade, SlotsFit
  <1> QED BY <1>1, TextInductive, PTL

\* prompts.py: no job is left without a phrase, whatever the model proposed.
THEOREM JobsStayWorded == TextSpec => []JobsAreWorded
PROOF
  <1>1. TInv => JobsAreWorded
    <2> SUFFICES ASSUME TInv, NEW j \in Jobs, worker[j].pc = "painting"
                 PROVE  Worded(slots[j].direction)
      BY DEF JobsAreWorded
    <2>1. telling.at = "stored" BY DEF TInv, SlotsMade
    <2> QED BY <2>1 DEF TInv, SlotsMade, SlotsFit
  <1> QED BY <1>1, TextInductive, PTL

\* images.py: what was proved of the picture alone holds of the whole end of a story.
THEOREM PictureCarriesOver ==
  TextSpec => []PictureHasFile /\ []DeletedStaysDeleted /\ []StillMeansSettled
PROOF BY ImplementsPicture, PicturesKeepFiles, DeletionIsFinal, PicturesAreSettled, PTL
=============================================================================
