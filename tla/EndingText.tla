----------------------------- MODULE EndingText -----------------------------
(***************************************************************************)
(* The end of a story from its text to its picture: the request that ends  *)
(* it asks the language model for a title, a body and a camera direction,  *)
(* at most MAX_RETRIES + 1 times, falls back on fixed texts, and commits   *)
(* the ending together with the job of its picture; from then on the       *)
(* steps are those of EndingImage, whose jobs are given slots here.        *)
(*                                                                         *)
(* The facts do not change once the story has ended (Play!EndedIsFrozen),  *)
(* and those of a turn are confirmed before its ending is asked for.       *)
(***************************************************************************)
EXTENDS EndingImage, EndingDirection

CONSTANTS EndedStories,  \* the stories to end
          Proposals,     \* the camera directions the model may propose
          NoSlots, MAX_RETRIES

ASSUME StoriesAssumption == EndedStories \subseteq Stories
ASSUME ProposalsAssumption == NoSpec \in Proposals /\ Proposals \subseteq Specs
ASSUME RetriesAssumption == MAX_RETRIES \in Nat

VARIABLES
  story,    \* the facts the ending is made from
  telling,  \* the request that ends the story: how far, and how often it has asked
  slots     \* what each job of the picture was given

textVars == << story, telling, slots >>
allVars == << vars, textVars >>

TextInit ==
  /\ Init
  /\ story \in EndedStories
  /\ telling = [at |-> "asking", attempt |-> 0, spec |-> NoSpec]
  /\ slots = [j \in Jobs |-> NoSlots]

BugRejections(n) == n  \* mutant: the attempts are not counted

\* The answers rejected in this request, one more than before.
Rejections(n) == n + 1

\* degrade_ending_to_fallback: the title and the body are fixed, and the camera
\* direction is left out.
Fallback == NoSpec

Told(spec) == telling' = [telling EXCEPT !.at = "told", !.spec = spec]

\* One call of the model: an ending, an answer that does not validate, or an
\* exception, which ends the request without an ending.
CallOnce ==
  /\ telling.at = "asking"
  /\ \/ \E spec \in Proposals : Told(spec)
     \/ \E at \in {"rejected", "failed"} : telling' = [telling EXCEPT !.at = at]
  /\ UNCHANGED << vars, story, slots >>

\* Another attempt, or the fallback after the last one.
Reject ==
  /\ telling.at = "rejected"
  /\ IF telling.attempt < MAX_RETRIES
       THEN telling' = [telling EXCEPT !.at = "asking", !.attempt = Rejections(@)]
       ELSE Told(Fallback)
  /\ UNCHANGED << vars, story, slots >>

\* The process dies before the commit.
LoseText ==
  /\ telling.at \in {"asking", "rejected", "told"}
  /\ telling' = [telling EXCEPT !.at = "failed"]
  /\ UNCHANGED << vars, story, slots >>

\* The player presses retry: the request is sent again.
AskAgain ==
  /\ telling.at = "failed"
  /\ telling' = [at |-> "asking", attempt |-> 0, spec |-> NoSpec]
  /\ UNCHANGED << vars, story, slots >>

\* finalize_ending_text and its callers: the ending is stored and the first job of
\* the picture is given its slots.
StoreEnding ==
  /\ telling.at = "told"
  /\ slots' = [slots EXCEPT ![FirstJob] = Slots(story, Direction(story, telling.spec))]
  /\ telling' = [at |-> "stored", attempt |-> 0, spec |-> NoSpec]
  /\ UNCHANGED << vars, story >>

\* A retry does not ask the model: the camera direction is the default.
SlotsOfRetry == Slots(story, DEFAULT_DIRECTION)

\* A step of EndingImage, once the ending is stored.  A retry leaves its job with
\* slots; a job whose keys have no phrase fails before it paints.
Picture(step) ==
  /\ telling.at = "stored"
  /\ step
  /\ \A j \in Jobs : JobAt(j, "painting") /\ ~Worded(slots[j].direction) => j \notin files' \ files
  /\ slots' = [j \in Jobs |->
       IF JobAt(j, "none") /\ worker'[j].pc = "queued" THEN SlotsOfRetry ELSE slots[j]]
  /\ UNCHANGED << story, telling >>

Tell == CallOnce \/ Reject \/ StoreEnding

TextNext == Tell \/ LoseText \/ AskAgain \/ Picture(Next)

TextSpec == TextInit /\ [][TextNext]_allVars

\* The server goes on with the request, and then the fairness of EndingImage.
FairTextSpec ==
  /\ TextSpec
  /\ WF_allVars(Tell)
  /\ \A j \in Jobs : WF_allVars(Picture(Work(j)))
  /\ \A q \in Retries : WF_allVars(Picture(Retry(q))) /\ WF_allVars(Picture(HearRetry(q)))
  /\ WF_allVars(Picture(DeleteRow)) /\ WF_allVars(Picture(UnlinkFiles)) /\ WF_allVars(Picture(Poll))
-----------------------------------------------------------------------------
TextTypeOK ==
  /\ story \in EndedStories
  /\ telling \in [at : {"asking", "rejected", "failed", "told", "stored"}, attempt : 0 .. MAX_RETRIES,
                  spec : Proposals]
  /\ slots \in [Jobs -> {Slots(story, Direction(story, spec)) : spec \in Proposals} \cup {NoSlots}]

\* ending.py: who is there, what they hold and what they agreed on is in the picture
\* as it was confirmed, whatever direction the model proposed and whichever job painted
\* it (validate_image_scene_spec).  The door is not among them: the default place shows it
\* just locked, in stories that were ended early, too.
PictureFitsEvents == \A j \in images : Fits(slots[j], story)

\* Whatever the model proposed, a job that is left to paint has a phrase for every
\* key (the whitelists of ending.py and the tables of prompts.py).
JobsAreWorded ==
  \A j \in Jobs : worker[j].pc = "painting" => Worded(slots[j].direction)

\* client.py: an ending that is asked for is stored, however bad the model's
\* answers are, unless a call or the process fails.
EndingIsTold == telling.at = "asking" ~> telling.at \in {"stored", "failed"}
=============================================================================
