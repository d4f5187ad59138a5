\* Three stories, two retries of the picture, a deletion and a crash, fair.
CONSTANTS
  Retries = {r1, r2}
  FirstJob = FirstJob
  NoImage = NoImage
  NoRetry = NoRetry
  NoSlots = NoSlots
  MayCrash = TRUE
  MayDelete = TRUE
  plan = plan
  Plans = {plan}
  NoPlan = NoPlan
  EndedStories <- MCStories
  Proposals <- MCProposals
  MAX_RETRIES = 2
SPECIFICATION FairTextSpec
INVARIANTS PictureHasFile DeletedStaysDeleted StillMeansSettled PictureFitsEvents JobsAreWorded
PROPERTIES DeletionEnds OutcomeReachesPage EndingIsTold
CHECK_DEADLOCK FALSE
