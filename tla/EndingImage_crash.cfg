\* One retry, fair, a crash: a page that waits for a forgotten job.
CONSTANTS
  Retries = {r1}
  FirstJob = FirstJob
  NoImage = NoImage
  NoRetry = NoRetry
  MayCrash = TRUE
  MayDelete = FALSE
SPECIFICATION FairSpec
PROPERTY GeneratingEnds
