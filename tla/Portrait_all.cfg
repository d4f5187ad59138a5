\* Two of three redraws, two of them of one request, and a start; a crash and a deletion.
CONSTANTS
  h1 = h1
  h2 = h2
  h3 = h3
  r1 = r1
  r2 = r2
  s1 = s1
  Runs = {h1, h2, h3}
  Request <- MCRepeated
  Starts = {s1}
  First = First
  None = None
  SCENES = 2
  Painted = {0, 1}
  MayCrash = TRUE
  MayDelete = TRUE
SPECIFICATION Spec
CONSTRAINT MCTwoRequests
CHECK_DEADLOCK FALSE
INVARIANTS ImagesHaveFiles DeletedStaysDeleted OneImagePerScene ScenesTried
INVARIANTS OnlyOverlapTakesPortrait OnlyOverlapHidesFailure LoneRedrawsCounted OnlyOverlapPaintsTwice
