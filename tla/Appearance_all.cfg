\* A redraw that the page sends twice, or a redraw and a start.
CONSTANTS
  h1 = h1
  h2 = h2
  r1 = r1
  s1 = s1
  Runs = {h1, h2}
  Request <- MCRepeated
  Starts = {s1}
  First = First
  None = None
  SCENES = 1
  Painted = {0, 1, 2}
  MayCrash = FALSE
  MayDelete = FALSE
SPECIFICATION AppSpec
CONSTRAINT MCTwoRequests
CHECK_DEADLOCK FALSE
INVARIANTS PatientPageIsSafe StartsWithShown
