\* A single redraw, with nobody else at work but the painter.
CONSTANTS
  h1 = h1
  h2 = h2
  h3 = h3
  r1 = r1
  r2 = r2
  s1 = s1
  Runs = {h1}
  Request <- MCRepeated
  Starts = {}
  First = First
  None = None
  SCENES = 2
  Painted = {0}
  MayCrash = FALSE
  MayDelete = FALSE
SPECIFICATION Spec
CHECK_DEADLOCK FALSE
INVARIANT ScenesShowPortrait
