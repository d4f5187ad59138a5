\* One browser whose player leaves and returns while an answer is awaited.
CONSTANTS
  t1 = t1
  t2 = t2
  t3 = t3
  t4 = t4
  c1 = c1
  c2 = c2
  c3 = c3
  e1 = e1
  plan = plan
  Plans = {plan}
  NoPlan = NoPlan
  NoRequest = NoRequest
  NoWorker = NoWorker
  Kind <- MCKind
  Proposals <- MCSilence
  Workers = {w1, w2}
  Requests = {t1, t2, t3}
  StartTurns = {4}
  ToldTurns = {}
  Devices = {d1}
  MayLeave = TRUE
SPECIFICATION PlaySpec
SYMMETRY MCSymmetry
INVARIANT OneTurnAtATime
