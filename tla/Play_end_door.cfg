\* An early end that races the twelfth turn.
CONSTANTS
  t1 = t1
  t2 = t2
  t3 = t3
  t4 = t4
  c1 = c1
  c2 = c2
  c3 = c3
  e1 = e1
  plan = plan
  Plans = {plan}
  NoPlan = NoPlan
  NoRequest = NoRequest
  NoWorker = NoWorker
  Kind <- MCKind
  Proposals <- MCProposals
  Workers = {w1, w2}
  Requests = {t1, t2, e1}
  StartTurns = {10}
  ToldTurns = {}
  Devices = {d1}
  MayLeave = FALSE
SPECIFICATION PlaySpec
SYMMETRY MCSymmetry
INVARIANT EarlyEndLeavesDoorOpen
