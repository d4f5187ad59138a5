\* The last turns in one worker: what the last turn confirms is not quoted.
CONSTANTS
  t1 = t1
  t2 = t2
  plan = plan
  Plans = {plan}
  NoPlan = NoPlan
  NoRequest = NoRequest
  Kind <- MCKind
  Requests = {t1, t2}
  Workers = {w1}
  Proposals <- MCProposals
  StartTurns = {10}
  ToldTurns = {}
SPECIFICATION Spec
SYMMETRY MCSymmetry
INVARIANT EveryTurnMayBeQuoted
