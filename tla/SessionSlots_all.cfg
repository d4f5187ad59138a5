\* Two creations at once, a third request, deletions and crashes; the code holds two sessions.
CONSTANTS
  Requests = {r1, r2, r3}
  NoRequest = NoRequest
  Workers = {w1, w2}
  image_budget_sessions = 2
  InvalidRequests = {r3}
  MAX_MADE = 4
SPECIFICATION Spec
INVARIANTS AnswerNamesItsSession BudgetBounded LoneCreationFits
PROPERTY CreationEnds
\* At rest: nothing is asked, or MAX_MADE rows were made and are gone.
CHECK_DEADLOCK FALSE
