\* One browser: two turns and three cards (written, blank, too long), with retries, timeouts,
\* reloads and crashes, around a change of scene, at the card and at the end.
CONSTANTS
  t1 = t1
  t2 = t2
  t3 = t3
  t4 = t4
  c1 = c1
  c2 = c2
  c3 = c3
  e1 = e1
  plan = plan
  Plans = {plan}
  NoPlan = NoPlan
  NoRequest = NoRequest
  NoWorker = NoWorker
  Kind <- MCKind
  Proposals <- MCProposals
  Workers = {w1, w2}
  Requests = {t1, t2, c1, c2, c3}
  StartTurns = {2, 8, 10}
  ToldTurns = {1, 2, 3, 5, 8}
  Devices = {d1}
  MayLeave = FALSE
SPECIFICATION FairPlaySpec
INVARIANTS CardDecidedOnce EndingQuotesConfirmed OneTurnAtATime WorldIsReplay ShownIsCommitted
PROPERTIES AcceptedIsResolved PendingKeptUntilAnswered EndedIsFrozen StoryImplemented
