CONSTANTS
  Caller = {c1, c2}
  Findings <- MCFindings
  Authority = {f3}
  Passing = {ok}
  MaxRounds = 2
  MaxEdits = 2
  ok = ok
  red = red
  redder = redder
  amber = amber
  vague = vague
  frozen = frozen
  f1 = f1
  f2 = f2
  f3 = f3
  t1 = t1
  t2 = t2
  p1 = p1
  p2 = p2
  NoTask = NoTask
  NoCommit = NoCommit
  NoProfile = NoProfile
  NoContract = NoContract
SPECIFICATION Spec
INVARIANTS TypeOK ConvergeIsBounded CompletedIsReviewed
PROPERTIES CompletionIsCurrent
CHECK_DEADLOCK FALSE
