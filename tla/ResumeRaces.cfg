CONSTANTS
  t1 = t1
  t2 = t2
  s1 = s1
  d1 = d1
  d2 = d2
  c1 = c1
  r1 = r1
  r2 = r2
  NoTask = NoTask
  NoCommit = NoCommit
  Task = {t1, t2}
  Source = {s1}
  Digest = {d1, d2}
  Commit = {c1}
  Contract = {}
  Recorded = {}
  Resumer = {r1, r2}
  Priors <- MCPriors
  Requests <- MCRequests
  MaxTries = 4
  MayCrash = TRUE
  MaxForeign = 2
SYMMETRY Alike
SPECIFICATION Spec
INVARIANTS TypeOK OneDispatchPerAttempt NeverUnplannable DispatchIsDurable CompareIsEnough ContentionIsForeign
PROPERTIES OrderedDispatch
CHECK_DEADLOCK FALSE
