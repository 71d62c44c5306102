CONSTANTS
  x1 = x1
  x2 = x2
  planA = planA
  planB = planB
  planC = planC
  b1 = b1
  b2 = b2
  c1 = c1
  NoTask = NoTask
  NoCommit = NoCommit
  Commit = {c1}
  Contract = {}
  Task <- MCTask
  Source <- MCTask
  Digest <- MCDigest
  Executor = {x1, x2}
  Plan = {planA, planB, planC}
  Leaves <- MCLeaves
  Planning = {b1}
  MaxAttempts = 2
  Continue = {2}
  MayCrash = TRUE
  MaxTrouble = 2
SPECIFICATION MCSpec
INVARIANTS RecordsStay BoundedAndAdmitted OutcomesAreTrue
PROPERTIES LeavesAreAuthorized OneEnds
CHECK_DEADLOCK FALSE
