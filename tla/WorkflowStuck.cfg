CONSTANTS
  x1 = x1
  x2 = x2
  planA = planC
  planB = planB
  planC = planC
  b1 = b1
  b2 = b2
  c1 = c1
  NoTask = NoTask
  NoCommit = NoCommit
  Commit = {c1}
  Contract = {}
  Task <- MCTask
  Source <- MCTask
  Digest <- MCDigest
  Executor = {x1}
  Plan = {planC}
  Leaves <- MCLeaves
  Planning = {b1, b2}
  MaxAttempts = 1
  Continue = {}
  MayCrash = TRUE
  MaxTrouble = 2
SPECIFICATION AllSpec
INVARIANT CompletionIsAdmitted
CHECK_DEADLOCK FALSE
