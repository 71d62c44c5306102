CONSTANTS
  x1 = x1
  x2 = x2
  planA = planA
  planB = planB
  planC = planB
  b1 = b1
  b2 = b2
  c1 = c1
  NoTask = NoTask
  NoCommit = NoCommit
  Commit = {c1}
  Contract = {}
  Task <- MCTask
  Source <- MCTask
  Digest <- MCDigest
  Executor = {x1}
  Plan = {planA}
  Leaves <- MCLeaves
  Planning = {b1}
  MaxAttempts = 1
  Continue = {}
  MayCrash = TRUE
  MaxTrouble = 2
SPECIFICATION AllSpec
INVARIANT FailureIsTerminal
CHECK_DEADLOCK FALSE
