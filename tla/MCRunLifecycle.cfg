CONSTANTS
  t1 = t1
  t2 = t2
  record = record
  d1 = d1
  d2 = d2
  c1 = c1
  tests = tests
  NoTask = NoTask
  NoCommit = NoCommit
  Task = {t1, t2}
  Source = {record}
  Digest = {d1, d2}
  Commit = {c1}
  Contract = {tests}
  Requests <- MCRequests
  MaxLast = 10
SPECIFICATION LogSpec
INVARIANTS TypeOK RunDoneMeansAllDone CompletionIsEvidenced CompletionHasEvidence
PROPERTIES TerminalIsFinal
CHECK_DEADLOCK FALSE
