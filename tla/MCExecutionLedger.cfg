CONSTANTS
  t1 = t1
  record = record
  d1 = d1
  c1 = c1
  tests = tests
  NoTask = NoTask
  NoCommit = NoCommit
  NoProc = NoProc
  NoCkpt = NoCkpt
  Missing = Missing
  p1 = p1
  p2 = p2
  Task = {t1}
  Source = {record}
  Digest = {d1}
  Commit = {c1}
  Contract = {tests}
  Proc = {p1, p2}
  RecordOf <- MCRecordOf
  Requests <- MCRequests
  MaxLog = 4
SPECIFICATION Spec
INVARIANTS TypeOK OnlyTornIsUnreadable CasHonest CheckpointIsPrefix Exclusive
PROPERTIES Implements TornIsFinal
CHECK_DEADLOCK FALSE
