-------------------------- MODULE MCExecutionLedger --------------------------
(***************************************************************************)
(* Instances of ExecutionLedger for TLC: one task that declares one        *)
(* completion contract, one evidence file with two possible contents.      *)
(***************************************************************************)
EXTENDS ExecutionLedger

CONSTANTS t1, record, d1, c1, tests, p1, p2

MCRecordOf == [t \in Task |-> record]

Ran(kind) == Bare(kind, NoTask)
Did(kind) == Bare(kind, t1)
Seen(d) == {[src |-> record, dig |-> d]}

(* The life of a run with one task, and the events that disturb it.        *)
MCRequests ==
  {Ran("run.created"), Ran("run.completed"), Ran("run.cancelled"),
   [Did("task.registered") EXCEPT !.req = {tests}], Did("task.started"),
   Did("task.reopened"),
   [Did("task.evidence") EXCEPT !.binds = Seen(d1), !.proof = {tests}],
   [Did("task.completed") EXCEPT !.commit = c1, !.binds = Seen(d1)]}
=============================================================================
