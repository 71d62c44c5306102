------------------------- MODULE MCExecutionResume -------------------------
(***************************************************************************)
(* ExecutionResume for TLC: a run of two tasks, t1 before t2, interrupted  *)
(* before t2 was registered, after t1 was completed (and perhaps paused    *)
(* then), or after t1 failed.                                              *)
(***************************************************************************)
EXTENDS ExecutionResume, TLC

CONSTANTS t1, t2, s1, d1, d2, c1, r1, r2

Ran(kind) == Bare(kind, NoTask)
Done(t) == [Bare("task.completed", t) EXCEPT !.commit = c1, !.binds = {[src |-> s1, dig |-> d1]}]

Early == <<Ran("run.created"), Bare("task.registered", t1)>>
Both == Append(Early, Bare("task.registered", t2))
Worked == Both \o <<Bare("task.started", t1), Done(t1)>>
Paused == Append(Worked, Ran("run.paused"))
Failed == Both \o <<Bare("task.started", t1), Bare("task.failed", t1)>>

Run(evs, tasks) == [st |-> Reconstruct(evs), order |-> tasks]
MCPriors == {Run(Early, <<t1>>)} \cup {Run(evs, <<t1, t2>>) : evs \in {Worked, Paused, Failed}}

MCRequests ==
  {Ran("run.paused"), Ran("run.cancelled"), Bare("task.registered", t2),
   Bare("task.reopened", t1)}
  \cup {Bare("task.started", t) : t \in Task} \cup {Done(t) : t \in Task}

(* The resumers are alike.                                                 *)
Alike == Permutations(Resumer)
=============================================================================
