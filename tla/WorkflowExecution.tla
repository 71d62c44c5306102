-------------------------- MODULE WorkflowExecution --------------------------
(***************************************************************************)
(* The bounded executor of workflow_execution.py on one execution run.     *)
(*                                                                         *)
(* A graph is here the sequence of its leaves: a control node only decides *)
(* which leaf is next and adds a checkpoint.  An executor is a process     *)
(* whose steps are its ledger calls (each atomic under the run's lock, see *)
(* ExecutionLedger) and its leaf invocations; what it read earlier may be  *)
(* out of date when it appends.  A leaf's outcome stands for its output    *)
(* too, and a plan for the hash of graph and input.                        *)
(***************************************************************************)
EXTENDS RunState

CONSTANTS
  Executor,      \* processes that execute or resume the run
  Plan,          \* hashes of the graphs and inputs it is executed with
  Leaves,        \* number of leaves of each plan, executed in order
  Planning,      \* what planning_binding of a leaf may answer
  MaxAttempts,   \* retry.maxAttempts of every leaf
  Continue,      \* leaves with onFailure: continue
  MayCrash,      \* processes may die, or find the ledger's lock busy
  MaxTrouble     \* bound: crashes, pauses and refused ledger calls

Leaf == UNION {1 .. Leaves[plan] : plan \in Plan}
Outcome == {"succeeded", "failed", "cancelled"}

(* _task_id: a hash of the plan, the place in the graph, the outcomes of   *)
(* the leaves before it, and the planning binding.                         *)
LeafTask ==
  {t \in UNION {[plan : Plan, leaf : {n}, ctx : [1 .. (n - 1) -> Outcome], bind : Planning] : n \in Leaf} :
     t.leaf <= Leaves[t.plan]}

ASSUME TaskAssumption == Task = LeafTask /\ Source = Task /\ Digest = Outcome
ASSUME LeafAssumption == Leaves \in [Plan -> Nat \ {0}] /\ MaxAttempts \in Nat \ {0} /\ Continue \subseteq Leaf
ASSUME InputAssumption == Plan # {} /\ Planning # {} /\ Commit # {}
ASSUME TroubleAssumption == MayCrash \in BOOLEAN /\ MaxTrouble \in Nat

VARIABLES
  st,        \* the state the run's events reconstruct to
  record,    \* the evidence record of each task, "none" before the first
  failures,  \* task.evidence events of failed attempts, per task
  ckpt,      \* last sequence of the checkpoint's ledger head
  ex,        \* the executors
  trouble    \* crashes, pauses and refused ledger calls so far

vars == <<st, record, failures, ckpt, ex, trouble>>
durable == <<st, record, failures, ckpt>>

Pc == {"idle", "resume", "stale", "retire", "record", "evidence", "complete",
       "leaf", "look", "conflict", "register", "start", "count", "attempt",
       "running", "retry", "noted", "ending", "end", "closing"}

Idle == [pc |-> "idle", plan |-> CHOOSE p \in Plan : TRUE, leaf |-> 1, ctx |-> <<>>,
         bind |-> CHOOSE b \in Planning : TRUE, task |-> CHOOSE t \in Task : TRUE,
         out |-> "succeeded", back |-> "leaf", attempt |-> 0, todo |-> {},
         end |-> "run.completed", close |-> FALSE]

TypeOK ==
  /\ st \in State
  /\ record \in [Task -> Outcome \cup {"none"}]
  /\ failures \in [Task -> Nat]
  /\ ckpt \in Nat
  /\ DOMAIN ex = Executor
  /\ \A x \in Executor :
       /\ DOMAIN ex[x] = DOMAIN Idle
       /\ ex[x].pc \in Pc /\ ex[x].task \in Task /\ ex[x].out \in Outcome
       /\ ex[x].leaf \in Leaf /\ ex[x].attempt \in Nat
  /\ trouble \in Nat

(* create_execution_run has appended run.created.                          *)
Init ==
  /\ st = Apply(NewRun, Bare("run.created", NoTask))
  /\ record = [t \in Task |-> "none"]
  /\ failures = [t \in Task |-> 0]
  /\ ckpt = 0
  /\ ex = [x \in Executor |-> Idle]
  /\ trouble = 0

-----------------------------------------------------------------------------
At(x, pc) == ex[x].pc = pc
Become(x, e) == ex' = [ex EXCEPT ![x] = e]
Goto(x, pc) == Become(x, [ex[x] EXCEPT !.pc = pc])

(* The task of the leaf the executor is at.                                *)
Mine(x) == [plan |-> ex[x].plan, leaf |-> ex[x].leaf, ctx |-> ex[x].ctx, bind |-> ex[x].bind]

(* append_event; a refused event is an ExecutionLedgerError, which leaves  *)
(* execute_workflow_graph with nothing else changed.                       *)
Refused(x) == Become(x, Idle) /\ trouble' = trouble + 1 /\ UNCHANGED st

AppendThen(x, e, next) ==
  \/ Legal(st, e) /\ st' = Apply(st, e) /\ Become(x, next) /\ UNCHANGED trouble
  \/ ~Legal(st, e) /\ Refused(x)

(* Ending a run: reconstruct, append if it is active, checkpoint.          *)
ToEnd(x, kind, close) ==
  [ex[x] EXCEPT !.pc = "ending", !.end = kind, !.close = close]

(* execute(): a paused run is resumed first; a terminal run is not         *)
(* executed any further.                                                   *)
EntryActive(run) == "stale"  \* mutant
Entry(run) == IF run = "paused" THEN "resume" ELSE "stale"

Start(x, plan) ==
  /\ At(x, "idle") /\ st.run \in {"active", "paused"} /\ trouble <= MaxTrouble
  /\ Become(x, [Idle EXCEPT !.pc = Entry(st.run), !.plan = plan])
  /\ UNCHANGED <<durable, trouble>>

Resume(x) ==
  /\ At(x, "resume")
  /\ AppendThen(x, Bare("run.resumed", NoTask), [ex[x] EXCEPT !.pc = "stale"])
  /\ UNCHANGED <<record, failures, ckpt>>

Unfinished(tasks) ==
  {<<t, st.tasks[t].status>> : t \in {u \in tasks : st.tasks[u].status \in {"registered", "started"}}}

(* _retire_stale_plan_tasks looks for unfinished tasks of other plans, and *)
(* _retire_conflicting_tasks for unfinished tasks of the same leaf.  The   *)
(* engine never fails a task, so no stale task needs reopening; tasks are  *)
(* independent, so the order they are retired in is left open.             *)
StaleNone(x) == {}   \* mutant
Stale(x) == {t \in Task : t.plan # ex[x].plan}

FindStale(x) ==
  /\ At(x, "stale")
  /\ Become(x, [ex[x] EXCEPT !.pc = "retire", !.back = "leaf", !.todo = Unfinished(Stale(x))])
  /\ UNCHANGED <<durable, trouble>>

FindConflicts(x) ==
  /\ At(x, "conflict")
  /\ Become(x, [ex[x] EXCEPT !.pc = "retire", !.back = "register",
                             !.todo = Unfinished({t \in Task : t.leaf = ex[x].leaf /\ t # Mine(x)})])
  /\ UNCHANGED <<durable, trouble>>

Retire(x) ==
  /\ At(x, "retire")
  /\ \/ /\ ex[x].todo = {} /\ Goto(x, ex[x].back) /\ UNCHANGED <<st, trouble>>
     \/ \E item \in ex[x].todo :
          LET next == [ex[x] EXCEPT !.pc = "record", !.task = item[1], !.out = "cancelled",
                                    !.todo = @ \ {item}]
          IN  IF item[2] = "registered"
              THEN AppendThen(x, Bare("task.started", item[1]), next)
              ELSE Become(x, next) /\ UNCHANGED <<st, trouble>>
  /\ UNCHANGED <<record, failures, ckpt>>

(* _persist_outcome: the record file, the evidence event, the completion.  *)
Proof(x) == {[src |-> ex[x].task, dig |-> ex[x].out]}

WriteRecord(x) ==
  /\ At(x, "record")
  /\ \/ /\ st.tasks[ex[x].task].status \in {"registered", "started"}
        /\ record' = [record EXCEPT ![ex[x].task] = ex[x].out]
        /\ Goto(x, "evidence") /\ UNCHANGED <<st, trouble>>
     \/ /\ st.tasks[ex[x].task].status \notin {"registered", "started"}
        /\ Refused(x) /\ UNCHANGED record
  /\ UNCHANGED <<failures, ckpt>>

AppendEvidence(x) ==
  /\ At(x, "evidence")
  /\ AppendThen(x, [Bare("task.evidence", ex[x].task) EXCEPT !.binds = Proof(x)],
                [ex[x] EXCEPT !.pc = "complete"])
  /\ UNCHANGED <<record, failures, ckpt>>

(* The ledger hashes the record file again before it takes the completion. *)
RecordIgnored(x) == TRUE  \* mutant
RecordMatches(x) == record[ex[x].task] = ex[x].out

AppendCompleted(x) ==
  /\ At(x, "complete")
  /\ IF RecordMatches(x)
     THEN AppendThen(x, [Bare("task.completed", ex[x].task) EXCEPT
                           !.commit = CHOOSE c \in Commit : TRUE, !.binds = Proof(x)],
                     [ex[x] EXCEPT !.pc = IF ex[x].back = "own" THEN "noted" ELSE "retire"])
     ELSE Refused(x)
  /\ UNCHANGED <<record, failures, ckpt>>

(* _execute_leaf.  The cancelled() callback is asked before it, and again  *)
(* before every attempt.                                                   *)
CheckCancelled(x) ==
  /\ At(x, "leaf") \/ (At(x, "attempt") /\ ex[x].attempt <= MaxAttempts)
  /\ Become(x, ToEnd(x, "run.cancelled", TRUE))
  /\ UNCHANGED <<durable, trouble>>

PlanLeaf(x, bind) ==
  /\ At(x, "leaf")
  /\ Become(x, [ex[x] EXCEPT !.pc = "look", !.bind = bind])
  /\ UNCHANGED <<durable, trouble>>

AfterLookHasty(status) ==  \* mutant
  CASE status = "absent" -> "conflict"
    [] status \in {"registered", "started"} -> "count"
    [] OTHER -> "noted"
AfterLook(status) ==
  CASE status = "absent"     -> "conflict"
    [] status = "registered" -> "start"
    [] status = "started"    -> "count"
    [] OTHER                 -> "noted"

Look(x) ==
  /\ At(x, "look")
  /\ LET status == st.tasks[Mine(x)].status IN
     Become(x, [ex[x] EXCEPT
       !.pc   = AfterLook(status),
       !.task = Mine(x),
       !.back = "read",
       !.out  = IF status = "completed" THEN record[Mine(x)] ELSE @])
  /\ UNCHANGED <<durable, trouble>>

Register(x) ==
  /\ At(x, "register")
  /\ AppendThen(x, Bare("task.registered", Mine(x)), [ex[x] EXCEPT !.pc = "look"])
  /\ UNCHANGED <<record, failures, ckpt>>

StartTask(x) ==
  /\ At(x, "start")
  /\ AppendThen(x, Bare("task.started", Mine(x)), [ex[x] EXCEPT !.pc = "count"])
  /\ UNCHANGED <<record, failures, ckpt>>

Count(x) ==
  /\ At(x, "count")
  /\ Become(x, [ex[x] EXCEPT !.pc = "attempt", !.attempt = failures[Mine(x)] + 1])
  /\ UNCHANGED <<durable, trouble>>

Invoke(x) ==
  /\ At(x, "attempt") /\ ex[x].attempt <= MaxAttempts
  /\ Goto(x, "running")
  /\ UNCHANGED <<durable, trouble>>

(* "retry loop exhausted without outcome": an AssertionError escapes.      *)
Exhausted(x) ==
  /\ At(x, "attempt") /\ ex[x].attempt > MaxAttempts
  /\ Become(x, Idle)
  /\ UNCHANGED <<durable, trouble>>

(* The leaf returns an outcome that counts, asks for a pause (or is        *)
(* blocked), or breaks the contract of leaf executors.                     *)
RetriesPast(x, out) == out = "failed" /\ ex[x].attempt <= MaxAttempts  \* mutant
Retries(x, out) == out = "failed" /\ ex[x].attempt < MaxAttempts

Return(x, out) ==
  /\ At(x, "running")
  /\ Become(x, IF Retries(x, out)
               THEN [ex[x] EXCEPT !.pc = "retry"]
               ELSE [ex[x] EXCEPT !.pc = "record", !.task = Mine(x), !.out = out,
                                  !.back = "own", !.todo = {}])
  /\ UNCHANGED <<durable, trouble>>

ReturnPause(x) ==
  /\ At(x, "running") /\ trouble < MaxTrouble
  /\ Become(x, ToEnd(x, "run.paused", TRUE))
  /\ trouble' = trouble + 1
  /\ UNCHANGED durable

ReturnInvalid(x) ==
  /\ At(x, "running")
  /\ Become(x, ToEnd(x, "run.failed", TRUE))
  /\ UNCHANGED <<durable, trouble>>

(* Planning the leaf fails, or a control node refuses to go on - an item   *)
(* bound, a source without output, a condition without value - before,     *)
(* between or after the leaves.                                            *)
ControlFails(x) ==
  /\ At(x, "leaf") \/ (At(x, "ending") /\ ex[x].end = "run.completed")
  /\ Become(x, ToEnd(x, "run.failed", TRUE))
  /\ UNCHANGED <<durable, trouble>>

Retry(x) ==
  /\ At(x, "retry")
  /\ AppendThen(x, Bare("task.evidence", Mine(x)),
                [ex[x] EXCEPT !.pc = "attempt", !.attempt = @ + 1])
  /\ failures' = IF Legal(st, Bare("task.evidence", Mine(x)))
                 THEN [failures EXCEPT ![Mine(x)] = @ + 1] ELSE failures
  /\ UNCHANGED <<record, ckpt>>

NextLeafPast(x) ==  \* mutant
  IF ex[x].leaf > Leaves[ex[x].plan]
  THEN ToEnd(x, "run.completed", TRUE)
  ELSE [ex[x] EXCEPT !.pc = "leaf", !.leaf = @ + 1, !.ctx = Append(@, ex[x].out)]
NextLeafUnsaved(x) ==  \* mutant
  IF ex[x].leaf = Leaves[ex[x].plan]
  THEN ToEnd(x, "run.completed", FALSE)
  ELSE [ex[x] EXCEPT !.pc = "leaf", !.leaf = @ + 1, !.ctx = Append(@, ex[x].out)]
NextLeaf(x) ==
  IF ex[x].leaf = Leaves[ex[x].plan]
  THEN ToEnd(x, "run.completed", TRUE)
  ELSE [ex[x] EXCEPT !.pc = "leaf", !.leaf = @ + 1, !.ctx = Append(@, ex[x].out)]

(* _record writes the checkpoint.  Only an outcome of its own execution    *)
(* stops the run; one that was read back never does.                       *)
CancelsNothing(x) == FALSE  \* mutant
Cancels(x) == ex[x].back = "own" /\ ex[x].out = "cancelled"

FailsNothing(x) == FALSE  \* mutant
Fails(x) == ex[x].back = "own" /\ ex[x].out = "failed" /\ ex[x].leaf \notin Continue

Note(x) ==
  /\ At(x, "noted")
  /\ ckpt' = st.last
  /\ Become(x, CASE Cancels(x) -> ToEnd(x, "run.cancelled", FALSE)
                 [] Fails(x)   -> ToEnd(x, "run.failed", FALSE)
                 [] OTHER      -> NextLeaf(x))
  /\ UNCHANGED <<st, record, failures, trouble>>

After(x) == IF ex[x].close THEN [ex[x] EXCEPT !.pc = "closing"] ELSE Idle

EndLook(x) ==
  /\ At(x, "ending")
  /\ Become(x, IF st.run = "active" THEN [ex[x] EXCEPT !.pc = "end"] ELSE After(x))
  /\ UNCHANGED <<durable, trouble>>

End(x) ==
  /\ At(x, "end")
  /\ AppendThen(x, Bare(ex[x].end, NoTask), After(x))
  /\ UNCHANGED <<record, failures, ckpt>>

Close(x) ==
  /\ At(x, "closing")
  /\ ckpt' = st.last
  /\ Become(x, Idle)
  /\ UNCHANGED <<st, record, failures, trouble>>

(* The process is lost, a leaf adapter raises, or the lock is found busy.  *)
Crash(x) ==
  /\ MayCrash /\ ~At(x, "idle") /\ trouble < MaxTrouble
  /\ Become(x, Idle)
  /\ trouble' = trouble + 1
  /\ UNCHANGED durable

Work(x) ==
  \/ \E plan \in Plan : Start(x, plan)
  \/ Resume(x) \/ FindStale(x) \/ FindConflicts(x) \/ Retire(x)
  \/ WriteRecord(x) \/ AppendEvidence(x) \/ AppendCompleted(x)
  \/ CheckCancelled(x)
  \/ \E bind \in Planning : PlanLeaf(x, bind)
  \/ Look(x) \/ Register(x) \/ StartTask(x) \/ Count(x)
  \/ Invoke(x) \/ Exhausted(x)
  \/ \E out \in Outcome : Return(x, out)
  \/ ReturnPause(x) \/ ReturnInvalid(x) \/ ControlFails(x) \/ Retry(x)
  \/ Note(x) \/ EndLook(x) \/ End(x) \/ Close(x)

Next == \E x \in Executor : Work(x) \/ Crash(x)

Spec == Init /\ [][Next]_vars

(* One executor has the run for itself.                                    *)
SoleSpec(x) == Init /\ [][Work(x) \/ Crash(x)]_vars

(* Only pauses interrupt it, and the run is resumed with the plan it had.  *)
Executes(x, plans) == Work(x) /\ (At(x, "idle") => ex'[x].plan \in plans)
CalmSpec(x, plan) == Init /\ [][Executes(x, {plan})]_vars

(* Whoever started a run resumes it after an interruption, and leaf        *)
(* adapters return.                                                        *)
FairSpec == Spec /\ \A x \in Executor : WF_vars(Work(x))

-----------------------------------------------------------------------------
(* What a completed task bound is what its record file holds, even when    *)
(* several executors persist outcomes of the same leaf: an outcome can be  *)
(* read back for ever (_read_completed_outcome).                           *)
CompletedReadsBack ==
  \A t \in Task : st.tasks[t].status = "completed" =>
    st.tasks[t].binds = {[src |-> t, dig |-> record[t]]}

Invokes(x) == At(x, "attempt") /\ ex'[x].pc = "running"

(* A leaf is invoked only while its task is started in an active run: a    *)
(* completed leaf never again, and nothing after the run has ended.        *)
WorkAuthorized ==
  \A x \in Executor : Invokes(x) =>
    st.run = "active" /\ st.tasks[Mine(x)].status = "started"

WorkIsAuthorized == [][WorkAuthorized]_vars

(* No sequence of failures, crashes and resumes uses more attempts than    *)
(* retry.maxAttempts, or leaves none for the resume ("retry loop exhausted *)
(* without outcome" is unreachable).                                       *)
AttemptsBounded ==
  \A x \in Executor : At(x, "attempt") => ex[x].attempt <= MaxAttempts

(* An executor that has been through all leaves has left no task of the    *)
(* run unfinished: the ledger takes its run.completed.                     *)
CompletionIsAdmitted ==
  \A x \in Executor : At(x, "end") /\ ex[x].end = "run.completed" =>
    Legal(st, Bare("run.completed", NoTask))

(* Cancellation authorizes nothing: no leaf runs on top of a cancelled one.*)
FollowsNoCancelled ==
  \A x \in Executor : Invokes(x) =>
    \A n \in DOMAIN ex[x].ctx : ex[x].ctx[n] # "cancelled"

NothingFollowsCancelled == [][FollowsNoCancelled]_vars

(* A failure that onFailure does not forgive ends the run as failed: a run *)
(* that completes has none.                                                *)
FailureIsTerminal ==
  st.run = "completed" =>
    \A t \in Task : st.tasks[t].status = "completed" /\ record[t] = "failed" =>
                      t.leaf \in Continue

(* A completed run carried out some plan: each of its leaves succeeded, or *)
(* failed where the plan said to continue.                                 *)
CompletedMeansSucceeded ==
  st.run = "completed" =>
    \E plan \in Plan : \A n \in 1 .. Leaves[plan] : \E t \in Task :
      /\ t.plan = plan /\ t.leaf = n /\ st.tasks[t].status = "completed"
      /\ record[t] = "succeeded" \/ (record[t] = "failed" /\ n \in Continue)

AllIdle == \A x \in Executor : At(x, "idle")

(* The result of a completed run can be read again: its checkpoint is the  *)
(* one load_checkpoint accepts.                                            *)
CompletedIsReadable == st.run = "completed" /\ AllIdle => ckpt = st.last

(* Whatever is interrupted where, resuming brings the run to an end.       *)
RunEnds == <>(st.run \in RunTerminal)
=============================================================================
