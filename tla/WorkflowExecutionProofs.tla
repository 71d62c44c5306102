----------------------- MODULE WorkflowExecutionProofs -----------------------
(***************************************************************************)
(* The bounded executor, for any plans, leaves, retries and interruptions. *)
(*                                                                         *)
(* Shape holds with any number of executors: it is the type of everything, *)
(* and that a completed task binds what its record file holds.             *)
(*                                                                         *)
(* The other promises are those of one executor (Sole); TLC shows that two *)
(* can break them.  Then what the executor is about to do agrees with what *)
(* the ledger says (Knows).  That no task is left unfinished needs more: a *)
(* place in a plan has one task, because the outcomes before it are those  *)
(* on record (PlaceInv), and this only if planning a leaf again gives the  *)
(* same binding (OneBinding).  And that what the run ends as is what its   *)
(* leaves came to (CalmInv), only if nothing but pauses interrupts it.     *)
(***************************************************************************)
EXTENDS MCWorkflow

Unfin == {"registered", "started"}
TaskDeed == {"task.registered", "task.started", "task.evidence", "task.completed"}
RunEnd == {"run.completed", "run.failed", "run.cancelled", "run.paused"}

(* A process, and its place: the outcomes before the leaf it is at. *)
Process == [pc : Pc, plan : Plan, leaf : Leaf, ctx : Seq(Outcome), bind : Planning,
            task : Task, out : Outcome, back : {"leaf", "register", "read", "own"},
            attempt : Nat, todo : SUBSET (Task \X Unfin), end : RunEnd, close : BOOLEAN]

InPlace(e) ==
  /\ e \in Process /\ Len(e.ctx) = e.leaf - 1 /\ e.leaf <= Leaves[e.plan]
  /\ e.pc = "retire" => e.back \in {"leaf", "register"}
  /\ e.pc \in {"record", "evidence", "complete"} => e.back # "read"

Processes(es) == DOMAIN es = Executor /\ \A x \in Executor : InPlace(es[x])

Place(e) == [plan |-> e.plan, leaf |-> e.leaf, ctx |-> e.ctx, bind |-> e.bind]

(* What holds of the ledger and the record files: the engine fails no task,*)
(* and a completed one binds what its record file holds.                   *)
Kept(s, rec) ==
  \A t \in Task :
    /\ s.tasks[t].status # "failed"
    /\ s.tasks[t].status = "completed" =>
         rec[t] \in Outcome /\ s.tasks[t].binds = {[src |-> t, dig |-> rec[t]]}

Shape ==
  /\ st \in State /\ st.last > 0
  /\ record \in [Task -> Outcome \cup {"none"}]
  /\ failures \in [Task -> Nat] /\ ckpt \in Nat /\ trouble \in Nat
  /\ Processes(ex)
  /\ Kept(st, record)

-----------------------------------------------------------------------------
(* Leaves are counted from 1 in each plan. *)
LEMMA LeafFacts ==
  /\ Leaf \subseteq Nat \ {0} /\ 1 \in Leaf
  /\ \A plan \in Plan : Leaves[plan] \in Nat \ {0} /\ 1 .. Leaves[plan] \subseteq Leaf
  /\ \A t \in Task : t.plan \in Plan /\ t.leaf \in 1 .. Leaves[t.plan] /\ t.leaf \in Leaf
<1>1. \A plan \in Plan : Leaves[plan] \in Nat \ {0} /\ 1 .. Leaves[plan] \subseteq Leaf
  BY LeafAssumption DEF Leaf
<1>2. Leaf \subseteq Nat \ {0}
  BY <1>1 DEF Leaf
<1>3. PICK plan \in Plan : TRUE
  BY InputAssumption
<1>4. 1 \in Leaf
  BY <1>1, <1>3
<1>5. ASSUME NEW t \in Task PROVE t.plan \in Plan /\ t.leaf \in 1 .. Leaves[t.plan] /\ t.leaf \in Leaf
  <2>1. t.leaf <= Leaves[t.plan]
    BY TaskAssumption DEF LeafTask
  <2>2. PICK k \in Leaf : t \in [plan : Plan, leaf : {k}, ctx : [1 .. (k - 1) -> Outcome], bind : Planning]
    BY TaskAssumption DEF LeafTask
  <2> QED
    BY <1>1, <1>2, <2>1, <2>2
<1> QED
  BY <1>1, <1>2, <1>4, <1>5

(* Sequences of outcomes are the functions that tasks are made of. *)
LEMMA PlaceIsTask ==
  ASSUME NEW e, InPlace(e)
  PROVE  Place(e) \in Task
<1>1. e.leaf \in Leaf /\ e.plan \in Plan /\ e.bind \in Planning /\ e.ctx \in Seq(Outcome)
  BY DEF InPlace, Process
<1>2. e.leaf \in Nat
  BY <1>1, LeafFacts
<1>3. e.ctx \in [1 .. (e.leaf - 1) -> Outcome]
  BY <1>1, <1>2 DEF InPlace
<1>4. Place(e) \in [plan : Plan, leaf : {e.leaf}, ctx : [1 .. (e.leaf - 1) -> Outcome], bind : Planning]
  BY <1>1, <1>3 DEF Place
<1>5. Place(e).leaf <= Leaves[Place(e).plan]
  BY DEF InPlace, Place
<1> QED
  BY <1>1, <1>4, <1>5, TaskAssumption DEF LeafTask

(* An idle process is in place. *)
LEMMA IdleInPlace == InPlace(Idle) /\ Idle.pc = "idle"
<1>1. (CHOOSE p \in Plan : TRUE) \in Plan /\ (CHOOSE b \in Planning : TRUE) \in Planning
  BY InputAssumption
<1>2. 1 \in Leaf /\ \A p \in Plan : 1 <= Leaves[p]
  BY LeafFacts
<1>3. ASSUME NEW p \in Plan, NEW b \in Planning
      PROVE  [plan |-> p, leaf |-> 1, ctx |-> <<>>, bind |-> b] \in Task
  <2>1. <<>> \in [1 .. (1 - 1) -> Outcome]
    OBVIOUS
  <2>2. [plan |-> p, leaf |-> 1, ctx |-> <<>>, bind |-> b]
          \in [plan : Plan, leaf : {1}, ctx : [1 .. (1 - 1) -> Outcome], bind : Planning]
    BY <2>1
  <2> QED
    BY <1>2, <2>2, TaskAssumption DEF LeafTask
<1>5. Task # {}
  BY <1>1, <1>3
<1>6. (CHOOSE t \in Task : TRUE) \in Task
  BY <1>5
<1>7. ASSUME NEW p \in Plan, NEW b \in Planning, NEW t \in Task
      PROVE  InPlace([pc |-> "idle", plan |-> p, leaf |-> 1, ctx |-> <<>>, bind |-> b,
                      task |-> t, out |-> "succeeded", back |-> "leaf", attempt |-> 0,
                      todo |-> {}, end |-> "run.completed", close |-> FALSE])
  BY <1>2 DEF InPlace, Process, Outcome, RunEnd, Pc
<1> QED
  BY <1>1, <1>6, <1>7 DEF Idle

(* The reducer on the events of the engine. *)
LEMMA RunEvent ==
  ASSUME NEW s \in State, NEW kind \in RunKind
  PROVE  LET a == Apply(s, Bare(kind, NoTask)) IN
         /\ a \in State /\ a.last = s.last + 1 /\ a.tasks = s.tasks
         /\ a.run = RunAfter(s.run, kind) /\ a.run # "new"
<1>1. Bare(kind, NoTask) \in Event
  BY DEF Bare, Event
<1>2. kind \notin TaskKind
  BY DEF RunKind, TaskKind
<1> QED
  BY <1>1, <1>2, ApplyType DEF Apply, State, Bare, RunAfter, RunKind

(* An event about a task changes that task and no other. *)
LEMMA TaskEvent ==
  ASSUME NEW s \in State, NEW e \in Event, e.kind \in TaskKind
  PROVE  LET a == Apply(s, e) IN
         /\ a \in State /\ a.last = s.last + 1 /\ a.run = s.run /\ e.task \in Task
         /\ \A t \in Task : a.tasks[t] = IF t = e.task THEN TaskAfter(s.tasks[t], e) ELSE s.tasks[t]
<1>1. e.task \in Task
  BY DEF Event, RunKind, TaskKind
<1>2. Apply(s, e) = [s EXCEPT !.last = @ + 1, !.tasks[e.task] = TaskAfter(@, e)]
  BY DEF Apply
<1>3. Apply(s, e) \in State
  BY ApplyType
<1>4. Apply(s, e).last = s.last + 1 /\ Apply(s, e).run = s.run
  BY <1>2 DEF State
<1>5. \A t \in Task : Apply(s, e).tasks[t] = IF t = e.task THEN TaskAfter(s.tasks[t], e) ELSE s.tasks[t]
  BY ApplyTask
<1> QED
  BY <1>1, <1>3, <1>4, <1>5

(* The status before and after each of the engine's deeds. *)
LEMMA DeedStatus ==
  ASSUME NEW s \in State, NEW e \in Event, e.kind \in TaskDeed, Legal(s, e)
  PROVE  LET was == s.tasks[e.task]
             is == Apply(s, e).tasks[e.task]
         IN  /\ e.kind = "task.registered" => was.status = "absent" /\ is.status = "registered"
             /\ e.kind = "task.started" => was.status = "registered" /\ is.status = "started"
             /\ e.kind = "task.evidence" => was.status = "started" /\ is.status = "started"
             /\ e.kind = "task.completed" =>
                  was.status = "started" /\ is.status = "completed" /\ is.binds = e.binds
<1>1. e.kind \in TaskKind
  BY DEF TaskDeed, TaskKind
<1>2. e.task \in Task /\ Apply(s, e).tasks[e.task] = TaskAfter(s.tasks[e.task], e)
  BY <1>1, TaskEvent
<1>3. s.tasks[e.task] \in TaskState
  BY <1>2 DEF State
<1>4. s.tasks[e.task].status \in StatusBefore(e.kind)
  BY <1>1 DEF Legal, TaskLegal
<1> QED
  BY <1>2, <1>3, <1>4 DEF TaskDeed, TaskAfter, StatusBefore, Absent, TaskState

(* An event about the run keeps every outcome. *)
LEMMA KeptByRun ==
  ASSUME NEW s \in State, NEW rec, NEW kind \in RunKind, Kept(s, rec)
  PROVE  Kept(Apply(s, Bare(kind, NoTask)), rec)
BY RunEvent DEF Kept

(* So does a deed of the engine whose completion binds the record. *)
LEMMA KeptByTask ==
  ASSUME NEW s \in State, NEW rec, NEW e \in Event, e.kind \in TaskDeed, Legal(s, e),
         Kept(s, rec),
         e.kind = "task.completed" =>
           rec[e.task] \in Outcome /\ e.binds = {[src |-> e.task, dig |-> rec[e.task]]}
  PROVE  Kept(Apply(s, e), rec)
<1>1. e.kind \in TaskKind
  BY DEF TaskDeed, TaskKind
<1>2. e.task \in Task
  BY <1>1, TaskEvent
<1>3. \A t \in Task : t # e.task => Apply(s, e).tasks[t] = s.tasks[t]
  BY <1>1, TaskEvent
<1>4. /\ Apply(s, e).tasks[e.task].status # "failed"
      /\ Apply(s, e).tasks[e.task].status = "completed" =>
           rec[e.task] \in Outcome
           /\ Apply(s, e).tasks[e.task].binds = {[src |-> e.task, dig |-> rec[e.task]]}
  BY DeedStatus DEF TaskDeed
<1> QED
  BY <1>2, <1>3, <1>4 DEF Kept
(* What a step of one process does to all of them. *)
LEMMA OneMoves ==
  ASSUME Processes(ex), NEW x \in Executor, NEW n, InPlace(n), Become(x, n)
  PROVE  Processes(ex') /\ ex'[x] = n /\ \A y \in Executor : y # x => ex'[y] = ex[y]
BY DEF Processes, Become

(* A step without the ledger keeps the shape. *)
LEMMA StaysInShape ==
  ASSUME Shape, NEW x \in Executor, NEW n, InPlace(n), Become(x, n),
         UNCHANGED <<st, record, failures>>, ckpt' \in Nat, trouble' \in Nat
  PROVE  Shape'
BY OneMoves DEF Shape

(* A refused event ends the executor and nothing else. *)
LEMMA RefusedInShape ==
  ASSUME Shape, NEW x \in Executor, Refused(x), UNCHANGED <<record, failures, ckpt>>
  PROVE  Shape'
BY StaysInShape, IdleInPlace DEF Shape, Refused

(* An event about the run keeps the shape, admitted or refused. *)
LEMMA RunAppendInShape ==
  ASSUME Shape, NEW x \in Executor, NEW kind \in RunKind, NEW n, InPlace(n),
         AppendThen(x, Bare(kind, NoTask), n), UNCHANGED <<record, failures, ckpt>>
  PROVE  Shape'
<1>1. CASE Refused(x)
  BY <1>1, RefusedInShape
<1>2. CASE st' = Apply(st, Bare(kind, NoTask)) /\ Become(x, n) /\ UNCHANGED trouble
  <2>1. st' \in State /\ st'.last > 0
    BY <1>2, RunEvent DEF Shape, State
  <2>2. Kept(st', record')
    BY <1>2, KeptByRun DEF Shape
  <2> QED
    BY <1>2, <2>1, <2>2, OneMoves DEF Shape
<1> QED
  BY <1>1, <1>2 DEF AppendThen

(* A deed of the engine keeps the shape, admitted or refused. *)
LEMMA TaskAppendInShape ==
  ASSUME Shape, NEW x \in Executor, NEW e \in Event, e.kind \in TaskDeed, NEW n, InPlace(n),
         e.kind = "task.completed" =>
           record[e.task] \in Outcome /\ e.binds = {[src |-> e.task, dig |-> record[e.task]]},
         AppendThen(x, e, n), UNCHANGED <<record, ckpt>>,
         failures' \in [Task -> Nat], ~Legal(st, e) => UNCHANGED failures
  PROVE  Shape'
<1>1. CASE ~Legal(st, e) /\ Refused(x)
  BY <1>1, RefusedInShape
<1>2. CASE Legal(st, e) /\ st' = Apply(st, e) /\ Become(x, n) /\ UNCHANGED trouble
  <2>1. e.kind \in TaskKind
    BY DEF TaskDeed, TaskKind
  <2>2. st' \in State /\ st'.last > 0
    BY <1>2, <2>1, TaskEvent DEF Shape, State
  <2>3. Kept(st', record')
    BY <1>2, KeptByTask DEF Shape
  <2> QED
    BY <1>2, <2>2, <2>3, OneMoves DEF Shape
<1> QED
  BY <1>1, <1>2 DEF AppendThen

(* The leaf an executor is at is a task. *)
LEMMA MineIsTask ==
  ASSUME Shape, NEW x \in Executor
  PROVE  InPlace(ex[x]) /\ Mine(x) = Place(ex[x]) /\ Mine(x) \in Task
BY PlaceIsTask DEF Shape, Processes, Mine, Place

-----------------------------------------------------------------------------
(* No step of any executor leaves the shape. *)
LEMMA ShapeStep ==
  ASSUME Shape, [Next]_vars
  PROVE  Shape'
<1>1. CASE UNCHANGED vars
  BY <1>1 DEF vars, Shape
<1> SUFFICES ASSUME NEW x \in Executor, Work(x) \/ Crash(x)
             PROVE  Shape'
  BY <1>1 DEF Next
<1> DEFINE e == ex[x]
<1>e. InPlace(e) /\ Mine(x) \in Task /\ failures[Mine(x)] \in Nat
  BY MineIsTask DEF Shape
<1>t. ckpt \in Nat /\ trouble \in Nat /\ trouble + 1 \in Nat
  BY DEF Shape
<1>2. ASSUME NEW plan \in Plan, Start(x, plan) PROVE Shape'
  <2>1. Idle.leaf = 1 /\ 1 <= Leaves[plan]
    BY LeafFacts DEF Idle
  <2>2. InPlace([Idle EXCEPT !.pc = Entry(st.run), !.plan = plan])
    BY <2>1, IdleInPlace DEF InPlace, Process, Entry, Pc
  <2> QED
    BY <1>2, <2>2, StaysInShape DEF Start, durable, Shape
<1>3. CASE Resume(x)
  <2>1. InPlace([e EXCEPT !.pc = "stale"])
    BY <1>e DEF InPlace, Process, Pc
  <2> QED
    BY <1>3, <2>1, RunAppendInShape DEF Resume, RunKind
<1>4. CASE FindStale(x)
  <2>1. Unfinished(Stale(x)) \subseteq Task \X Unfin
    BY DEF Unfinished, Stale, Unfin
  <2>2. InPlace([e EXCEPT !.pc = "retire", !.back = "leaf", !.todo = Unfinished(Stale(x))])
    BY <1>e, <2>1 DEF InPlace, Process, Pc
  <2> QED
    BY <1>4, <2>2, StaysInShape DEF FindStale, durable, Shape
<1>5. CASE FindConflicts(x)
  <2> DEFINE todo == Unfinished({t \in Task : t.leaf = ex[x].leaf /\ t # Mine(x)})
  <2>1. todo \subseteq Task \X Unfin
    BY DEF Unfinished, Unfin
  <2> HIDE DEF todo
  <2>2. InPlace([e EXCEPT !.pc = "retire", !.back = "register", !.todo = todo])
    BY <1>e, <2>1 DEF InPlace, Process, Pc
  <2> QED
    BY <1>5, <2>2, StaysInShape DEF FindConflicts, durable, Shape, todo
<1>6. CASE Retire(x)
  <2>1. CASE Goto(x, e.back) /\ UNCHANGED <<st, trouble>>
    <3>1. InPlace([e EXCEPT !.pc = e.back])
      BY <1>e, <1>6 DEF InPlace, Process, Pc, Retire, At
    <3> QED
      BY <1>6, <2>1, <3>1, StaysInShape DEF Retire, Shape, Goto
  <2>2. ASSUME NEW item \in e.todo,
               LET next == [ex[x] EXCEPT !.pc = "record", !.task = item[1], !.out = "cancelled",
                                         !.todo = @ \ {item}]
               IN  IF item[2] = "registered"
                   THEN AppendThen(x, Bare("task.started", item[1]), next)
                   ELSE Become(x, next) /\ UNCHANGED <<st, trouble>>
        PROVE  Shape'
    <3> DEFINE next == [e EXCEPT !.pc = "record", !.task = item[1], !.out = "cancelled",
                                 !.todo = @ \ {item}]
               started == Bare("task.started", item[1])
    <3>1. item[1] \in Task
      BY <1>e DEF InPlace, Process
    <3>2. InPlace(next)
      BY <1>e, <1>6, <3>1 DEF InPlace, Process, Pc, Outcome, Retire, At
    <3>3. started \in Event /\ started.kind = "task.started"
      BY <3>1 DEF Bare, Event, TaskKind
    <3>4. IF item[2] = "registered" THEN AppendThen(x, started, next)
          ELSE Become(x, next) /\ UNCHANGED <<st, trouble>>
      BY <2>2
    <3>5. UNCHANGED <<record, failures, ckpt>> /\ failures \in [Task -> Nat] /\ ckpt \in Nat /\ trouble \in Nat
      BY <1>6 DEF Retire, Shape
    <3> HIDE DEF started, next
    <3>6. CASE AppendThen(x, started, next)
      BY <3>2, <3>3, <3>5, <3>6, TaskAppendInShape DEF TaskDeed
    <3>7. CASE Become(x, next) /\ UNCHANGED <<st, trouble>>
      BY <3>2, <3>5, <3>7, StaysInShape
    <3> QED
      BY <3>4, <3>6, <3>7
  <2> QED
    BY <1>6, <2>1, <2>2 DEF Retire
<1>7. CASE WriteRecord(x)
  <2>1. e.task \in Task /\ e.out \in Outcome
    BY <1>e DEF InPlace, Process
  <2>2. CASE Refused(x) /\ UNCHANGED record
    BY <1>7, <2>2, RefusedInShape DEF WriteRecord
  <2>3. CASE /\ st.tasks[e.task].status \in {"registered", "started"}
             /\ record' = [record EXCEPT ![e.task] = e.out]
             /\ Goto(x, "evidence") /\ UNCHANGED <<st, trouble>>
    <3>1. record' \in [Task -> Outcome \cup {"none"}]
      BY <2>1, <2>3 DEF Shape
    <3>2. Kept(st, record')
      BY <2>1, <2>3 DEF Kept, Shape
    <3>3. InPlace([e EXCEPT !.pc = "evidence"])
      BY <1>e, <1>7 DEF InPlace, Process, Pc, WriteRecord, At
    <3>4. Processes(ex')
      BY <2>3, <3>3, OneMoves DEF Goto, Shape
    <3> QED
      BY <1>7, <2>3, <3>1, <3>2, <3>4 DEF Shape, WriteRecord
  <2> QED
    BY <1>7, <2>2, <2>3 DEF WriteRecord
<1>p. e.task \in Task /\ e.out \in Outcome /\ Proof(x) \in SUBSET Binding
      /\ Proof(x) = {[src |-> e.task, dig |-> e.out]}
  BY <1>e, TaskAssumption DEF InPlace, Process, Proof, Binding
<1>8. CASE AppendEvidence(x)
  <2> DEFINE seen == [Bare("task.evidence", e.task) EXCEPT !.binds = Proof(x)]
  <2>1. seen \in Event /\ seen.kind = "task.evidence"
    BY <1>p DEF Bare, Event, TaskKind
  <2>2. InPlace([e EXCEPT !.pc = "complete"])
    BY <1>e, <1>8 DEF InPlace, Process, Pc, AppendEvidence, At
  <2>3. /\ AppendThen(x, seen, [e EXCEPT !.pc = "complete"])
        /\ UNCHANGED <<record, failures, ckpt>> /\ failures' \in [Task -> Nat]
    BY <1>8 DEF AppendEvidence, Shape
  <2> QED
    BY <2>1, <2>2, <2>3, TaskAppendInShape DEF TaskDeed
<1>9. CASE AppendCompleted(x)
  <2> DEFINE done == [Bare("task.completed", e.task) EXCEPT
                        !.commit = CHOOSE c \in Commit : TRUE, !.binds = Proof(x)]
             next == [e EXCEPT !.pc = IF e.back = "own" THEN "noted" ELSE "retire"]
  <2>1. (CHOOSE c \in Commit : TRUE) \in Commit
    BY InputAssumption
  <2>2. done \in Event /\ done.kind = "task.completed" /\ done.task = e.task /\ done.binds = Proof(x)
    BY <1>p, <2>1 DEF Bare, Event, TaskKind
  <2>3. InPlace(next)
    BY <1>e, <1>9 DEF InPlace, Process, Pc, AppendCompleted, At
  <2>4. UNCHANGED <<record, failures, ckpt>> /\ failures' \in [Task -> Nat]
    BY <1>9 DEF AppendCompleted, Shape
  <2>5. CASE Refused(x)
    BY <2>4, <2>5, RefusedInShape
  <2>6. CASE RecordMatches(x) /\ AppendThen(x, done, next)
    <3>1. record[e.task] \in Outcome /\ Proof(x) = {[src |-> e.task, dig |-> record[e.task]]}
      BY <1>p, <2>6 DEF RecordMatches
    <3> HIDE DEF done, next
    <3> QED
      BY <2>2, <2>3, <2>4, <2>6, <3>1, TaskAppendInShape DEF TaskDeed
  <2> QED
    BY <1>9, <2>5, <2>6 DEF AppendCompleted
<1>10. CASE CheckCancelled(x)
  <2>1. InPlace(ToEnd(x, "run.cancelled", TRUE))
    BY <1>e DEF InPlace, Process, Pc, ToEnd, RunEnd
  <2> QED
    BY <1>10, <2>1, StaysInShape DEF CheckCancelled, durable, Shape
<1>11. ASSUME NEW bind \in Planning, PlanLeaf(x, bind) PROVE Shape'
  <2>1. InPlace([e EXCEPT !.pc = "look", !.bind = bind])
    BY <1>e DEF InPlace, Process, Pc
  <2> QED
    BY <1>11, <2>1, StaysInShape DEF PlanLeaf, durable, Shape
<1>12. CASE Look(x)
  <2> DEFINE status == st.tasks[Mine(x)].status
             next == [e EXCEPT !.pc = AfterLook(status), !.task = Mine(x), !.back = "read",
                               !.out = IF status = "completed" THEN record[Mine(x)] ELSE @]
  <2>1. status = "completed" => record[Mine(x)] \in Outcome
    BY <1>e DEF Shape, Kept
  <2>2. AfterLook(status) \in {"conflict", "start", "count", "noted"}
    BY DEF AfterLook
  <2>3. InPlace(next)
    BY <1>e, <2>1, <2>2 DEF InPlace, Process, Pc
  <2>4. Become(x, next)
    BY <1>12 DEF Look
  <2> QED
    BY <1>12, <1>t, <2>3, <2>4, StaysInShape DEF Look, durable
<1>13. CASE Register(x)
  <2> DEFINE deed == Bare("task.registered", Mine(x))
  <2>1. deed \in Event /\ deed.kind = "task.registered"
    BY <1>e DEF Bare, Event, TaskKind
  <2>2. InPlace([e EXCEPT !.pc = "look"])
    BY <1>e DEF InPlace, Process, Pc
  <2>3. /\ AppendThen(x, deed, [e EXCEPT !.pc = "look"])
        /\ UNCHANGED <<record, failures, ckpt>> /\ failures' \in [Task -> Nat]
    BY <1>13 DEF Register, Shape
  <2> HIDE DEF deed
  <2> QED
    BY <2>1, <2>2, <2>3, TaskAppendInShape DEF TaskDeed
<1>14. CASE StartTask(x)
  <2> DEFINE deed == Bare("task.started", Mine(x))
  <2>1. deed \in Event /\ deed.kind = "task.started"
    BY <1>e DEF Bare, Event, TaskKind
  <2>2. InPlace([e EXCEPT !.pc = "count"])
    BY <1>e DEF InPlace, Process, Pc
  <2>3. /\ AppendThen(x, deed, [e EXCEPT !.pc = "count"])
        /\ UNCHANGED <<record, failures, ckpt>> /\ failures' \in [Task -> Nat]
    BY <1>14 DEF StartTask, Shape
  <2> HIDE DEF deed
  <2> QED
    BY <2>1, <2>2, <2>3, TaskAppendInShape DEF TaskDeed
<1>a. ASSUME NEW a \in Nat
      PROVE  InPlace([e EXCEPT !.pc = "attempt", !.attempt = a])
  BY <1>e DEF InPlace, Process, Pc
<1>15. CASE Count(x)
  <2>1. InPlace([e EXCEPT !.pc = "attempt", !.attempt = failures[Mine(x)] + 1])
    <3>1. failures[Mine(x)] + 1 \in Nat
      BY <1>e
    <3> QED
      BY <1>a, <3>1
  <2> QED
    BY <1>15, <2>1, StaysInShape DEF Count, durable, Shape
<1>16. CASE Invoke(x)
  <2>1. InPlace([e EXCEPT !.pc = "running"])
    BY <1>e DEF InPlace, Process, Pc
  <2> QED
    BY <1>16, <2>1, StaysInShape DEF Invoke, Goto, durable, Shape
<1>17. CASE Exhausted(x)
  BY <1>17, IdleInPlace, StaysInShape DEF Exhausted, durable, Shape
<1>18. ASSUME NEW out \in Outcome, Return(x, out) PROVE Shape'
  <2>1. InPlace([e EXCEPT !.pc = "retry"])
    BY <1>e DEF InPlace, Process, Pc
  <2>2. InPlace([e EXCEPT !.pc = "record", !.task = Mine(x), !.out = out, !.back = "own", !.todo = {}])
    BY <1>e DEF InPlace, Process, Pc
  <2> QED
    BY <1>18, <2>1, <2>2, StaysInShape DEF Return, durable, Shape
<1>19. CASE ReturnPause(x)
  <2>1. InPlace(ToEnd(x, "run.paused", TRUE))
    BY <1>e DEF InPlace, Process, Pc, ToEnd, RunEnd
  <2> QED
    BY <1>19, <1>t, <2>1, StaysInShape DEF ReturnPause, durable
<1>20. CASE ReturnInvalid(x)
  <2>1. InPlace(ToEnd(x, "run.failed", TRUE))
    BY <1>e DEF InPlace, Process, Pc, ToEnd, RunEnd
  <2> QED
    BY <1>20, <2>1, StaysInShape DEF ReturnInvalid, durable, Shape
<1>21. CASE ControlFails(x)
  <2>1. InPlace(ToEnd(x, "run.failed", TRUE))
    BY <1>e DEF InPlace, Process, Pc, ToEnd, RunEnd
  <2> QED
    BY <1>21, <2>1, StaysInShape DEF ControlFails, durable, Shape
<1>22. CASE Retry(x)
  <2> DEFINE seen == Bare("task.evidence", Mine(x))
             next == [e EXCEPT !.pc = "attempt", !.attempt = @ + 1]
  <2>1. seen \in Event /\ seen.kind = "task.evidence"
    BY <1>e DEF Bare, Event, TaskKind
  <2>2. InPlace(next)
    <3>1. e.attempt + 1 \in Nat
      BY <1>e DEF InPlace, Process
    <3> QED
      BY <1>a, <3>1
  <2>3. AppendThen(x, seen, next) /\ UNCHANGED <<record, ckpt>>
    BY <1>22 DEF Retry
  <2>4. failures' \in [Task -> Nat] /\ (~Legal(st, seen) => UNCHANGED failures)
    BY <1>e, <1>22 DEF Retry, Shape
  <2> HIDE DEF seen, next
  <2> QED
    BY <2>1, <2>2, <2>3, <2>4, TaskAppendInShape DEF TaskDeed
<1>23. CASE Note(x)
  <2>1. InPlace(ToEnd(x, "run.cancelled", FALSE)) /\ InPlace(ToEnd(x, "run.failed", FALSE))
    BY <1>e DEF InPlace, Process, Pc, ToEnd, RunEnd
  <2>2. InPlace(NextLeaf(x))
    <3>1. CASE e.leaf = Leaves[e.plan]
      BY <1>e, <3>1 DEF InPlace, Process, Pc, ToEnd, RunEnd, NextLeaf
    <3>2. CASE e.leaf # Leaves[e.plan]
      <4> DEFINE leaf == e.leaf + 1
                 ctx == Append(e.ctx, e.out)
      <4>1. leaf \in Leaf /\ leaf <= Leaves[e.plan] /\ e.leaf \in Nat
        <5>1. e.leaf \in Nat \ {0} /\ Leaves[e.plan] \in Nat /\ e.leaf <= Leaves[e.plan]
          BY <1>e, LeafFacts DEF InPlace, Process
        <5>2. leaf \in 1 .. Leaves[e.plan]
          BY <3>2, <5>1
        <5> QED
          BY <1>e, <5>1, <5>2, LeafFacts DEF InPlace, Process
      <4>2. ctx \in Seq(Outcome) /\ Len(ctx) = leaf - 1
        BY <1>e, <4>1 DEF InPlace, Process
      <4>3. NextLeaf(x) = [e EXCEPT !.pc = "leaf", !.leaf = leaf, !.ctx = ctx]
        BY <3>2 DEF NextLeaf
      <4> HIDE DEF leaf, ctx
      <4>4. InPlace([e EXCEPT !.pc = "leaf", !.leaf = leaf, !.ctx = ctx])
        BY <1>e, <4>1, <4>2 DEF InPlace, Process, Pc
      <4> QED
        BY <4>3, <4>4
    <3> QED
      BY <3>1, <3>2
  <2>3. ckpt' \in Nat
    BY <1>23 DEF Note, Shape, State
  <2> QED
    BY <1>23, <1>t, <2>1, <2>2, <2>3, StaysInShape DEF Note
<1>24. CASE EndLook(x)
  <2>1. InPlace([e EXCEPT !.pc = "end"]) /\ InPlace([e EXCEPT !.pc = "closing"])
    BY <1>e DEF InPlace, Process, Pc
  <2> QED
    BY <1>24, <2>1, IdleInPlace, StaysInShape DEF EndLook, After, durable, Shape
<1>25. CASE End(x)
  <2>1. InPlace([e EXCEPT !.pc = "closing"]) /\ e.end \in RunKind
    BY <1>e DEF InPlace, Process, Pc, RunEnd, RunKind
  <2>2. InPlace(After(x))
    BY <2>1, IdleInPlace DEF After
  <2> QED
    BY <1>25, <2>1, <2>2, RunAppendInShape DEF End
<1>26. CASE Close(x)
  BY <1>26, IdleInPlace, StaysInShape DEF Close, Shape, State
<1>27. CASE Crash(x)
  BY <1>27, IdleInPlace, StaysInShape DEF Crash, durable, Shape
<1> QED
  BY <1>2, <1>3, <1>4, <1>5, <1>6, <1>7, <1>8, <1>9, <1>10, <1>11, <1>12, <1>13, <1>14, <1>15,
     <1>16, <1>17, <1>18, <1>19, <1>20, <1>21, <1>22, <1>23, <1>24, <1>25, <1>26, <1>27
     DEF Work

(* A created run has the shape. *)
LEMMA InitShape == Init => Shape
<1> SUFFICES ASSUME Init PROVE Shape
  OBVIOUS
<1>1. NewRun \in State /\ NewRun.last = 0 /\ \A t \in Task : NewRun.tasks[t].status = "absent"
  BY DEF NewRun, State, Absent, TaskState, RunStatus, TaskStatus, Binding
<1>2. "run.created" \in RunKind
  BY DEF RunKind
<1>3. st \in State /\ st.last > 0 /\ \A t \in Task : st.tasks[t].status = "absent"
  BY <1>1, <1>2, RunEvent DEF Init
<1> QED
  BY <1>3, IdleInPlace DEF Init, Shape, Processes, Kept, Outcome

(* The shape is invariant. *)
LEMMA ShapeInvariant == Spec => []Shape
BY InitShape, ShapeStep, PTL DEF Spec

(* What the shape says of the types. *)
LEMMA ShapeTyped == Shape => TypeOK
<1> SUFFICES ASSUME Shape PROVE TypeOK
  OBVIOUS
<1>1. ASSUME NEW x \in Executor
      PROVE  /\ DOMAIN ex[x] = DOMAIN Idle
             /\ ex[x].pc \in Pc /\ ex[x].task \in Task /\ ex[x].out \in Outcome
             /\ ex[x].leaf \in Leaf /\ ex[x].attempt \in Nat
  <2>1. ex[x] \in Process /\ Idle \in Process
    BY IdleInPlace DEF Shape, Processes, InPlace
  <2>2. \A e \in Process : DOMAIN e = {"pc", "plan", "leaf", "ctx", "bind", "task", "out",
                                       "back", "attempt", "todo", "end", "close"}
    BY DEF Process
  <2> QED
    BY <2>1, <2>2 DEF Process
<1> QED
  BY <1>1 DEF Shape, Processes, TypeOK

(* And of what is read back. *)
LEMMA KeptReadsBack == Shape => CompletedReadsBack
BY DEF Shape, Kept, CompletedReadsBack

(* Processes, ledger, record files and checkpoint keep their types, with   *)
(* any number of executors on one run (workflow_execution.py as a whole).  *)
THEOREM Typing == Spec => []TypeOK
BY ShapeTyped, ShapeInvariant, PTL

(* Any number of executors may persist outcomes of one leaf: a completed   *)
(* leaf still binds what its record file holds, so that                    *)
(* _read_completed_outcome can read it back for ever.                      *)
THEOREM ReadBack == Spec => []CompletedReadsBack
BY KeptReadsBack, ShapeInvariant, PTL

-----------------------------------------------------------------------------
(* One executor: nobody else has begun. *)
Sole(x) == \A y \in Executor \ {x} : ex[y] = Idle

Status(s, t) == s.tasks[t].status

Busy == Pc \ {"idle", "resume", "closing"}
AtWork == {"count", "attempt", "running", "retry"}

(* What the executor found in the ledger before it got where it is still   *)
(* holds, and the attempt it counts is one more than the recorded ones.    *)
Knows(e, s, fails) ==
  /\ e.pc = "resume" => s.run = "paused"
  /\ e.pc \in Busy => s.run = "active"
  /\ e.pc \in AtWork => Status(s, Place(e)) = "started"
  /\ e.pc \in AtWork \ {"count"} => e.attempt = fails[Place(e)] + 1
  /\ e.pc = "retry" => e.attempt < MaxAttempts

Counted == \A t \in Task : failures[t] < MaxAttempts
Known == \A x \in Executor : Knows(ex[x], st, failures)

SoleInv == Shape /\ Counted /\ Known

(* An idle executor relies on nothing. *)
LEMMA IdleKnows == \A s, fails : Knows(Idle, s, fails)
BY IdleInPlace DEF Knows, Busy, AtWork

(* A process that goes on without the ledger. *)
LEMMA KnowsStill ==
  ASSUME NEW s \in State, NEW fails, NEW e, NEW n, Knows(e, s, fails),
         e.pc \in Busy, n.pc \notin AtWork, n.pc # "resume"
  PROVE  Knows(n, s, fails)
BY DEF Knows, AtWork

(* Only the executor itself moves. *)
LEMMA OneStays ==
  ASSUME NEW x \in Executor, Shape, Sole(x), Work(x) \/ Crash(x)
  PROVE  Sole(x)'
<1> DEFINE Moves == \E n : Become(x, n)
<1>a. ASSUME NEW d, NEW n, AppendThen(x, d, n) PROVE Moves
  BY <1>a DEF AppendThen, Refused
<1>1. Moves
  <2>1. ASSUME NEW plan \in Plan, Start(x, plan) PROVE Moves
    BY <2>1 DEF Start
  <2>2. ASSUME NEW bind \in Planning, PlanLeaf(x, bind) PROVE Moves
    BY <2>2 DEF PlanLeaf
  <2>3. ASSUME NEW out \in Outcome, Return(x, out) PROVE Moves
    BY <2>3 DEF Return
  <2>4. CASE Resume(x) \/ AppendEvidence(x) \/ Register(x) \/ StartTask(x) \/ Retry(x) \/ End(x)
    BY <1>a, <2>4 DEF Resume, AppendEvidence, Register, StartTask, Retry, End
  <2>5. CASE AppendCompleted(x) \/ WriteRecord(x)
    BY <1>a, <2>5 DEF AppendCompleted, WriteRecord, Refused, Goto
  <2>6. CASE FindStale(x) \/ FindConflicts(x) \/ CheckCancelled(x) \/ Look(x) \/ Count(x)
    BY <2>6 DEF FindStale, FindConflicts, CheckCancelled, Look, Count
  <2>7. CASE Invoke(x) \/ Exhausted(x) \/ ReturnPause(x) \/ ReturnInvalid(x) \/ ControlFails(x)
    BY <2>7 DEF Invoke, Exhausted, ReturnPause, ReturnInvalid, ControlFails, Goto
  <2>8. CASE Note(x) \/ EndLook(x) \/ Close(x) \/ Crash(x)
    BY <2>8 DEF Note, EndLook, Close, Crash
  <2>9. CASE Retire(x)
    <3>1. CASE ex[x].todo = {} /\ Goto(x, ex[x].back)
      BY <3>1 DEF Goto
    <3>2. ASSUME NEW item \in ex[x].todo, NEW n, AppendThen(x, Bare("task.started", item[1]), n) \/ Become(x, n)
          PROVE  Moves
      BY <1>a, <3>2
    <3> QED
      BY <2>9, <3>1, <3>2 DEF Retire
  <2> HIDE DEF Moves
  <2> QED
    BY <2>1, <2>2, <2>3, <2>4, <2>5, <2>6, <2>7, <2>8, <2>9 DEF Work
<1>2. PICK n : Become(x, n)
  BY <1>1
<1> QED
  BY <1>2 DEF Become, Sole, Shape, Processes

(* One executor's steps keep what it knows and bound the attempts. *)
LEMMA SoleStep ==
  ASSUME NEW x \in Executor, Sole(x), SoleInv, Work(x) \/ Crash(x)
  PROVE  Counted' /\ Known' /\ Sole(x)'
<1> DEFINE e == ex[x]
<1>p. Shape'
  BY ShapeStep DEF SoleInv, Next
<1>k. Knows(e, st, failures) /\ Counted /\ Shape
  BY DEF SoleInv, Known
<1>o. Sole(x)'
  BY OneStays DEF SoleInv
<1>m. ex'[x] \in Process /\ \A y \in Executor : y = x \/ ex'[y] = Idle
  BY <1>o, <1>p DEF Shape, Processes, InPlace, Sole
<1>e. Mine(x) = Place(e) /\ Mine(x) \in Task /\ e.pc \in Pc /\ x \in DOMAIN ex /\ st \in State
      /\ e \in Process
  BY <1>k, MineIsTask DEF InPlace, Process, Shape, Processes
<1> DEFINE Goal == Counted' /\ Knows(ex'[x], st', failures')
<1> SUFFICES Goal
  BY <1>m, <1>o, IdleKnows DEF Known
<1>c. ASSUME UNCHANGED failures PROVE Counted'
  BY <1>c, <1>k DEF Counted
<1>n. ASSUME NEW n, Become(x, n), UNCHANGED failures, Knows(n, st', failures)
      PROVE  Goal
  BY <1>c, <1>e, <1>n DEF Become
<1>i. ASSUME Become(x, Idle), UNCHANGED failures
      PROVE  Goal
  BY <1>i, <1>n, IdleKnows
<1>s. ASSUME NEW n, Become(x, n), UNCHANGED <<st, failures>>,
             e.pc \in Busy, n.pc \notin AtWork, n.pc # "resume"
      PROVE  Goal
  BY <1>e, <1>k, <1>n, <1>s, KnowsStill
(* A task event of the engine leaves the run as it is. *)
<1>t. ASSUME NEW d \in Event, d.kind \in TaskKind, NEW n, AppendThen(x, d, n),
             UNCHANGED failures, e.pc \in Busy, n.pc \notin AtWork, n.pc # "resume"
      PROVE  Goal
  <2>1. CASE Refused(x)
    BY <1>i, <1>t, <2>1 DEF Refused
  <2>2. CASE st' = Apply(st, d) /\ Become(x, n)
    <3>1. st'.run = "active"
      BY <1>k, <1>t, <1>e, <2>2, TaskEvent DEF Knows
    <3>2. Knows(n, st', failures)
      BY <1>t, <3>1 DEF Knows, AtWork
    <3> QED
      BY <1>n, <1>t, <2>2, <3>2
  <2> QED
    BY <1>t, <2>1, <2>2 DEF AppendThen
<1> HIDE DEF Goal
<1>2. ASSUME NEW plan \in Plan, Start(x, plan) PROVE Goal
  <2> DEFINE n == [Idle EXCEPT !.pc = Entry(st.run), !.plan = plan]
  <2>1. /\ Become(x, n) /\ UNCHANGED <<st, failures>>
        /\ st.run \in {"active", "paused"}
    BY <1>2 DEF Start, durable
  <2>2. n.pc = Entry(st.run)
    BY IdleInPlace DEF InPlace, Process
  <2> HIDE DEF n
  <2>3. Knows(n, st, failures)
    BY <2>1, <2>2 DEF Knows, Entry, Busy, AtWork
  <2> QED
    BY <1>n, <2>1, <2>3
<1>3. CASE Resume(x)
  <2> DEFINE n == [e EXCEPT !.pc = "stale"]
             resumed == Bare("run.resumed", NoTask)
  <2>1. n.pc = "stale" /\ AppendThen(x, resumed, n) /\ UNCHANGED failures
    BY <1>3, <1>e DEF Resume, Process
  <2>2. "run.resumed" \in RunKind /\ RunAfter(st.run, "run.resumed") = "active"
    BY DEF RunKind, RunAfter
  <2>3. Apply(st, resumed).run = "active"
    BY <1>e, <2>2, RunEvent
  <2> HIDE DEF n, resumed
  <2>4. CASE Refused(x)
    BY <1>i, <2>1, <2>4 DEF Refused
  <2>5. CASE st' = Apply(st, resumed) /\ Become(x, n)
    <3>1. Knows(n, st', failures)
      BY <2>1, <2>3, <2>5 DEF Knows, AtWork
    <3> QED
      BY <1>n, <2>1, <2>5, <3>1
  <2> QED
    BY <2>1, <2>4, <2>5 DEF AppendThen
<1>4. CASE FindStale(x)
  <2> DEFINE n == [e EXCEPT !.pc = "retire", !.back = "leaf", !.todo = Unfinished(Stale(x))]
  <2>1. n.pc = "retire" /\ e.pc \in Busy /\ Become(x, n) /\ UNCHANGED <<st, failures>>
    BY <1>4, <1>e DEF FindStale, Process, Busy, At, durable, Pc
  <2> QED
    BY <1>s, <2>1 DEF AtWork
<1>5. CASE FindConflicts(x)
  <2> DEFINE n == [e EXCEPT !.pc = "retire", !.back = "register",
                   !.todo = Unfinished({t \in Task : t.leaf = e.leaf /\ t # Mine(x)})]
  <2>1. n.pc = "retire" /\ e.pc = "conflict" /\ Become(x, n) /\ UNCHANGED <<st, failures>>
    BY <1>5, <1>e DEF FindConflicts, Process, At, durable
  <2> QED
    BY <1>s, <2>1 DEF AtWork, Busy, Pc
<1>6. CASE Retire(x)
  <2>0. e.pc = "retire" /\ e.pc \in Busy /\ UNCHANGED failures
    BY <1>6, <1>e DEF Retire, At, Busy, Pc
  <2>1. CASE Goto(x, e.back) /\ UNCHANGED <<st, trouble>>
    <3> DEFINE n == [e EXCEPT !.pc = e.back]
    <3>1. n.pc \in {"leaf", "register"} /\ Become(x, n)
      BY <1>k, <2>0, <2>1, MineIsTask DEF Goto, InPlace, Process
    <3> QED
      BY <1>s, <2>0, <2>1, <3>1 DEF AtWork
  <2>2. ASSUME NEW item \in e.todo,
               LET next == [ex[x] EXCEPT !.pc = "record", !.task = item[1], !.out = "cancelled",
                                         !.todo = @ \ {item}]
               IN  IF item[2] = "registered"
                   THEN AppendThen(x, Bare("task.started", item[1]), next)
                   ELSE Become(x, next) /\ UNCHANGED <<st, trouble>>
        PROVE  Goal
    <3> DEFINE n == [e EXCEPT !.pc = "record", !.task = item[1], !.out = "cancelled",
                              !.todo = @ \ {item}]
               started == Bare("task.started", item[1])
    <3>1. item[1] \in Task /\ n.pc = "record" /\ n.pc \notin AtWork /\ n.pc # "resume"
      BY <1>e DEF Process, AtWork
    <3>2. started \in Event /\ started.kind \in TaskKind
      BY <3>1 DEF Bare, Event, TaskKind
    <3>3. IF item[2] = "registered" THEN AppendThen(x, started, n)
          ELSE Become(x, n) /\ UNCHANGED <<st, trouble>>
      BY <2>2
    <3> HIDE DEF n, started
    <3>4. CASE AppendThen(x, started, n)
      BY <1>t, <2>0, <3>1, <3>2, <3>4
    <3>5. CASE Become(x, n) /\ UNCHANGED <<st, trouble>>
      BY <1>s, <2>0, <3>1, <3>5
    <3> QED
      BY <3>3, <3>4, <3>5
  <2> QED
    BY <1>6, <2>1, <2>2 DEF Retire
<1>7. CASE WriteRecord(x)
  <2> DEFINE n == [e EXCEPT !.pc = "evidence"]
  <2>1. n.pc = "evidence" /\ e.pc = "record" /\ UNCHANGED failures
    BY <1>7, <1>e DEF WriteRecord, At, Process
  <2>2. (Become(x, n) /\ UNCHANGED st) \/ Refused(x)
    BY <1>7 DEF WriteRecord, Goto
  <2> HIDE DEF n
  <2> QED
    BY <1>i, <1>s, <2>1, <2>2 DEF AtWork, Busy, Pc, Refused
<1>q. Proof(x) \in SUBSET Binding /\ e.task \in Task
  BY <1>e, TaskAssumption DEF Process, Proof, Binding
<1>8. CASE AppendEvidence(x)
  <2> DEFINE n == [e EXCEPT !.pc = "complete"]
             seen == [Bare("task.evidence", e.task) EXCEPT !.binds = Proof(x)]
  <2>1. n.pc = "complete" /\ e.pc = "evidence" /\ UNCHANGED failures /\ AppendThen(x, seen, n)
    BY <1>8, <1>e DEF AppendEvidence, At, Process
  <2>2. seen \in Event /\ seen.kind \in TaskKind
    BY <1>q DEF Bare, Event, TaskKind
  <2> HIDE DEF n, seen
  <2> QED
    BY <1>t, <2>1, <2>2 DEF AtWork, Busy, Pc
<1>9. CASE AppendCompleted(x)
  <2> DEFINE n == [e EXCEPT !.pc = IF e.back = "own" THEN "noted" ELSE "retire"]
             done == [Bare("task.completed", e.task) EXCEPT
                        !.commit = CHOOSE c \in Commit : TRUE, !.binds = Proof(x)]
  <2>1. n.pc \in {"noted", "retire"} /\ e.pc = "complete" /\ UNCHANGED failures
    BY <1>9, <1>e DEF AppendCompleted, At, Process
  <2>2. AppendThen(x, done, n) \/ Refused(x)
    BY <1>9 DEF AppendCompleted
  <2>3. (CHOOSE c \in Commit : TRUE) \in Commit
    BY InputAssumption
  <2>4. done \in Event /\ done.kind \in TaskKind
    BY <1>q, <2>3 DEF Bare, Event, TaskKind
  <2> HIDE DEF n, done
  <2>5. CASE Refused(x)
    BY <1>i, <2>1, <2>5 DEF Refused
  <2>6. CASE AppendThen(x, done, n)
    BY <1>t, <2>1, <2>4, <2>6 DEF AtWork, Busy, Pc
  <2> QED
    BY <2>2, <2>5, <2>6
<1>10. CASE CheckCancelled(x)
  <2> DEFINE n == ToEnd(x, "run.cancelled", TRUE)
  <2>1. n.pc = "ending" /\ e.pc \in {"leaf", "attempt"} /\ Become(x, n) /\ UNCHANGED <<st, failures>>
    BY <1>10, <1>e DEF CheckCancelled, ToEnd, Process, At, durable
  <2> QED
    BY <1>s, <2>1 DEF AtWork, Busy, Pc
<1>11. ASSUME NEW bind \in Planning, PlanLeaf(x, bind) PROVE Goal
  <2> DEFINE n == [e EXCEPT !.pc = "look", !.bind = bind]
  <2>1. n.pc = "look" /\ e.pc = "leaf" /\ Become(x, n) /\ UNCHANGED <<st, failures>>
    BY <1>11, <1>e DEF PlanLeaf, Process, At, durable
  <2> QED
    BY <1>s, <2>1 DEF AtWork, Busy, Pc
<1>12. CASE Look(x)
  <2> DEFINE status == st.tasks[Mine(x)].status
             n == [e EXCEPT !.pc = AfterLook(status), !.task = Mine(x), !.back = "read",
                            !.out = IF status = "completed" THEN record[Mine(x)] ELSE @]
  <2>1. n.pc = AfterLook(status) /\ Place(n) = Place(e) /\ e.pc = "look"
    BY <1>12, <1>e DEF Look, At, Process, Place
  <2>2. Become(x, n) /\ UNCHANGED <<st, failures>>
    BY <1>12 DEF Look, durable
  <2> HIDE DEF n
  <2>3. st.run = "active"
    BY <1>k, <2>1 DEF Knows, Busy, Pc
  <2>4. Knows(n, st, failures)
    BY <1>e, <2>1, <2>3 DEF Knows, AfterLook, AtWork, Status
  <2> QED
    BY <1>n, <2>2, <2>4
<1>13. CASE Register(x)
  <2> DEFINE n == [e EXCEPT !.pc = "look"]
             deed == Bare("task.registered", Mine(x))
  <2>1. n.pc = "look" /\ e.pc = "register" /\ UNCHANGED failures /\ AppendThen(x, deed, n)
    BY <1>13, <1>e DEF Register, At, Process
  <2>2. deed \in Event /\ deed.kind \in TaskKind
    BY <1>e DEF Bare, Event, TaskKind
  <2> HIDE DEF n, deed
  <2> QED
    BY <1>t, <2>1, <2>2 DEF AtWork, Busy, Pc
<1>14. CASE StartTask(x)
  <2> DEFINE n == [e EXCEPT !.pc = "count"]
             deed == Bare("task.started", Mine(x))
  <2>1. n.pc = "count" /\ e.pc = "start" /\ UNCHANGED failures /\ AppendThen(x, deed, n)
        /\ Place(n) = Mine(x)
    BY <1>14, <1>e DEF StartTask, At, Process, Place
  <2>2. deed \in Event /\ deed.kind = "task.started" /\ deed.kind \in TaskKind /\ deed.task = Mine(x)
    BY <1>e DEF Bare, Event, TaskKind
  <2> HIDE DEF n, deed
  <2>3. CASE Refused(x)
    BY <1>i, <2>1, <2>3 DEF Refused
  <2>4. CASE Legal(st, deed) /\ st' = Apply(st, deed) /\ Become(x, n)
    <3>1. st'.run = "active"
      BY <1>e, <1>k, <2>1, <2>2, <2>4, TaskEvent DEF Knows, Busy, Pc
    <3>2. Status(st', Mine(x)) = "started"
      BY <1>e, <2>2, <2>4, DeedStatus DEF Status, TaskDeed
    <3>3. Knows(n, st', failures)
      BY <2>1, <3>1, <3>2 DEF Knows, AtWork
    <3> QED
      BY <1>n, <2>1, <2>4, <3>3
  <2> QED
    BY <2>1, <2>3, <2>4 DEF AppendThen
<1>15. CASE Count(x)
  <2> DEFINE n == [e EXCEPT !.pc = "attempt", !.attempt = failures[Mine(x)] + 1]
  <2>1. n.pc = "attempt" /\ e.pc = "count" /\ Become(x, n) /\ UNCHANGED <<st, failures>>
        /\ n.attempt = failures[Place(e)] + 1 /\ Place(n) = Place(e)
    BY <1>15, <1>e DEF Count, Process, At, durable, Pc, Place
  <2> HIDE DEF n
  <2>2. Knows(n, st, failures)
    BY <1>k, <2>1 DEF Knows, Busy, AtWork, Pc
  <2> QED
    BY <1>n, <2>1, <2>2
<1>16. CASE Invoke(x)
  <2> DEFINE n == [e EXCEPT !.pc = "running"]
  <2>1. n.pc = "running" /\ e.pc = "attempt" /\ Become(x, n) /\ UNCHANGED <<st, failures>>
        /\ n.attempt = e.attempt /\ Place(n) = Place(e)
    BY <1>16, <1>e DEF Invoke, Goto, Process, At, durable, Place
  <2> HIDE DEF n
  <2>2. Knows(n, st, failures)
    BY <1>k, <2>1 DEF Knows, Busy, AtWork, Pc
  <2> QED
    BY <1>n, <2>1, <2>2
<1>17. CASE Exhausted(x)
  BY <1>17, <1>i DEF Exhausted, durable
<1>18. ASSUME NEW out \in Outcome, Return(x, out) PROVE Goal
  <2> DEFINE again == [e EXCEPT !.pc = "retry"]
             over == [e EXCEPT !.pc = "record", !.task = Mine(x), !.out = out,
                               !.back = "own", !.todo = {}]
  <2>1. /\ again.pc = "retry" /\ again.attempt = e.attempt /\ Place(again) = Place(e)
        /\ over.pc = "record" /\ e.pc = "running" /\ UNCHANGED <<st, failures>>
    BY <1>18, <1>e DEF Return, Process, At, durable, Place
  <2>2. \/ e.attempt < MaxAttempts /\ Become(x, again)
        \/ Become(x, over)
    BY <1>18 DEF Return, Retries
  <2> HIDE DEF again, over
  <2>3. CASE Become(x, over)
    BY <1>s, <2>1, <2>3 DEF AtWork, Busy, Pc
  <2>4. CASE e.attempt < MaxAttempts /\ Become(x, again)
    <3>1. Knows(again, st, failures)
      BY <1>k, <2>1, <2>4 DEF Knows, Busy, AtWork, Pc
    <3> QED
      BY <1>n, <2>1, <2>4, <3>1
  <2> QED
    BY <2>2, <2>3, <2>4
<1>19. CASE ReturnPause(x)
  <2> DEFINE n == ToEnd(x, "run.paused", TRUE)
  <2>1. n.pc = "ending" /\ e.pc = "running" /\ Become(x, n) /\ UNCHANGED <<st, failures>>
    BY <1>19, <1>e DEF ReturnPause, ToEnd, Process, At, durable
  <2> QED
    BY <1>s, <2>1 DEF AtWork, Busy, Pc
<1>20. CASE ReturnInvalid(x)
  <2> DEFINE n == ToEnd(x, "run.failed", TRUE)
  <2>1. n.pc = "ending" /\ e.pc = "running" /\ Become(x, n) /\ UNCHANGED <<st, failures>>
    BY <1>20, <1>e DEF ReturnInvalid, ToEnd, Process, At, durable
  <2> QED
    BY <1>s, <2>1 DEF AtWork, Busy, Pc
<1>21. CASE ControlFails(x)
  <2> DEFINE n == ToEnd(x, "run.failed", TRUE)
  <2>1. n.pc = "ending" /\ e.pc \in {"leaf", "ending"} /\ Become(x, n) /\ UNCHANGED <<st, failures>>
    BY <1>21, <1>e DEF ControlFails, ToEnd, Process, At, durable
  <2> QED
    BY <1>s, <2>1 DEF AtWork, Busy, Pc
<1>22. CASE Retry(x)
  <2> DEFINE n == [e EXCEPT !.pc = "attempt", !.attempt = @ + 1]
             seen == Bare("task.evidence", Mine(x))
  <2>1. n.pc = "attempt" /\ n.attempt = e.attempt + 1 /\ Place(n) = Mine(x) /\ e.pc = "retry"
    BY <1>22, <1>e DEF Retry, Process, At, Place
  <2>2. AppendThen(x, seen, n)
        /\ failures' = IF Legal(st, seen) THEN [failures EXCEPT ![Mine(x)] = @ + 1] ELSE failures
    BY <1>22 DEF Retry
  <2>3. seen \in Event /\ seen.kind = "task.evidence" /\ seen.kind \in TaskKind /\ seen.task = Mine(x)
    BY <1>e DEF Bare, Event, TaskKind
  <2>4. /\ e.attempt = failures[Mine(x)] + 1 /\ e.attempt < MaxAttempts
        /\ st.run = "active" /\ failures \in [Task -> Nat]
    BY <1>e, <1>k, <2>1 DEF Knows, Busy, AtWork, Pc, Shape
  <2> HIDE DEF n, seen
  <2>5. CASE ~Legal(st, seen) /\ Refused(x)
    BY <1>i, <2>2, <2>5 DEF Refused
  <2>6. CASE Legal(st, seen) /\ st' = Apply(st, seen) /\ Become(x, n)
    <3>1. st'.run = "active" /\ Status(st', Mine(x)) = "started"
      BY <1>e, <2>3, <2>4, <2>6, TaskEvent, DeedStatus DEF Status, TaskDeed
    <3>2. failures' = [failures EXCEPT ![Mine(x)] = failures[Mine(x)] + 1]
      BY <2>2, <2>6
    <3>3. failures'[Mine(x)] = failures[Mine(x)] + 1 /\ failures[Mine(x)] \in Nat
      BY <1>e, <2>4, <3>2
    <3>4. Counted'
      BY <1>e, <1>k, <2>4, <3>2, <3>3 DEF Counted
    <3>5. n.attempt = failures'[Mine(x)] + 1
      BY <2>1, <2>4, <3>3
    <3>6. Knows(n, st', failures')
      BY <2>1, <3>1, <3>5 DEF Knows, AtWork
    <3>7. ex'[x] = n
      BY <1>e, <2>6 DEF Become
    <3> QED
      BY <3>4, <3>6, <3>7 DEF Goal
  <2> QED
    BY <2>2, <2>5, <2>6 DEF AppendThen
<1>23. CASE Note(x)
  <2> DEFINE n == CASE Cancels(x) -> ToEnd(x, "run.cancelled", FALSE)
                    [] Fails(x)   -> ToEnd(x, "run.failed", FALSE)
                    [] OTHER      -> NextLeaf(x)
  <2>1. e.pc = "noted" /\ Become(x, n) /\ UNCHANGED <<st, failures>>
    BY <1>23 DEF Note, At
  <2>2. n.pc \in {"ending", "leaf"}
    BY <1>e DEF ToEnd, NextLeaf, Process
  <2> HIDE DEF n
  <2> QED
    BY <1>s, <2>1, <2>2 DEF AtWork, Busy, Pc
<1>a. After(x) = Idle \/ (After(x).pc = "closing" /\ \A s, f : Knows(After(x), s, f))
  BY <1>e DEF After, Process, Knows, AtWork, Busy
<1>24. CASE EndLook(x)
  <2> DEFINE n == [e EXCEPT !.pc = "end"]
  <2>1. /\ n.pc = "end" /\ e.pc = "ending" /\ UNCHANGED <<st, failures>>
        /\ Become(x, n) \/ Become(x, After(x))
    BY <1>24, <1>e DEF EndLook, At, Process, durable
  <2> HIDE DEF n
  <2>2. CASE Become(x, n)
    BY <1>s, <2>1, <2>2 DEF AtWork, Busy, Pc
  <2>3. CASE Become(x, After(x))
    BY <1>a, <1>i, <1>n, <2>1, <2>3
  <2> QED
    BY <2>1, <2>2, <2>3
<1>25. CASE End(x)
  <2>1. UNCHANGED failures /\ (Become(x, After(x)) \/ Become(x, Idle))
    BY <1>25 DEF End, AppendThen, Refused
  <2> QED
    BY <1>a, <1>i, <1>n, <2>1
<1>26. CASE Close(x)
  BY <1>26, <1>i DEF Close
<1>27. CASE Crash(x)
  BY <1>27, <1>i DEF Crash, durable
<1> QED
  BY <1>2, <1>3, <1>4, <1>5, <1>6, <1>7, <1>8, <1>9, <1>10, <1>11, <1>12, <1>13, <1>14, <1>15,
     <1>16, <1>17, <1>18, <1>19, <1>20, <1>21, <1>22, <1>23, <1>24, <1>25, <1>26, <1>27
     DEF Work

-----------------------------------------------------------------------------
OneBinding == \A b, c \in Planning : b = c

Retiring == {"record", "evidence", "complete"}

(* Tasks at the same place of a plan are the same task. *)
OnePerPlace(s) ==
  \A t, u \in Task :
    Status(s, t) # "absent" /\ Status(s, u) # "absent" /\ t.plan = u.plan /\ t.leaf = u.leaf => t = u

(* The outcome of leaf n of a plan is recorded. *)
Done(s, rec, plan, n, out) ==
  \E u \in Task : u.plan = plan /\ u.leaf = n /\ Status(s, u) = "completed" /\ rec[u] = out

Path(s, rec, p) == \A n \in 1 .. (p.leaf - 1) : Done(s, rec, p.plan, n, p.ctx[n])

Grounded(s, rec) == \A t \in Task : Status(s, t) # "absent" => Path(s, rec, t)

(* Tasks of other plans the executor still has to retire. *)
Pending(e, t) ==
  \/ e.pc \in {"idle", "resume", "stale", "closing"}
  \/ /\ e.back = "leaf"
     /\ \/ e.pc \in Retiring \cup {"retire"} /\ \E i \in e.todo : i[1] = t
        \/ e.pc \in Retiring /\ e.task = t

Finished(e, s, rec) ==
  /\ e.pc \in Retiring /\ e.back = "own" => e.task = Place(e)
  /\ e.pc = "noted" => Status(s, Place(e)) = "completed" /\ rec[Place(e)] = e.out
  /\ e.pc \in {"ending", "end"} /\ e.end = "run.completed" =>
       e.leaf = Leaves[e.plan] /\ Status(s, Place(e)) = "completed"

Foreign(e, s) ==
  \A t \in Task : Status(s, t) \in Unfin /\ t.plan # e.plan => Pending(e, t)

Follows(e, s, rec) == Path(s, rec, e) /\ Finished(e, s, rec) /\ Foreign(e, s)

Placed == OnePerPlace(st) /\ Grounded(st, record)
PlaceInv == Placed /\ \A x \in Executor : Follows(ex[x], st, record)

(* What was there stays, and what was recorded stays recorded. *)
Later(s, rec, s2, rec2) ==
  \A t \in Task :
    /\ Status(s2, t) = "absent" <=> Status(s, t) = "absent"
    /\ Status(s, t) = "completed" => Status(s2, t) = "completed" /\ rec2[t] = rec[t]
    /\ Status(s2, t) \in Unfin => Status(s, t) \in Unfin

(* Recorded outcomes stay recorded. *)
LEMMA PathLater ==
  ASSUME NEW s, NEW rec, NEW s2, NEW rec2, Later(s, rec, s2, rec2), NEW p, Path(s, rec, p)
  PROVE  Path(s2, rec2, p)
BY DEF Later, Path, Done

(* No place gets a second task while no task is registered. *)
LEMMA PlacesLater ==
  ASSUME NEW s, NEW rec, NEW s2, NEW rec2, Later(s, rec, s2, rec2),
         OnePerPlace(s), Grounded(s, rec)
  PROVE  OnePerPlace(s2) /\ Grounded(s2, rec2)
<1>1. OnePerPlace(s2)
  BY DEF Later, OnePerPlace
<1>2. Grounded(s2, rec2)
  BY PathLater DEF Later, Grounded
<1> QED
  BY <1>1, <1>2

(* The path to a place depends on the place alone. *)
LEMMA PathSame ==
  ASSUME NEW s, NEW rec, NEW p, NEW q, Path(s, rec, p),
         q.plan = p.plan, q.leaf = p.leaf, q.ctx = p.ctx
  PROVE  Path(s, rec, q)
BY DEF Path

(* What an executor at the same place follows, it still follows. *)
LEMMA FollowsLater ==
  ASSUME NEW s, NEW rec, NEW s2, NEW rec2, Later(s, rec, s2, rec2),
         NEW e, NEW n, Follows(e, s, rec),
         n.plan = e.plan, n.leaf = e.leaf, n.ctx = e.ctx, Finished(n, s2, rec2),
         \A t \in Task : Status(s2, t) \in Unfin /\ Pending(e, t) => Pending(n, t)
  PROVE  Follows(n, s2, rec2)
<1>1. Path(s2, rec2, n)
  BY PathLater, PathSame DEF Follows
<1>2. Foreign(n, s2)
  BY DEF Follows, Foreign, Later
<1> QED
  BY <1>1, <1>2 DEF Follows

(* Nothing happens. *)
LEMMA LaterSame == \A s, rec : Later(s, rec, s, rec)
BY DEF Later

(* An event about the run. *)
LEMMA LaterRun ==
  ASSUME NEW s \in State, NEW rec, NEW kind \in RunKind
  PROVE  Later(s, rec, Apply(s, Bare(kind, NoTask)), rec)
BY RunEvent DEF Later, Status

(* An event about a task that is there. *)
LEMMA LaterDeed ==
  ASSUME NEW s \in State, NEW rec, NEW d \in Event, Legal(s, d),
         d.kind \in {"task.started", "task.evidence", "task.completed"}
  PROVE  Later(s, rec, Apply(s, d), rec)
<1>1. d.kind \in TaskKind /\ d.kind \in TaskDeed
  BY DEF TaskKind, TaskDeed
<1>2. d.task \in Task /\ \A t \in Task : t # d.task => Apply(s, d).tasks[t] = s.tasks[t]
  BY <1>1, TaskEvent
<1>3. /\ Status(s, d.task) \in Unfin
      /\ Status(Apply(s, d), d.task) # "absent"
  BY <1>1, DeedStatus DEF Status, Unfin
<1> QED
  BY <1>2, <1>3 DEF Later, Status, Unfin

(* The record file of an unfinished task is written. *)
LEMMA LaterRecord ==
  ASSUME NEW s \in State, NEW rec, NEW rec2, NEW t \in Task, Status(s, t) \in Unfin,
         \A u \in Task : u # t => rec2[u] = rec[u]
  PROVE  Later(s, rec, s, rec2)
BY DEF Later, Unfin

(* An idle executor has nothing to follow. *)
LEMMA IdleFollows == \A s, rec : Follows(Idle, s, rec)
<1>1. Idle.leaf = 1 /\ Idle.pc = "idle"
  BY DEF Idle
<1> QED
  BY <1>1 DEF Follows, Path, Finished, Foreign, Pending, Retiring

(* A task at the place an executor has reached is the one it reads itself: *)
(* both have the recorded outcomes before them, and there is one binding.  *)
LEMMA SamePlace ==
  ASSUME NEW s, NEW rec, OneBinding, OnePerPlace(s), Grounded(s, rec),
         NEW e, InPlace(e), Path(s, rec, e),
         NEW t \in Task, Status(s, t) # "absent", t.plan = e.plan, t.leaf = e.leaf
  PROVE  t = Place(e)
<1>1. PICK k \in Leaf : t \in [plan : Plan, leaf : {k}, ctx : [1 .. (k - 1) -> Outcome], bind : Planning]
  BY TaskAssumption DEF LeafTask
<1>2. /\ e.leaf = k /\ k \in Nat /\ t.ctx \in [1 .. (k - 1) -> Outcome] /\ t.bind \in Planning
      /\ t = [plan |-> t.plan, leaf |-> t.leaf, ctx |-> t.ctx, bind |-> t.bind]
  BY <1>1, LeafFacts
<1>3. e.ctx \in [1 .. (k - 1) -> Outcome] /\ e.bind \in Planning
  BY <1>2 DEF InPlace, Process
<1>4. ASSUME NEW n \in 1 .. (k - 1) PROVE t.ctx[n] = e.ctx[n]
  <2>1. Done(s, rec, e.plan, n, t.ctx[n])
    BY <1>2, <1>4 DEF Grounded, Path
  <2>2. Done(s, rec, e.plan, n, e.ctx[n])
    BY <1>2, <1>4 DEF Path
  <2> QED
    BY <2>1, <2>2 DEF Done, OnePerPlace
<1>5. t.ctx = e.ctx
  BY <1>2, <1>3, <1>4
<1> QED
  BY <1>2, <1>3, <1>5 DEF Place, OneBinding

(* A task registered at a place nothing is registered at. *)
LEMMA RegisterPlaces ==
  ASSUME NEW s \in State, NEW rec, NEW d \in Event, Legal(s, d), d.kind = "task.registered",
         OnePerPlace(s), Grounded(s, rec), OneBinding,
         NEW e, InPlace(e), d.task = Place(e), Path(s, rec, e)
  PROVE  LET a == Apply(s, d) IN
         /\ OnePerPlace(a) /\ Grounded(a, rec) /\ Path(a, rec, e)
         /\ \A t \in Task : t # Place(e) => Status(a, t) = Status(s, t)
<1> DEFINE a == Apply(s, d)
           m == Place(e)
<1>1. d.kind \in TaskKind /\ d.kind \in TaskDeed
  BY DEF TaskKind, TaskDeed
<1>2. m \in Task /\ \A t \in Task : t # m => Status(a, t) = Status(s, t)
  BY <1>1, TaskEvent, PlaceIsTask DEF Status
<1>3. Status(s, m) = "absent" /\ Status(a, m) = "registered"
  BY <1>1, DeedStatus DEF Status
<1>4. \A p : Path(s, rec, p) => Path(a, rec, p)
  BY <1>2, <1>3 DEF Path, Done
<1>5. Path(a, rec, m)
  BY <1>4 DEF Path, Place
<1>6. ASSUME NEW t \in Task, Status(s, t) # "absent", t.plan = e.plan, t.leaf = e.leaf
      PROVE  FALSE
  BY <1>3, <1>6, SamePlace
<1>7. OnePerPlace(a)
  <2>1. m.plan = e.plan /\ m.leaf = e.leaf
    BY DEF Place
  <2> HIDE DEF a, m
  <2> QED
    BY <1>2, <1>6, <2>1 DEF OnePerPlace
<1>8. Grounded(a, rec)
  <2> HIDE DEF a, m
  <2> QED
    BY <1>2, <1>4, <1>5 DEF Grounded
<1> QED
  BY <1>2, <1>4, <1>7, <1>8

(* One executor's steps keep one task per place. *)
LEMMA PlaceStep ==
  ASSUME NEW x \in Executor, Sole(x), OneBinding, SoleInv, PlaceInv, Work(x) \/ Crash(x)
  PROVE  PlaceInv'
<1> DEFINE e == ex[x]
           Goal == /\ OnePerPlace(st') /\ Grounded(st', record')
                   /\ Follows(ex'[x], st', record')
<1>x. \A y \in Executor : y = x \/ ex'[y] = Idle
  BY OneStays DEF Sole, SoleInv
<1> SUFFICES Goal
  BY <1>x, IdleFollows DEF PlaceInv, Placed
<1>k. OnePerPlace(st) /\ Grounded(st, record) /\ Follows(e, st, record)
  BY DEF PlaceInv, Placed
<1>s. Shape
  BY DEF SoleInv
<1>e. /\ InPlace(e) /\ Mine(x) = Place(e) /\ Place(e) \in Task /\ e \in Process
      /\ st \in State /\ x \in DOMAIN ex /\ Kept(st, record)
  BY <1>s, MineIsTask DEF Shape, Processes, InPlace
<1>n. ASSUME NEW n, Become(x, n), Later(st, record, st', record'),
             n.plan = e.plan, n.leaf = e.leaf, n.ctx = e.ctx,
             Finished(n, st', record'),
             \A t \in Task : Status(st', t) \in Unfin /\ Pending(e, t) => Pending(n, t)
      PROVE  Goal
  <2>1. ex'[x] = n
    BY <1>e, <1>n DEF Become
  <2>2. Follows(n, st', record')
    BY <1>k, <1>n, FollowsLater
  <2> QED
    BY <1>k, <1>n, <2>1, <2>2, PlacesLater
<1>i. ASSUME Become(x, Idle), UNCHANGED <<st, record>>
      PROVE  Goal
  <2>1. ex'[x] = Idle
    BY <1>e, <1>i DEF Become
  <2> QED
    BY <1>i, <1>k, <2>1, IdleFollows
(* The steps that read and decide, before an outcome and after it. *)
<1>q. ASSUME NEW n, Become(x, n), UNCHANGED <<st, record>>,
             n.plan = e.plan, n.leaf = e.leaf, n.ctx = e.ctx,
             n.pc \notin Retiring \cup {"noted"},
             n.pc \in {"ending", "end"} => n.end # "run.completed",
             \A t \in Task : Pending(e, t) => Pending(n, t)
      PROVE  Goal
  <2>1. Finished(n, st, record)
    BY <1>q DEF Finished
  <2> QED
    BY <1>n, <1>q, <2>1, LaterSame
<1> HIDE DEF Goal
<1>2. ASSUME NEW plan \in Plan, Start(x, plan) PROVE Goal
  <2> DEFINE n == [Idle EXCEPT !.pc = Entry(st.run), !.plan = plan]
  <2>1. Become(x, n) /\ UNCHANGED <<st, record>>
    BY <1>2 DEF Start, durable
  <2>2. n.pc \in {"resume", "stale"} /\ n.leaf = 1
    BY DEF Idle, Entry
  <2>3. ex'[x] = n
    BY <1>e, <2>1 DEF Become
  <2> HIDE DEF n
  <2>4. Follows(n, st, record)
    BY <2>2 DEF Follows, Path, Finished, Foreign, Pending, Retiring
  <2> QED
    BY <1>k, <2>1, <2>3, <2>4 DEF Goal
<1>r. ASSUME Refused(x), UNCHANGED record PROVE Goal
  BY <1>i, <1>r DEF Refused
<1>3. CASE Resume(x)
  <2> DEFINE n == [e EXCEPT !.pc = "stale"]
  <2>1. /\ n.pc = "stale" /\ n.plan = e.plan /\ n.leaf = e.leaf /\ n.ctx = e.ctx /\ UNCHANGED record
        /\ Refused(x) \/ (Become(x, n) /\ st' = Apply(st, Bare("run.resumed", NoTask)))
    BY <1>3, <1>e DEF Resume, AppendThen, Process
  <2> HIDE DEF n
  <2>2. CASE Become(x, n) /\ st' = Apply(st, Bare("run.resumed", NoTask))
    <3>1. Later(st, record, st', record')
      BY <1>e, <2>1, <2>2, LaterRun DEF RunKind
    <3>2. Finished(n, st', record') /\ \A t \in Task : Pending(n, t)
      BY <2>1 DEF Finished, Pending, Retiring
    <3> QED
      BY <1>n, <2>1, <2>2, <3>1, <3>2
  <2> QED
    BY <1>r, <2>1, <2>2
<1>4. CASE FindStale(x)
  <2> DEFINE n == [e EXCEPT !.pc = "retire", !.back = "leaf", !.todo = Unfinished(Stale(x))]
  <2>1. /\ n.pc = "retire" /\ n.plan = e.plan /\ n.leaf = e.leaf /\ n.ctx = e.ctx
        /\ n.back = "leaf" /\ n.todo = Unfinished(Stale(x))
        /\ Become(x, n) /\ UNCHANGED <<st, record>>
    BY <1>4, <1>e DEF FindStale, Process, durable
  <2> HIDE DEF n
  <2>2. ASSUME NEW t \in Task, Status(st, t) \in Unfin, t.plan # e.plan
        PROVE  \E i \in n.todo : i[1] = t
    <3>1. <<t, st.tasks[t].status>> \in Unfinished(Stale(x))
      BY <2>2 DEF Unfinished, Stale, Status, Unfin
    <3> QED
      BY <2>1, <3>1
  <2>3. Foreign(n, st)
    BY <2>1, <2>2 DEF Foreign, Pending
  <2>4. Follows(n, st, record)
    BY <1>k, <2>1, <2>3, PathSame DEF Follows, Finished, Retiring
  <2>5. ex'[x] = n
    BY <1>e, <2>1 DEF Become
  <2> QED
    BY <1>k, <2>1, <2>4, <2>5 DEF Goal
<1>5. CASE FindConflicts(x)
  <2> DEFINE n == [e EXCEPT !.pc = "retire", !.back = "register",
                   !.todo = Unfinished({t \in Task : t.leaf = e.leaf /\ t # Mine(x)})]
  <2>1. /\ n.pc = "retire" /\ e.pc = "conflict" /\ n.plan = e.plan /\ n.leaf = e.leaf /\ n.ctx = e.ctx
        /\ Become(x, n) /\ UNCHANGED <<st, record>>
    BY <1>5, <1>e DEF FindConflicts, Process, At, durable
  <2> HIDE DEF n
  <2> QED
    BY <1>q, <2>1 DEF Pending, Retiring
(* An event about a task that is there already. *)
<1>d. ASSUME NEW d \in Event, d.kind \in {"task.started", "task.evidence", "task.completed"},
             Legal(st, d), st' = Apply(st, d), UNCHANGED record
      PROVE  Later(st, record, st', record')
  BY <1>d, <1>e, LaterDeed
<1>6. CASE Retire(x)
  <2>0. e.pc = "retire" /\ e.back \in {"leaf", "register"} /\ UNCHANGED record
    BY <1>6, <1>e DEF Retire, At, InPlace
  <2>1. CASE e.todo = {} /\ Goto(x, e.back) /\ UNCHANGED <<st, trouble>>
    <3> DEFINE n == [e EXCEPT !.pc = e.back]
    <3>1. /\ n.pc \in {"leaf", "register"} /\ Become(x, n)
          /\ n.plan = e.plan /\ n.leaf = e.leaf /\ n.ctx = e.ctx
      BY <1>e, <2>0, <2>1 DEF Goto, Process
    <3>2. \A t \in Task : ~Pending(e, t)
      BY <2>0, <2>1 DEF Pending, Retiring
    <3> HIDE DEF n
    <3> QED
      BY <1>q, <2>0, <2>1, <3>1, <3>2 DEF Retiring
  <2>2. ASSUME NEW item \in e.todo,
               LET next == [ex[x] EXCEPT !.pc = "record", !.task = item[1], !.out = "cancelled",
                                         !.todo = @ \ {item}]
               IN  IF item[2] = "registered"
                   THEN AppendThen(x, Bare("task.started", item[1]), next)
                   ELSE Become(x, next) /\ UNCHANGED <<st, trouble>>
        PROVE  Goal
    <3> DEFINE n == [e EXCEPT !.pc = "record", !.task = item[1], !.out = "cancelled",
                              !.todo = @ \ {item}]
               started == Bare("task.started", item[1])
    <3>1. /\ item[1] \in Task /\ n.pc = "record" /\ n.back = e.back
          /\ n.plan = e.plan /\ n.leaf = e.leaf /\ n.ctx = e.ctx
          /\ n.task = item[1] /\ n.todo = e.todo \ {item}
      BY <1>e DEF Process
    <3>2. started \in Event /\ started.kind = "task.started"
      BY <3>1 DEF Bare, Event, TaskKind
    <3>3. \/ Refused(x)
          \/ Become(x, n) /\ UNCHANGED st
          \/ Become(x, n) /\ Legal(st, started) /\ st' = Apply(st, started)
      BY <2>2 DEF AppendThen
    <3> HIDE DEF n, started
    <3>4. Finished(n, st', record')
      BY <2>0, <3>1 DEF Finished, Retiring
    <3>5. \A t \in Task : Pending(e, t) => Pending(n, t)
      BY <2>0, <3>1 DEF Pending, Retiring
    <3>6. CASE Become(x, n) /\ UNCHANGED st
      BY <1>n, <2>0, <3>1, <3>4, <3>5, <3>6, LaterSame
    <3>7. CASE Become(x, n) /\ Legal(st, started) /\ st' = Apply(st, started)
      BY <1>d, <1>n, <2>0, <3>1, <3>2, <3>4, <3>5, <3>7
    <3> QED
      BY <1>r, <2>0, <3>3, <3>6, <3>7
  <2> QED
    BY <1>6, <2>1, <2>2 DEF Retire
<1>7. CASE WriteRecord(x)
  <2> DEFINE n == [e EXCEPT !.pc = "evidence"]
  <2>1. /\ n.pc = "evidence" /\ e.pc = "record" /\ n.task = e.task /\ n.todo = e.todo /\ n.back = e.back
        /\ n.plan = e.plan /\ n.leaf = e.leaf /\ n.ctx = e.ctx /\ Place(n) = Place(e) /\ e.task \in Task
    BY <1>7, <1>e DEF WriteRecord, At, Process, Place
  <2>2. \/ Refused(x) /\ UNCHANGED record
        \/ /\ Become(x, n) /\ UNCHANGED st /\ Status(st, e.task) \in Unfin
           /\ record' = [record EXCEPT ![e.task] = e.out]
    BY <1>7 DEF WriteRecord, Goto, Status, Unfin
  <2> HIDE DEF n
  <2>3. Finished(n, st', record') /\ \A t \in Task : Pending(e, t) => Pending(n, t)
    BY <1>k, <2>1 DEF Follows, Finished, Pending, Retiring
  <2>4. CASE /\ Become(x, n) /\ UNCHANGED st /\ Status(st, e.task) \in Unfin
             /\ record' = [record EXCEPT ![e.task] = e.out]
    <3>1. \A u \in Task : u # e.task => record'[u] = record[u]
      BY <1>s, <2>4 DEF Shape
    <3>2. Later(st, record, st', record')
      BY <1>e, <2>1, <2>4, <3>1, LaterRecord
    <3> QED
      BY <1>n, <2>1, <2>3, <2>4, <3>2
  <2> QED
    BY <1>r, <2>2, <2>4
<1>b. Proof(x) \in SUBSET Binding /\ e.task \in Task
  BY <1>e, TaskAssumption DEF Process, Proof, Binding
<1>8. CASE AppendEvidence(x)
  <2> DEFINE n == [e EXCEPT !.pc = "complete"]
             seen == [Bare("task.evidence", e.task) EXCEPT !.binds = Proof(x)]
  <2>1. /\ n.pc = "complete" /\ e.pc = "evidence" /\ n.task = e.task /\ n.todo = e.todo
        /\ n.back = e.back /\ n.plan = e.plan /\ n.leaf = e.leaf /\ n.ctx = e.ctx
        /\ Place(n) = Place(e)
    BY <1>8, <1>e DEF AppendEvidence, At, Process, Place
  <2>2. seen \in Event /\ seen.kind = "task.evidence"
    BY <1>b DEF Bare, Event, TaskKind
  <2>3. AppendThen(x, seen, n) /\ UNCHANGED record
    BY <1>8 DEF AppendEvidence
  <2> HIDE DEF n, seen
  <2>4. Finished(n, st', record') /\ \A t \in Task : Pending(e, t) => Pending(n, t)
    BY <1>k, <2>1 DEF Follows, Finished, Pending, Retiring
  <2>5. CASE Become(x, n) /\ Legal(st, seen) /\ st' = Apply(st, seen)
    BY <1>d, <1>n, <2>1, <2>2, <2>3, <2>4, <2>5
  <2> QED
    BY <1>r, <2>3, <2>5 DEF AppendThen
<1>9. CASE AppendCompleted(x)
  <2> DEFINE n == [e EXCEPT !.pc = IF e.back = "own" THEN "noted" ELSE "retire"]
             done == [Bare("task.completed", e.task) EXCEPT
                        !.commit = CHOOSE c \in Commit : TRUE, !.binds = Proof(x)]
  <2>1. /\ n.pc = (IF e.back = "own" THEN "noted" ELSE "retire") /\ e.pc = "complete"
        /\ n.task = e.task /\ n.todo = e.todo /\ n.out = e.out
        /\ n.back = e.back /\ n.plan = e.plan /\ n.leaf = e.leaf /\ n.ctx = e.ctx
        /\ Place(n) = Place(e) /\ UNCHANGED record
    BY <1>9, <1>e DEF AppendCompleted, At, Process, Place
  <2>2. \/ Refused(x)
        \/ /\ record[e.task] = e.out /\ Become(x, n)
           /\ Legal(st, done) /\ st' = Apply(st, done)
    BY <1>9 DEF AppendCompleted, AppendThen, RecordMatches
  <2>3. (CHOOSE c \in Commit : TRUE) \in Commit
    BY InputAssumption
  <2>4. done \in Event /\ done.kind = "task.completed" /\ done.task = e.task
    BY <1>b, <2>3 DEF Bare, Event, TaskKind
  <2> HIDE DEF n, done
  <2>5. CASE /\ record[e.task] = e.out /\ Become(x, n)
             /\ Legal(st, done) /\ st' = Apply(st, done)
    <3>1. Later(st, record, st', record')
      BY <1>d, <2>1, <2>4, <2>5
    <3>2. Status(st', e.task) = "completed"
      BY <1>e, <2>4, <2>5, DeedStatus DEF Status, TaskDeed
    <3>3. Finished(n, st', record')
      BY <1>k, <2>1, <2>5, <3>2 DEF Follows, Finished, Retiring
    <3>4. \A t \in Task : Status(st', t) \in Unfin /\ Pending(e, t) => Pending(n, t)
      BY <2>1, <3>2 DEF Pending, Retiring, Unfin
    <3> QED
      BY <1>n, <2>1, <2>5, <3>1, <3>3, <3>4
  <2> QED
    BY <1>r, <2>1, <2>2, <2>5
<1>10. CASE CheckCancelled(x)
  <2> DEFINE n == ToEnd(x, "run.cancelled", TRUE)
  <2>1. /\ n.pc = "ending" /\ e.pc \in {"leaf", "attempt"} /\ n.plan = e.plan /\ n.leaf = e.leaf /\ n.ctx = e.ctx
        /\ n.end = "run.cancelled"
        /\ Become(x, n) /\ UNCHANGED <<st, record>>
    BY <1>10, <1>e DEF CheckCancelled, ToEnd, Process, At, durable
  <2> HIDE DEF n
  <2> QED
    BY <1>q, <2>1 DEF Pending, Retiring
<1>11. ASSUME NEW bind \in Planning, PlanLeaf(x, bind) PROVE Goal
  <2> DEFINE n == [e EXCEPT !.pc = "look", !.bind = bind]
  <2>1. /\ n.pc = "look" /\ e.pc = "leaf" /\ n.plan = e.plan /\ n.leaf = e.leaf /\ n.ctx = e.ctx
        /\ Become(x, n) /\ UNCHANGED <<st, record>>
    BY <1>11, <1>e DEF PlanLeaf, Process, At, durable
  <2> HIDE DEF n
  <2> QED
    BY <1>q, <2>1 DEF Pending, Retiring
<1>12. CASE Look(x)
  <2> DEFINE status == st.tasks[Mine(x)].status
             n == [e EXCEPT !.pc = AfterLook(status), !.task = Mine(x), !.back = "read",
                            !.out = IF status = "completed" THEN record[Mine(x)] ELSE @]
  <2>1. /\ n.pc = AfterLook(status) /\ Place(n) = Place(e) /\ e.pc = "look"
        /\ n.plan = e.plan /\ n.leaf = e.leaf /\ n.ctx = e.ctx
        /\ status = "completed" => n.out = record[Place(e)]
    BY <1>12, <1>e DEF Look, At, Process, Place
  <2>2. Become(x, n) /\ UNCHANGED <<st, record>>
    BY <1>12 DEF Look, durable
  <2>3. status = Status(st, Place(e)) /\ status \in TaskStatus \ {"failed"}
    BY <1>e DEF Status, Kept, State, TaskState
  <2> HIDE DEF n, status
  <2>4. Finished(n, st, record)
    BY <2>1, <2>3 DEF Finished, AfterLook, TaskStatus, Retiring
  <2>5. \A t \in Task : Pending(e, t) => Pending(n, t)
    BY <2>1 DEF Pending, Retiring
  <2> QED
    BY <1>n, <2>1, <2>2, <2>4, <2>5, LaterSame
<1>13. CASE Register(x)
  <2> DEFINE n == [e EXCEPT !.pc = "look"]
             deed == Bare("task.registered", Mine(x))
  <2>1. /\ n.pc = "look" /\ e.pc = "register" /\ UNCHANGED record /\ AppendThen(x, deed, n)
        /\ n.plan = e.plan /\ n.leaf = e.leaf /\ n.ctx = e.ctx
    BY <1>13, <1>e DEF Register, At, Process
  <2>2. deed \in Event /\ deed.kind = "task.registered" /\ deed.task = Place(e)
    BY <1>e DEF Bare, Event, TaskKind
  <2> HIDE DEF n, deed
  <2>3. CASE Become(x, n) /\ Legal(st, deed) /\ st' = Apply(st, deed)
    <3>1. Path(st, record, e)
      BY <1>k DEF Follows
    <3>2. /\ OnePerPlace(st') /\ Grounded(st', record') /\ Path(st', record', e)
          /\ \A t \in Task : t # Place(e) => Status(st', t) = Status(st, t)
      BY <1>e, <1>k, <2>1, <2>2, <2>3, <3>1, RegisterPlaces
    <3>3. Foreign(n, st')
      <4>1. \A t \in Task : ~Pending(e, t)
        BY <2>1 DEF Pending, Retiring
      <4>2. Place(e).plan = e.plan
        BY DEF Place
      <4> QED
        BY <1>k, <2>1, <3>2, <4>1, <4>2 DEF Follows, Foreign
    <3>4. Finished(n, st', record')
      BY <2>1 DEF Finished, Retiring
    <3>5. Follows(n, st', record')
      BY <2>1, <3>2, <3>3, <3>4, PathSame DEF Follows
    <3>6. ex'[x] = n
      BY <1>e, <2>3 DEF Become
    <3> QED
      BY <3>2, <3>5, <3>6 DEF Goal
  <2> QED
    BY <1>r, <2>1, <2>3 DEF AppendThen
<1>14. CASE StartTask(x)
  <2> DEFINE n == [e EXCEPT !.pc = "count"]
             deed == Bare("task.started", Mine(x))
  <2>1. /\ n.pc = "count" /\ e.pc = "start" /\ UNCHANGED record /\ AppendThen(x, deed, n)
        /\ n.plan = e.plan /\ n.leaf = e.leaf /\ n.ctx = e.ctx
    BY <1>14, <1>e DEF StartTask, At, Process
  <2>2. deed \in Event /\ deed.kind = "task.started"
    BY <1>e DEF Bare, Event, TaskKind
  <2> HIDE DEF n, deed
  <2>3. Finished(n, st', record') /\ \A t \in Task : ~Pending(e, t)
    BY <2>1 DEF Finished, Pending, Retiring
  <2>4. CASE Become(x, n) /\ Legal(st, deed) /\ st' = Apply(st, deed)
    BY <1>d, <1>n, <2>1, <2>2, <2>3, <2>4
  <2> QED
    BY <1>r, <2>1, <2>4 DEF AppendThen
<1>15. CASE Count(x)
  <2> DEFINE n == [e EXCEPT !.pc = "attempt", !.attempt = failures[Mine(x)] + 1]
  <2>1. /\ n.pc = "attempt" /\ e.pc = "count" /\ n.plan = e.plan /\ n.leaf = e.leaf /\ n.ctx = e.ctx
        /\ Become(x, n) /\ UNCHANGED <<st, record>>
    BY <1>15, <1>e DEF Count, Process, At, durable
  <2> HIDE DEF n
  <2> QED
    BY <1>q, <2>1 DEF Pending, Retiring
<1>16. CASE Invoke(x)
  <2> DEFINE n == [e EXCEPT !.pc = "running"]
  <2>1. /\ n.pc = "running" /\ e.pc = "attempt" /\ n.plan = e.plan /\ n.leaf = e.leaf /\ n.ctx = e.ctx
        /\ Become(x, n) /\ UNCHANGED <<st, record>>
    BY <1>16, <1>e DEF Invoke, Goto, Process, At, durable
  <2> HIDE DEF n
  <2> QED
    BY <1>q, <2>1 DEF Pending, Retiring
<1>17. CASE Exhausted(x)
  BY <1>17, <1>i DEF Exhausted, durable
<1>18. ASSUME NEW out \in Outcome, Return(x, out) PROVE Goal
  <2> DEFINE again == [e EXCEPT !.pc = "retry"]
             over == [e EXCEPT !.pc = "record", !.task = Mine(x), !.out = out,
                               !.back = "own", !.todo = {}]
  <2>1. /\ again.pc = "retry" /\ again.plan = e.plan /\ again.leaf = e.leaf /\ again.ctx = e.ctx
        /\ over.pc = "record" /\ over.plan = e.plan /\ over.leaf = e.leaf /\ over.ctx = e.ctx
        /\ over.task = Place(over)
        /\ e.pc = "running" /\ UNCHANGED <<st, record>>
        /\ Become(x, again) \/ Become(x, over)
    BY <1>18, <1>e DEF Return, Process, At, durable, Place
  <2> HIDE DEF again, over
  <2>2. \A t \in Task : ~Pending(e, t)
    BY <2>1 DEF Pending, Retiring
  <2>3. CASE Become(x, again)
    BY <1>q, <2>1, <2>2, <2>3 DEF Retiring
  <2>4. CASE Become(x, over)
    <3>1. Finished(over, st, record)
      BY <2>1 DEF Finished
    <3> QED
      BY <1>n, <2>1, <2>2, <2>4, <3>1, LaterSame
  <2> QED
    BY <2>1, <2>3, <2>4
<1>19. CASE ReturnPause(x)
  <2> DEFINE n == ToEnd(x, "run.paused", TRUE)
  <2>1. /\ n.pc = "ending" /\ e.pc = "running" /\ n.plan = e.plan /\ n.leaf = e.leaf /\ n.ctx = e.ctx
        /\ n.end = "run.paused"
        /\ Become(x, n) /\ UNCHANGED <<st, record>>
    BY <1>19, <1>e DEF ReturnPause, ToEnd, Process, At, durable
  <2> HIDE DEF n
  <2> QED
    BY <1>q, <2>1 DEF Pending, Retiring
<1>20. CASE ReturnInvalid(x)
  <2> DEFINE n == ToEnd(x, "run.failed", TRUE)
  <2>1. /\ n.pc = "ending" /\ e.pc = "running" /\ n.plan = e.plan /\ n.leaf = e.leaf /\ n.ctx = e.ctx
        /\ n.end = "run.failed"
        /\ Become(x, n) /\ UNCHANGED <<st, record>>
    BY <1>20, <1>e DEF ReturnInvalid, ToEnd, Process, At, durable
  <2> HIDE DEF n
  <2> QED
    BY <1>q, <2>1 DEF Pending, Retiring
<1>21. CASE ControlFails(x)
  <2> DEFINE n == ToEnd(x, "run.failed", TRUE)
  <2>1. /\ n.pc = "ending" /\ e.pc \in {"leaf", "ending"} /\ n.plan = e.plan /\ n.leaf = e.leaf /\ n.ctx = e.ctx
        /\ n.end = "run.failed"
        /\ Become(x, n) /\ UNCHANGED <<st, record>>
    BY <1>21, <1>e DEF ControlFails, ToEnd, Process, At, durable
  <2> HIDE DEF n
  <2> QED
    BY <1>q, <2>1 DEF Pending, Retiring
<1>22. CASE Retry(x)
  <2> DEFINE n == [e EXCEPT !.pc = "attempt", !.attempt = @ + 1]
             seen == Bare("task.evidence", Mine(x))
  <2>1. /\ n.pc = "attempt" /\ e.pc = "retry" /\ UNCHANGED record /\ AppendThen(x, seen, n)
        /\ n.plan = e.plan /\ n.leaf = e.leaf /\ n.ctx = e.ctx
    BY <1>22, <1>e DEF Retry, Process, At
  <2>2. seen \in Event /\ seen.kind = "task.evidence"
    BY <1>e DEF Bare, Event, TaskKind
  <2> HIDE DEF n, seen
  <2>3. Finished(n, st', record') /\ \A t \in Task : ~Pending(e, t)
    BY <2>1 DEF Finished, Pending, Retiring
  <2>4. CASE Become(x, n) /\ Legal(st, seen) /\ st' = Apply(st, seen)
    BY <1>d, <1>n, <2>1, <2>2, <2>3, <2>4
  <2> QED
    BY <1>r, <2>1, <2>4 DEF AppendThen
<1>23. CASE Note(x)
  <2> DEFINE stop == ToEnd(x, "run.cancelled", FALSE)
             fail == ToEnd(x, "run.failed", FALSE)
  <2>1. /\ e.pc = "noted" /\ UNCHANGED <<st, record>>
        /\ Become(x, stop) \/ Become(x, fail) \/ Become(x, NextLeaf(x))
    BY <1>23 DEF Note, At
  <2>2. \A t \in Task : ~Pending(e, t)
    BY <2>1 DEF Pending, Retiring
  <2>3. \A n \in {stop, fail} : /\ n.pc = "ending" /\ n.end # "run.completed"
                                 /\ n.plan = e.plan /\ n.leaf = e.leaf /\ n.ctx = e.ctx
    BY <1>e DEF ToEnd, Process
  <2>4. CASE \E n \in {stop, fail} : Become(x, n)
    <3> HIDE DEF stop, fail
    <3> QED
      BY <1>q, <2>1, <2>2, <2>3, <2>4 DEF Retiring
  <2>5. Status(st, Place(e)) = "completed" /\ record[Place(e)] = e.out
    BY <1>k, <2>1 DEF Follows, Finished
  <2>6. CASE Become(x, NextLeaf(x)) /\ e.leaf = Leaves[e.plan]
    <3> DEFINE n == ToEnd(x, "run.completed", TRUE)
    <3>1. /\ n.pc = "ending" /\ Become(x, n) /\ Place(n) = Place(e)
          /\ n.plan = e.plan /\ n.leaf = e.leaf /\ n.ctx = e.ctx
      BY <1>e, <2>6 DEF NextLeaf, ToEnd, Process, Place
    <3> HIDE DEF n
    <3>2. Finished(n, st, record)
      BY <2>5, <2>6, <3>1 DEF Finished, Retiring
    <3> QED
      BY <1>n, <2>1, <2>2, <3>1, <3>2, LaterSame
  <2>7. CASE Become(x, NextLeaf(x)) /\ e.leaf # Leaves[e.plan]
    <3> DEFINE n == [e EXCEPT !.pc = "leaf", !.leaf = @ + 1, !.ctx = Append(@, e.out)]
    <3>1. /\ n.pc = "leaf" /\ Become(x, n)
          /\ n.plan = e.plan /\ n.leaf = e.leaf + 1 /\ n.ctx = Append(e.ctx, e.out)
      BY <1>e, <2>7 DEF NextLeaf, Process
    <3> HIDE DEF n
    <3>2. e.leaf \in Nat /\ e.leaf > 0 /\ e.ctx \in Seq(Outcome) /\ Len(e.ctx) = e.leaf - 1 /\ e.out \in Outcome
      BY <1>e, LeafAssumption DEF InPlace, Process, Leaf
    <3>3. \A k \in 1 .. (e.leaf - 1) : n.ctx[k] = e.ctx[k]
      BY <3>1, <3>2
    <3>4. n.ctx[e.leaf] = e.out
      BY <3>1, <3>2
    <3>5. Done(st, record, e.plan, e.leaf, e.out)
      BY <1>e, <2>5 DEF Done, Place
    <3>6. Path(st, record, n)
      <4>1. ASSUME NEW k \in 1 .. (n.leaf - 1) PROVE Done(st, record, n.plan, k, n.ctx[k])
        <5>1. k = e.leaf \/ k \in 1 .. (e.leaf - 1)
          BY <3>1, <3>2, <4>1
        <5> QED
          BY <1>k, <3>1, <3>3, <3>4, <3>5, <5>1 DEF Follows, Path
      <4> QED
        BY <4>1 DEF Path
    <3>7. Finished(n, st, record) /\ Foreign(n, st)
      BY <1>k, <2>2, <3>1 DEF Follows, Finished, Foreign, Retiring
    <3>8. ex'[x] = n
      BY <1>e, <3>1 DEF Become
    <3> QED
      BY <1>k, <2>1, <3>6, <3>7, <3>8 DEF Goal, Follows
  <2> QED
    BY <2>1, <2>4, <2>6, <2>7
<1>f. /\ After(x) = Idle
         \/ /\ After(x).pc = "closing" /\ After(x).plan = e.plan
            /\ After(x).leaf = e.leaf /\ After(x).ctx = e.ctx
  BY <1>e DEF After, Process
<1>24. CASE EndLook(x)
  <2> DEFINE n == [e EXCEPT !.pc = "end"]
  <2>1. /\ n.pc = "end" /\ e.pc = "ending" /\ UNCHANGED <<st, record>>
        /\ n.plan = e.plan /\ n.leaf = e.leaf /\ n.ctx = e.ctx /\ n.end = e.end /\ Place(n) = Place(e)
        /\ Become(x, n) \/ Become(x, After(x))
    BY <1>24, <1>e DEF EndLook, At, Process, durable, Place
  <2> HIDE DEF n
  <2>2. \A t \in Task : ~Pending(e, t)
    BY <2>1 DEF Pending, Retiring
  <2>3. CASE Become(x, n)
    <3>1. Finished(n, st, record)
      BY <1>k, <2>1 DEF Follows, Finished, Retiring
    <3> QED
      BY <1>n, <2>1, <2>2, <2>3, <3>1, LaterSame
  <2>4. CASE Become(x, After(x))
    BY <1>f, <1>i, <1>q, <2>1, <2>2, <2>4 DEF Retiring
  <2> QED
    BY <2>1, <2>3, <2>4
<1>25. CASE End(x)
  <2>1. /\ UNCHANGED record /\ e.end \in RunKind
        /\ Refused(x) \/ (Become(x, After(x)) /\ st' = Apply(st, Bare(e.end, NoTask)))
    BY <1>25, <1>e DEF End, AppendThen, Process, RunEnd, RunKind
  <2>2. CASE Become(x, After(x)) /\ st' = Apply(st, Bare(e.end, NoTask))
    <3>1. Later(st, record, st', record')
      BY <1>e, <2>1, <2>2, LaterRun
    <3>2. CASE After(x) = Idle
      <4>1. ex'[x] = Idle
        BY <1>e, <2>2, <3>2 DEF Become
      <4> QED
        BY <1>k, <3>1, <4>1, IdleFollows, PlacesLater DEF Goal
    <3>3. CASE After(x).pc = "closing"
      <4>1. Finished(After(x), st', record') /\ \A t \in Task : Pending(After(x), t)
        BY <3>3 DEF Finished, Pending, Retiring
      <4>2. After(x) # Idle
        BY <3>3, IdleInPlace
      <4> QED
        BY <1>f, <1>n, <2>2, <3>1, <4>1, <4>2
    <3> QED
      BY <1>f, <3>2, <3>3
  <2> QED
    BY <1>r, <2>1, <2>2
<1>26. CASE Close(x)
  BY <1>26, <1>i DEF Close
<1>27. CASE Crash(x)
  BY <1>27, <1>i DEF Crash, durable
<1> QED
  BY <1>2, <1>3, <1>4, <1>5, <1>6, <1>7, <1>8, <1>9, <1>10, <1>11, <1>12, <1>13, <1>14, <1>15,
     <1>16, <1>17, <1>18, <1>19, <1>20, <1>21, <1>22, <1>23, <1>24, <1>25, <1>26, <1>27
     DEF Work

(* The initial state satisfies both invariants. *)
LEMMA SoleInit == Init => SoleInv /\ PlaceInv
<1> SUFFICES ASSUME Init PROVE SoleInv /\ PlaceInv
  OBVIOUS
<1>1. Shape
  BY InitShape
<1>2. \A t \in Task : Status(st, t) = "absent"
  <2>1. NewRun \in State /\ \A t \in Task : NewRun.tasks[t].status = "absent"
    BY DEF NewRun, State, Absent, TaskState, RunStatus, TaskStatus, Binding
  <2>2. st.tasks = NewRun.tasks
    BY <2>1, RunEvent DEF Init, RunKind
  <2> QED
    BY <2>1, <2>2 DEF Status
<1>3. Counted
  BY LeafAssumption DEF Init, Counted
<1>4. Known
  BY IdleKnows DEF Init, Known
<1>5. Placed
  BY <1>2 DEF Placed, OnePerPlace, Grounded
<1> QED
  BY <1>1, <1>3, <1>4, <1>5, IdleFollows DEF Init, SoleInv, PlaceInv

(* One executor's steps keep its invariant. *)
LEMMA SoleInvStep ==
  ASSUME NEW x \in Executor, Sole(x), SoleInv, [Work(x) \/ Crash(x)]_vars
  PROVE  Sole(x)' /\ SoleInv'
<1>1. CASE UNCHANGED vars
  BY <1>1, ShapeStep DEF vars, Sole, SoleInv, Counted, Known
<1>2. CASE Work(x) \/ Crash(x)
  BY <1>2, ShapeStep, SoleStep DEF SoleInv, Next
<1> QED
  BY <1>1, <1>2

(* They keep one task per place as well. *)
LEMMA PlaceInvStep ==
  ASSUME NEW x \in Executor, Sole(x), OneBinding, SoleInv, PlaceInv, [Work(x) \/ Crash(x)]_vars
  PROVE  PlaceInv'
<1>1. CASE UNCHANGED vars
  BY <1>1 DEF vars, PlaceInv, Placed
<1> QED
  BY <1>1, PlaceStep

(* Nobody has begun. *)
LEMMA SoleStart == ASSUME Init, NEW x \in Executor PROVE Sole(x)
BY DEF Init, Sole

(* The invariant of one executor. *)
LEMMA SoleInvariant == ASSUME NEW CONSTANT x \in Executor PROVE SoleSpec(x) => [](Sole(x) /\ SoleInv)
<1>1. Init => Sole(x) /\ SoleInv
  BY SoleInit, SoleStart
<1>2. Sole(x) /\ SoleInv /\ [Work(x) \/ Crash(x)]_vars => (Sole(x) /\ SoleInv)'
  BY SoleInvStep
<1> QED
  BY <1>1, <1>2, PTL DEF SoleSpec

(* It bounds the attempts. *)
LEMMA BoundedBySole == SoleInv => AttemptsBounded
<1> SUFFICES ASSUME SoleInv, NEW x \in Executor, At(x, "attempt")
             PROVE  ex[x].attempt <= MaxAttempts
  BY DEF AttemptsBounded
<1>1. Mine(x) = Place(ex[x]) /\ Mine(x) \in Task
  BY MineIsTask DEF SoleInv
<1>2. ex[x].attempt = failures[Mine(x)] + 1 /\ failures[Mine(x)] < MaxAttempts
      /\ failures[Mine(x)] \in Nat
  BY <1>1 DEF SoleInv, Known, Knows, AtWork, Counted, Shape, At
<1> QED
  BY <1>2, LeafAssumption

(* It authorizes the work. *)
LEMMA AuthorizedBySole == SoleInv => WorkAuthorized
BY MineIsTask DEF SoleInv, WorkAuthorized, Invokes, At, Known, Knows, Busy, AtWork, Pc, Status

(* One executor: failures, crashes and resumes of _execute_leaf together   *)
(* use no more than retry.maxAttempts attempts, and none of them finds the *)
(* retry loop exhausted.                                                   *)
THEOREM AttemptsAreBounded ==
  ASSUME NEW CONSTANT x \in Executor
  PROVE  SoleSpec(x) => []AttemptsBounded
BY SoleInvariant, BoundedBySole, PTL

(* One executor: _execute_leaf invokes a leaf only while its task is       *)
(* started in an active run.                                               *)
THEOREM LeavesStayAuthorized ==
  ASSUME NEW CONSTANT x \in Executor
  PROVE  SoleSpec(x) => WorkIsAuthorized
<1>1. SoleInv => [WorkAuthorized]_vars
  BY AuthorizedBySole
<1> QED
  BY <1>1, SoleInvariant, PTL DEF WorkIsAuthorized

(* With one task per place it admits the completion. *)
LEMMA AdmittedByPlace == SoleInv /\ PlaceInv => CompletionIsAdmitted
<1> SUFFICES ASSUME SoleInv, PlaceInv, NEW x \in Executor, At(x, "end"), ex[x].end = "run.completed"
             PROVE  Legal(st, Bare("run.completed", NoTask))
  BY DEF CompletionIsAdmitted
<1> DEFINE e == ex[x]
<1>1. Shape /\ InPlace(e) /\ Place(e) \in Task /\ Foreign(e, st) /\ Path(st, record, e)
      /\ e.leaf = Leaves[e.plan] /\ Status(st, Place(e)) = "completed" /\ OnePerPlace(st)
  BY MineIsTask DEF SoleInv, PlaceInv, Placed, Follows, Finished, At
<1>2. st.run = "active"
  BY DEF SoleInv, Known, Knows, Busy, Pc, At
<1>3. ASSUME NEW t \in Task, Status(st, t) \notin {"absent", "completed"}
      PROVE  FALSE
  <2>1. Status(st, t) \in Unfin
    BY <1>1, <1>3 DEF Shape, Kept, State, TaskState, TaskStatus, Status, Unfin
  <2>2. t.plan = e.plan
    BY <1>1, <2>1 DEF Foreign, Pending, At, Retiring
  <2>3. t.leaf \in 1 .. Leaves[e.plan]
    BY <2>2, LeafFacts
  <2>4. CASE t.leaf = Leaves[e.plan]
    BY <1>1, <1>3, <2>2, <2>4 DEF OnePerPlace, Place
  <2>5. CASE t.leaf # Leaves[e.plan]
    <3>1. t.leaf \in 1 .. (e.leaf - 1)
      BY <1>1, <2>3, <2>5, LeafFacts DEF InPlace, Process
    <3>2. PICK u \in Task : u.plan = e.plan /\ u.leaf = t.leaf /\ Status(st, u) = "completed"
      BY <1>1, <3>1 DEF Path, Done
    <3> QED
      BY <1>1, <1>3, <2>2, <3>2 DEF OnePerPlace
  <2> QED
    BY <2>4, <2>5
<1>4. AllDone(st)
  BY <1>3 DEF AllDone, Status
<1> QED
  BY <1>1, <1>2, <1>4 DEF Legal, Ended, RunTerminal, Bare, Shape, State, TaskKind

(* One executor and one binding: whoever went through all leaves has left  *)
(* no task unfinished, under whatever plans the run was executed before,   *)
(* and the ledger takes its run.completed.                                 *)
THEOREM CompletionTaken ==
  ASSUME NEW CONSTANT x \in Executor, OneBinding
  PROVE  SoleSpec(x) => []CompletionIsAdmitted
<1>1. OneBinding
  OBVIOUS
<1>2. Init => Sole(x) /\ SoleInv /\ PlaceInv
  BY SoleInit, SoleStart
<1>3. Sole(x) /\ SoleInv /\ PlaceInv /\ [Work(x) \/ Crash(x)]_vars => (Sole(x) /\ SoleInv /\ PlaceInv)'
  BY <1>1, SoleInvStep, PlaceInvStep
<1> QED
  BY <1>2, <1>3, AdmittedByPlace, PTL DEF SoleSpec

-----------------------------------------------------------------------------
(* One executor that only pauses interrupt, with one plan: it retires      *)
(* nothing, an outcome that ends the run is on record only while the       *)
(* executor is about to end it, and whoever completes it has one more      *)
(* checkpoint to write.                                                    *)
Forgiven(out, n) == out = "succeeded" \/ (out = "failed" /\ n \in Continue)

Closed(s, t) == Status(s, t) = "completed"
Spoilt(s, rec) == \E t \in Task : Closed(s, t) /\ ~Forgiven(rec[t], t.leaf)

Stopping(e) ==
  \/ e.pc = "noted" /\ e.back = "own" /\ ~Forgiven(e.out, e.leaf)
  \/ e.pc \in {"ending", "end"} /\ e.end \in {"run.failed", "run.cancelled"}

Steady(e, plan) ==
  /\ e.pc # "idle" => e.plan = plan
  /\ e.pc = "retire" => e.todo = {}
  /\ e.pc \in Retiring => e.back = "own"
  /\ e.pc \in {"ending", "end"} /\ e.end = "run.completed" => e.close

OnePlan(s, plan) == \A t \in Task : Status(s, t) # "absent" => t.plan = plan

Stops(s, rec, es) ==
  Spoilt(s, rec) => s.run \in {"failed", "cancelled"} \/ \E x \in Executor : Stopping(es[x])

Carried(s, rec, plan) ==
  \A n \in 1 .. Leaves[plan] : \E t \in Task :
    t.plan = plan /\ t.leaf = n /\ Closed(s, t) /\ Forgiven(rec[t], n)

Concludes(s, rec, c, es, plan) ==
  s.run = "completed" =>
    Carried(s, rec, plan) /\ (c = s.last \/ \E x \in Executor : es[x].pc = "closing")

CalmInv(plan) ==
  /\ SoleInv /\ PlaceInv
  /\ OnePlan(st, plan)
  /\ \A x \in Executor : Steady(ex[x], plan)
  /\ Stops(st, record, ex)
  /\ Concludes(st, record, ckpt, ex, plan)

(* An active run can be ended as failed or cancelled at any time. *)
LEMMA EndIsLegal ==
  ASSUME Shape, st.run = "active", NEW kind \in {"run.failed", "run.cancelled"}
  PROVE  Legal(st, Bare(kind, NoTask))
BY DEF Legal, Ended, RunTerminal, Bare, Shape, State, TaskKind

(* One undisturbed step of the executor x, told apart by what it does.     *)
CalmGoal(s, rec, c, n, plan) ==
  /\ OnePlan(s, plan) /\ Steady(n, plan)
  /\ Spoilt(s, rec) => s.run \in {"failed", "cancelled"} \/ Stopping(n)
  /\ s.run = "completed" => Carried(s, rec, plan) /\ (c = s.last \/ n.pc = "closing")

(* An undisturbed step keeps what an undisturbed executor relies on. *)
LEMMA CalmWork ==
  ASSUME NEW plan \in Plan, NEW x \in Executor, OneBinding, SoleInv, PlaceInv,
         CalmGoal(st, record, ckpt, ex[x], plan), Work(x), At(x, "idle") => ex'[x].plan = plan
  PROVE  CalmGoal(st', record', ckpt', ex'[x], plan)
<1> DEFINE e == ex[x]
           Goal == CalmGoal(st', record', ckpt', ex'[x], plan)
<1>s. Shape
  BY DEF SoleInv
<1>e. /\ InPlace(e) /\ Mine(x) = Place(e) /\ Place(e) \in Task /\ e \in Process
      /\ st \in State /\ x \in DOMAIN ex /\ Kept(st, record)
  BY <1>s, MineIsTask DEF Shape, Processes, InPlace
<1>k. Knows(e, st, failures)
  BY DEF SoleInv, Known
<1>p. OnePerPlace(st) /\ Grounded(st, record) /\ Follows(e, st, record)
  BY DEF PlaceInv, Placed
<1>c. CalmGoal(st, record, ckpt, e, plan)
  OBVIOUS
<1> SUFFICES Goal
  OBVIOUS
(* Steps that read and decide while the run is active. *)
<1>q. ASSUME NEW n, Become(x, n), UNCHANGED <<st, record>>, e.pc \in Busy,
             Steady(n, plan), Stopping(e) => Stopping(n)
      PROVE  Goal
  <2>1. ex'[x] = n /\ st.run = "active"
    BY <1>e, <1>k, <1>q DEF Become, Knows
  <2> QED
    BY <1>c, <1>q, <2>1 DEF CalmGoal
<1>i. ASSUME Refused(x) \/ (Become(x, Idle) /\ UNCHANGED st), UNCHANGED record, e.pc \in Busy, ~Stopping(e)
      PROVE  Goal
  <2>1. Steady(Idle, plan)
    BY IdleInPlace DEF Steady, Retiring
  <2> QED
    BY <1>i, <1>q, <2>1 DEF Refused
(* The deeds that complete nothing. *)
<1>d. ASSUME NEW n, NEW d \in Event, d.kind \in {"task.registered", "task.started", "task.evidence"},
             AppendThen(x, d, n), UNCHANGED record, e.pc \in Busy, ~Stopping(e), Steady(n, plan),
             d.kind = "task.registered" => d.task.plan = plan
      PROVE  Goal
  <2>1. CASE Refused(x)
    BY <1>d, <1>i, <2>1
  <2>2. CASE Legal(st, d) /\ st' = Apply(st, d) /\ Become(x, n)
    <3>1. d.kind \in TaskKind /\ d.kind \in TaskDeed
      BY <1>d DEF TaskKind, TaskDeed
    <3>2. /\ d.task \in Task /\ st'.run = st.run
          /\ \A t \in Task : t # d.task => Status(st', t) = Status(st, t)
      BY <1>e, <2>2, <3>1, TaskEvent DEF Status
    <3>3. /\ Status(st', d.task) \notin {"absent", "completed"} /\ Status(st, d.task) # "completed"
          /\ Status(st, d.task) = "absent" => d.kind = "task.registered"
      BY <1>d, <1>e, <2>2, <3>1, DeedStatus DEF Status
    <3>4. OnePlan(st', plan)
      BY <1>c, <1>d, <3>2, <3>3 DEF CalmGoal, OnePlan
    <3>5. Spoilt(st', record') => Spoilt(st, record)
      BY <1>d, <3>2, <3>3 DEF Spoilt, Closed
    <3>6. ex'[x] = n /\ st.run = "active"
      BY <1>d, <1>e, <1>k, <2>2 DEF Become, Knows
    <3> QED
      BY <1>c, <1>d, <3>2, <3>4, <3>5, <3>6 DEF CalmGoal
  <2> QED
    BY <1>d, <2>1, <2>2 DEF AppendThen
<1> HIDE DEF Goal
<1>z. Steady(e, plan)
  BY <1>c DEF CalmGoal
<1>2. ASSUME NEW q \in Plan, Start(x, q) PROVE Goal
  <2> DEFINE n == [Idle EXCEPT !.pc = Entry(st.run), !.plan = q]
  <2>1. /\ Become(x, n) /\ UNCHANGED <<st, record, ckpt>> /\ e.pc = "idle"
        /\ st.run \in {"active", "paused"}
    BY <1>2 DEF Start, durable, At
  <2>2. n.pc \in {"resume", "stale"} /\ n.plan = q
    BY IdleInPlace DEF InPlace, Process, Entry
  <2>3. ex'[x] = n
    BY <1>e, <2>1 DEF Become
  <2> HIDE DEF n
  <2>4. q = plan
    BY <2>1, <2>2, <2>3 DEF At
  <2>5. ~Stopping(e) /\ Steady(n, plan)
    BY <2>1, <2>2, <2>4 DEF Stopping, Steady, Retiring
  <2> QED
    BY <1>c, <2>1, <2>3, <2>5 DEF CalmGoal, Goal
<1>3. CASE Resume(x)
  <2> DEFINE n == [e EXCEPT !.pc = "stale"]
             resumed == Bare("run.resumed", NoTask)
  <2>1. /\ n.pc = "stale" /\ n.plan = e.plan /\ e.pc = "resume" /\ UNCHANGED record
        /\ (UNCHANGED st /\ Become(x, Idle)) \/ (Become(x, n) /\ st' = Apply(st, resumed))
    BY <1>3, <1>e DEF Resume, AppendThen, Refused, Process, At
  <2>2. st.run = "paused" /\ ~Stopping(e)
    BY <1>k, <2>1 DEF Knows, Stopping
  <2>3. CASE UNCHANGED st /\ Become(x, Idle)
    <3>1. ex'[x] = Idle /\ Steady(Idle, plan)
      BY <1>e, <2>3, IdleInPlace DEF Become, Steady, Retiring
    <3> QED
      BY <1>c, <2>1, <2>2, <2>3, <3>1 DEF CalmGoal, Goal
  <2>4. CASE Become(x, n) /\ st' = Apply(st, resumed)
    <3>1. ex'[x] = n
      BY <1>e, <2>4 DEF Become
    <3>2. "run.resumed" \in RunKind /\ RunAfter(st.run, "run.resumed") = "active"
      BY DEF RunKind, RunAfter
    <3>3. st'.run = "active" /\ st'.tasks = st.tasks
      BY <1>e, <2>4, <3>2, RunEvent
    <3> HIDE DEF n
    <3>4. Steady(n, plan)
      BY <1>z, <2>1 DEF Steady, Retiring
    <3> QED
      BY <1>c, <2>1, <2>2, <3>1, <3>3, <3>4 DEF CalmGoal, Goal, OnePlan, Spoilt, Closed, Status
  <2> QED
    BY <2>1, <2>3, <2>4
<1>4. CASE FindStale(x)
  <2> DEFINE n == [e EXCEPT !.pc = "retire", !.back = "leaf", !.todo = Unfinished(Stale(x))]
  <2>1. /\ n.pc = "retire" /\ n.todo = Unfinished(Stale(x)) /\ n.plan = e.plan /\ e.pc = "stale"
        /\ Become(x, n) /\ UNCHANGED <<st, record>>
    BY <1>4, <1>e DEF FindStale, Process, At, durable
  <2>2. Unfinished(Stale(x)) = {}
    <3>1. e.plan = plan
      BY <1>z, <2>1 DEF Steady
    <3> QED
      BY <1>c, <3>1 DEF CalmGoal, OnePlan, Status, Unfinished, Stale
  <2> HIDE DEF n
  <2>3. Steady(n, plan) /\ ~Stopping(e) /\ e.pc \in Busy
    BY <1>z, <2>1, <2>2 DEF Steady, Stopping, Retiring, Busy, Pc
  <2> QED
    BY <1>q, <2>1, <2>3
<1>5. CASE FindConflicts(x)
  <2> DEFINE others == {t \in Task : t.leaf = e.leaf /\ t # Mine(x)}
             n == [e EXCEPT !.pc = "retire", !.back = "register", !.todo = Unfinished(others)]
  <2>1. /\ n.pc = "retire" /\ n.todo = Unfinished(others) /\ n.plan = e.plan /\ e.pc = "conflict"
        /\ Become(x, n) /\ UNCHANGED <<st, record>>
    BY <1>5, <1>e DEF FindConflicts, Process, At, durable
  <2>2. Unfinished(others) = {}
    <3>1. ASSUME NEW t \in others, Status(st, t) # "absent" PROVE FALSE
      <4>1. t.plan = e.plan
        BY <1>c, <1>z, <2>1, <3>1 DEF CalmGoal, OnePlan, Steady
      <4> QED
        BY <1>e, <1>p, <3>1, <4>1, SamePlace DEF Follows
    <3> QED
      BY <3>1 DEF Status, Unfinished
  <2> HIDE DEF n
  <2>3. Steady(n, plan) /\ ~Stopping(e) /\ e.pc \in Busy
    BY <1>z, <2>1, <2>2 DEF Steady, Stopping, Retiring, Busy, Pc
  <2> QED
    BY <1>q, <2>1, <2>3
<1>6. CASE Retire(x)
  <2> DEFINE n == [e EXCEPT !.pc = e.back]
  <2>1. e.todo = {} /\ e.pc = "retire" /\ e.back \in {"leaf", "register"}
    BY <1>6, <1>e, <1>z DEF Retire, At, Steady, InPlace
  <2>2. /\ n.pc \in {"leaf", "register"} /\ n.plan = e.plan
        /\ Become(x, n) /\ UNCHANGED <<st, record>>
    BY <1>6, <1>e, <2>1 DEF Retire, Goto, Process
  <2> HIDE DEF n
  <2>3. Steady(n, plan) /\ ~Stopping(e) /\ e.pc \in Busy
    BY <1>z, <2>1, <2>2 DEF Steady, Stopping, Retiring, Busy, Pc
  <2> QED
    BY <1>q, <2>2, <2>3
<1>7. CASE WriteRecord(x)
  <2> DEFINE n == [e EXCEPT !.pc = "evidence"]
  <2>1. n.pc = "evidence" /\ n.plan = e.plan /\ n.back = e.back /\ e.pc = "record"
    BY <1>7, <1>e DEF WriteRecord, At, Process
  <2>2. ~Stopping(e) /\ e.pc \in Busy /\ st.run = "active"
    BY <1>k, <2>1 DEF Stopping, Busy, Pc, Knows
  <2>3. CASE Refused(x) /\ UNCHANGED record
    BY <1>i, <2>2, <2>3
  <2>4. CASE /\ Status(st, e.task) # "completed" /\ UNCHANGED st
             /\ record' = [record EXCEPT ![e.task] = e.out] /\ Become(x, n)
    <3>1. Spoilt(st, record') => Spoilt(st, record)
      BY <1>s, <2>4 DEF Spoilt, Closed, Shape
    <3>2. ex'[x] = n
      BY <1>e, <2>4 DEF Become
    <3> HIDE DEF n
    <3>3. Steady(n, plan)
      BY <1>z, <2>1 DEF Steady, Retiring
    <3> QED
      BY <1>c, <2>2, <2>4, <3>1, <3>2, <3>3 DEF CalmGoal, Goal
  <2> QED
    BY <1>7, <2>3, <2>4 DEF WriteRecord, Goto, Status
<1>8. CASE AppendEvidence(x)
  <2> DEFINE n == [e EXCEPT !.pc = "complete"]
             seen == [Bare("task.evidence", e.task) EXCEPT !.binds = Proof(x)]
  <2>1. /\ n.pc = "complete" /\ n.plan = e.plan /\ n.back = e.back /\ e.pc = "evidence"
        /\ UNCHANGED record /\ AppendThen(x, seen, n)
    BY <1>8, <1>e DEF AppendEvidence, At, Process
  <2>2. Proof(x) \in SUBSET Binding /\ e.task \in Task
    BY <1>e, TaskAssumption DEF Process, Proof, Binding
  <2>3. seen \in Event /\ seen.kind = "task.evidence"
    BY <2>2 DEF Bare, Event, TaskKind
  <2> HIDE DEF n, seen
  <2>4. Steady(n, plan) /\ ~Stopping(e) /\ e.pc \in Busy
    BY <1>z, <2>1 DEF Steady, Stopping, Retiring, Busy, Pc
  <2> QED
    BY <1>d, <2>1, <2>3, <2>4
<1>9. CASE AppendCompleted(x)
  <2> DEFINE n == [e EXCEPT !.pc = IF e.back = "own" THEN "noted" ELSE "retire"]
             done == [Bare("task.completed", e.task) EXCEPT
                        !.commit = CHOOSE c \in Commit : TRUE, !.binds = Proof(x)]
  <2>1. e.pc = "complete" /\ e.back = "own" /\ e.task = Place(e)
    BY <1>9, <1>p, <1>z DEF AppendCompleted, At, Steady, Retiring, Follows, Finished
  <2>2. /\ n.pc = "noted" /\ n.plan = e.plan /\ n.back = "own" /\ n.out = e.out /\ n.leaf = e.leaf
        /\ UNCHANGED record
    BY <1>9, <1>e, <2>1 DEF AppendCompleted, Process
  <2>3. \/ Refused(x)
        \/ RecordMatches(x) /\ Legal(st, done) /\ st' = Apply(st, done) /\ Become(x, n)
    BY <1>9 DEF AppendCompleted, AppendThen
  <2>4. /\ (CHOOSE c \in Commit : TRUE) \in Commit /\ Proof(x) \in SUBSET Binding /\ e.task \in Task
    BY <1>e, TaskAssumption, InputAssumption DEF Process, Proof, Binding
  <2>5. done \in Event /\ done.kind = "task.completed" /\ done.task = e.task
    BY <2>4 DEF Bare, Event, TaskKind
  <2>6. ~Stopping(e) /\ e.pc \in Busy /\ st.run = "active"
    BY <1>k, <2>1 DEF Stopping, Busy, Pc, Knows
  <2> HIDE DEF n, done
  <2>7. CASE Refused(x)
    BY <1>i, <2>2, <2>6, <2>7
  <2>8. CASE RecordMatches(x) /\ Legal(st, done) /\ st' = Apply(st, done) /\ Become(x, n)
    <3>1. done.kind \in TaskKind /\ done.kind \in TaskDeed
      BY <2>5 DEF TaskKind, TaskDeed
    <3>2. /\ st'.run = "active"
          /\ \A t \in Task : t # e.task => Status(st', t) = Status(st, t)
      BY <1>e, <2>5, <2>6, <2>8, <3>1, TaskEvent DEF Status
    <3>3. Status(st, e.task) # "absent" /\ Status(st', e.task) # "absent"
      BY <1>e, <2>5, <2>8, <3>1, DeedStatus DEF Status
    <3>4. OnePlan(st', plan)
      BY <1>c, <3>2, <3>3 DEF CalmGoal, OnePlan
    <3>5. ex'[x] = n /\ record[e.task] = e.out /\ e.task.leaf = e.leaf
      BY <1>e, <2>1, <2>8 DEF Become, RecordMatches, Place
    <3>6. Steady(n, plan)
      BY <1>z, <2>1, <2>2 DEF Steady, Retiring
    <3>7. Spoilt(st', record) => Stopping(n)
      <4>1. ~Spoilt(st, record)
        BY <1>c, <2>6 DEF CalmGoal
      <4> QED
        BY <2>2, <3>2, <3>5, <4>1 DEF Spoilt, Closed, Stopping
    <3> QED
      BY <2>2, <3>2, <3>4, <3>5, <3>6, <3>7 DEF CalmGoal, Goal
  <2> QED
    BY <2>3, <2>7, <2>8
<1>10. CASE CheckCancelled(x)
  <2> DEFINE n == ToEnd(x, "run.cancelled", TRUE)
  <2>1. /\ n.pc = "ending" /\ e.pc \in {"leaf", "attempt"} /\ n.plan = e.plan /\ n.close
        /\ Become(x, n) /\ UNCHANGED <<st, record>>
    BY <1>10, <1>e DEF CheckCancelled, ToEnd, Process, At, durable
  <2> HIDE DEF n
  <2>2. Steady(n, plan) /\ ~Stopping(e) /\ e.pc \in Busy
    BY <1>z, <2>1 DEF Steady, Stopping, Retiring, Busy, Pc
  <2> QED
    BY <1>q, <2>1, <2>2
<1>11. ASSUME NEW bind \in Planning, PlanLeaf(x, bind) PROVE Goal
  <2> DEFINE n == [e EXCEPT !.pc = "look", !.bind = bind]
  <2>1. /\ n.pc = "look" /\ e.pc = "leaf" /\ n.plan = e.plan
        /\ Become(x, n) /\ UNCHANGED <<st, record>>
    BY <1>11, <1>e DEF PlanLeaf, Process, At, durable
  <2> HIDE DEF n
  <2>2. Steady(n, plan) /\ ~Stopping(e) /\ e.pc \in Busy
    BY <1>z, <2>1 DEF Steady, Stopping, Retiring, Busy, Pc
  <2> QED
    BY <1>q, <2>1, <2>2
<1>12. CASE Look(x)
  <2> DEFINE status == st.tasks[Mine(x)].status
             n == [e EXCEPT !.pc = AfterLook(status), !.task = Mine(x), !.back = "read",
                            !.out = IF status = "completed" THEN record[Mine(x)] ELSE @]
  <2>1. /\ n.pc = AfterLook(status) /\ e.pc = "look" /\ n.plan = e.plan
        /\ Become(x, n) /\ UNCHANGED <<st, record>>
    BY <1>12, <1>e DEF Look, At, Process, durable
  <2>2. n.pc \in {"conflict", "start", "count", "noted"}
    BY <2>1 DEF AfterLook
  <2> HIDE DEF n
  <2>3. Steady(n, plan) /\ ~Stopping(e) /\ e.pc \in Busy
    BY <1>z, <2>1, <2>2 DEF Steady, Stopping, Retiring, Busy, Pc
  <2> QED
    BY <1>q, <2>1, <2>3
<1>13. CASE Register(x)
  <2> DEFINE n == [e EXCEPT !.pc = "look"]
             deed == Bare("task.registered", Mine(x))
  <2>1. /\ n.pc = "look" /\ e.pc = "register" /\ UNCHANGED record /\ AppendThen(x, deed, n)
        /\ n.plan = e.plan
    BY <1>13, <1>e DEF Register, At, Process
  <2>2. deed \in Event /\ deed.kind = "task.registered" /\ deed.task = Place(e)
    BY <1>e DEF Bare, Event, TaskKind
  <2> HIDE DEF n, deed
  <2>3. Steady(n, plan) /\ ~Stopping(e) /\ e.pc \in Busy /\ Place(e).plan = plan
    BY <1>z, <2>1 DEF Steady, Stopping, Retiring, Busy, Pc, Place
  <2> QED
    BY <1>d, <2>1, <2>2, <2>3
<1>14. CASE StartTask(x)
  <2> DEFINE n == [e EXCEPT !.pc = "count"]
             deed == Bare("task.started", Mine(x))
  <2>1. /\ n.pc = "count" /\ e.pc = "start" /\ UNCHANGED record /\ AppendThen(x, deed, n)
        /\ n.plan = e.plan
    BY <1>14, <1>e DEF StartTask, At, Process
  <2>2. deed \in Event /\ deed.kind = "task.started"
    BY <1>e DEF Bare, Event, TaskKind
  <2> HIDE DEF n, deed
  <2>3. Steady(n, plan) /\ ~Stopping(e) /\ e.pc \in Busy
    BY <1>z, <2>1 DEF Steady, Stopping, Retiring, Busy, Pc
  <2> QED
    BY <1>d, <2>1, <2>2, <2>3
<1>15. CASE Count(x)
  <2> DEFINE n == [e EXCEPT !.pc = "attempt", !.attempt = failures[Mine(x)] + 1]
  <2>1. /\ n.pc = "attempt" /\ e.pc = "count" /\ n.plan = e.plan
        /\ Become(x, n) /\ UNCHANGED <<st, record>>
    BY <1>15, <1>e DEF Count, Process, At, durable
  <2> HIDE DEF n
  <2>2. Steady(n, plan) /\ ~Stopping(e) /\ e.pc \in Busy
    BY <1>z, <2>1 DEF Steady, Stopping, Retiring, Busy, Pc
  <2> QED
    BY <1>q, <2>1, <2>2
<1>16. CASE Invoke(x)
  <2> DEFINE n == [e EXCEPT !.pc = "running"]
  <2>1. /\ n.pc = "running" /\ e.pc = "attempt" /\ n.plan = e.plan
        /\ Become(x, n) /\ UNCHANGED <<st, record>>
    BY <1>16, <1>e DEF Invoke, Goto, Process, At, durable
  <2> HIDE DEF n
  <2>2. Steady(n, plan) /\ ~Stopping(e) /\ e.pc \in Busy
    BY <1>z, <2>1 DEF Steady, Stopping, Retiring, Busy, Pc
  <2> QED
    BY <1>q, <2>1, <2>2
<1>17. CASE Exhausted(x)
  <2>1. e.pc = "attempt" /\ Become(x, Idle) /\ UNCHANGED <<st, record>>
    BY <1>17 DEF Exhausted, At, durable
  <2>2. ~Stopping(e) /\ e.pc \in Busy
    BY <2>1 DEF Stopping, Busy, Pc
  <2> QED
    BY <1>i, <2>1, <2>2
<1>18. ASSUME NEW out \in Outcome, Return(x, out) PROVE Goal
  <2> DEFINE again == [e EXCEPT !.pc = "retry"]
             over == [e EXCEPT !.pc = "record", !.task = Mine(x), !.out = out,
                               !.back = "own", !.todo = {}]
  <2>1. /\ again.pc = "retry" /\ again.plan = e.plan
        /\ over.pc = "record" /\ over.plan = e.plan /\ over.back = "own"
        /\ e.pc = "running" /\ UNCHANGED <<st, record>>
        /\ Become(x, again) \/ Become(x, over)
    BY <1>18, <1>e DEF Return, Process, At, durable
  <2> HIDE DEF again, over
  <2>2. Steady(again, plan) /\ Steady(over, plan) /\ ~Stopping(e) /\ e.pc \in Busy
    BY <1>z, <2>1 DEF Steady, Stopping, Retiring, Busy, Pc
  <2> QED
    BY <1>q, <2>1, <2>2
<1>19. CASE ReturnPause(x)
  <2> DEFINE n == ToEnd(x, "run.paused", TRUE)
  <2>1. /\ n.pc = "ending" /\ e.pc = "running" /\ n.plan = e.plan /\ n.close
        /\ Become(x, n) /\ UNCHANGED <<st, record>>
    BY <1>19, <1>e DEF ReturnPause, ToEnd, Process, At, durable
  <2> HIDE DEF n
  <2>2. Steady(n, plan) /\ ~Stopping(e) /\ e.pc \in Busy
    BY <1>z, <2>1 DEF Steady, Stopping, Retiring, Busy, Pc
  <2> QED
    BY <1>q, <2>1, <2>2
<1>20. CASE ReturnInvalid(x) \/ ControlFails(x)
  <2> DEFINE n == ToEnd(x, "run.failed", TRUE)
  <2>1. /\ n.pc = "ending" /\ n.plan = e.plan /\ n.close /\ n.end = "run.failed"
        /\ e.pc \in {"running", "leaf", "ending"}
        /\ Become(x, n) /\ UNCHANGED <<st, record>>
    BY <1>20, <1>e DEF ReturnInvalid, ControlFails, ToEnd, Process, At, durable
  <2> HIDE DEF n
  <2>2. Steady(n, plan) /\ Stopping(n) /\ e.pc \in Busy
    BY <1>z, <2>1 DEF Steady, Stopping, Retiring, Busy, Pc
  <2> QED
    BY <1>q, <2>1, <2>2
<1>22. CASE Retry(x)
  <2> DEFINE n == [e EXCEPT !.pc = "attempt", !.attempt = @ + 1]
             seen == Bare("task.evidence", Mine(x))
  <2>1. /\ n.pc = "attempt" /\ e.pc = "retry" /\ UNCHANGED record /\ AppendThen(x, seen, n)
        /\ n.plan = e.plan
    BY <1>22, <1>e DEF Retry, Process, At
  <2>2. seen \in Event /\ seen.kind = "task.evidence"
    BY <1>e DEF Bare, Event, TaskKind
  <2> HIDE DEF n, seen
  <2>3. Steady(n, plan) /\ ~Stopping(e) /\ e.pc \in Busy
    BY <1>z, <2>1 DEF Steady, Stopping, Retiring, Busy, Pc
  <2> QED
    BY <1>d, <2>1, <2>2, <2>3
<1>23. CASE Note(x)
  <2> DEFINE stop == ToEnd(x, "run.cancelled", FALSE)
             fail == ToEnd(x, "run.failed", FALSE)
  <2>1. /\ e.pc = "noted" /\ e.pc \in Busy /\ UNCHANGED <<st, record>>
        /\ \/ Become(x, stop) \/ Become(x, fail)
           \/ ~Cancels(x) /\ ~Fails(x) /\ Become(x, NextLeaf(x))
    BY <1>23 DEF Note, At, Busy, Pc
  <2>2. \A n \in {stop, fail} : /\ n.pc = "ending" /\ n.plan = e.plan
                                 /\ n.end \in {"run.failed", "run.cancelled"}
    BY <1>e DEF ToEnd, Process
  <2>3. CASE \E n \in {stop, fail} : Become(x, n)
    <3> HIDE DEF stop, fail
    <3>1. \A n \in {stop, fail} : Steady(n, plan) /\ Stopping(n)
      BY <1>z, <2>1, <2>2 DEF Steady, Stopping, Retiring
    <3> QED
      BY <1>q, <2>1, <2>3, <3>1
  <2>4. CASE ~Cancels(x) /\ ~Fails(x) /\ Become(x, NextLeaf(x))
    <3> DEFINE n == NextLeaf(x)
    <3>1. /\ n.plan = e.plan /\ n.pc \in {"leaf", "ending"}
          /\ n.pc = "ending" => n.close
      BY <1>e DEF NextLeaf, ToEnd, Process
    <3> HIDE DEF n
    <3>2. Steady(n, plan)
      BY <1>z, <2>1, <3>1 DEF Steady, Retiring
    <3>3. ~Stopping(e)
      BY <1>e, <2>1, <2>4 DEF Stopping, Cancels, Fails, Forgiven, Process, Outcome
    <3> QED
      BY <1>q, <2>1, <2>4, <3>2, <3>3 DEF n
  <2> QED
    BY <2>1, <2>3, <2>4
<1>24. CASE EndLook(x)
  <2> DEFINE n == [e EXCEPT !.pc = "end"]
  <2>1. /\ n.pc = "end" /\ e.pc = "ending" /\ e.pc \in Busy /\ UNCHANGED <<st, record>>
        /\ n.plan = e.plan /\ n.end = e.end /\ n.close = e.close
    BY <1>24, <1>e DEF EndLook, At, Process, durable, Busy, Pc
  <2>2. Become(x, n)
    BY <1>24, <1>k, <2>1 DEF EndLook, Knows
  <2> HIDE DEF n
  <2>3. Steady(n, plan) /\ (Stopping(e) => Stopping(n))
    BY <1>z, <2>1 DEF Steady, Stopping, Retiring
  <2> QED
    BY <1>q, <2>1, <2>2, <2>3
<1>25. CASE End(x)
  <2> DEFINE last == Bare(e.end, NoTask)
  <2>1. /\ UNCHANGED record /\ e.end \in RunEnd /\ e.end \in RunKind /\ e.pc = "end" /\ e.pc \in Busy
        /\ AppendThen(x, last, After(x))
    BY <1>25, <1>e DEF End, Process, RunEnd, RunKind, At, Busy, Pc
  <2>2. st.run = "active"
    BY <1>k, <2>1 DEF Knows
  <2>3. Stopping(e) => Legal(st, last)
    BY <1>s, <2>1, <2>2, EndIsLegal DEF Stopping
  <2>4. CASE ~Legal(st, last) /\ Refused(x)
    BY <1>i, <2>1, <2>3, <2>4
  <2>5. CASE st' = Apply(st, last) /\ Become(x, After(x))
    <3>1. st'.tasks = st.tasks /\ st'.run = RunAfter("active", e.end)
      BY <1>e, <2>1, <2>2, <2>5, RunEvent
    <3>2. /\ ex'[x] = After(x) /\ After(x).pc \in {"idle", "closing"}
          /\ After(x) # Idle => After(x).plan = e.plan
          /\ e.close => After(x).pc = "closing"
      BY <1>e, <2>5, IdleInPlace DEF Become, After, Process
    <3>3. Steady(After(x), plan)
      BY <1>z, <2>1, <3>2, IdleInPlace DEF Steady, Retiring
    <3>4. OnePlan(st', plan)
      BY <1>c, <3>1 DEF CalmGoal, OnePlan, Status
    <3>5. Spoilt(st', record) => st'.run \in {"failed", "cancelled"}
      <4>1. Spoilt(st', record) => Spoilt(st, record)
        BY <3>1 DEF Spoilt, Closed, Status
      <4>2. Stopping(e) => e.end \in {"run.failed", "run.cancelled"}
        BY <2>1 DEF Stopping
      <4>3. e.end \in {"run.failed", "run.cancelled"} => st'.run \in {"failed", "cancelled"}
        BY <3>1 DEF RunAfter
      <4> QED
        BY <1>c, <2>2, <4>1, <4>2, <4>3 DEF CalmGoal
    <3>6. ASSUME st'.run = "completed"
          PROVE  Carried(st', record, plan) /\ After(x).pc = "closing"
      <4>1. e.end = "run.completed"
        BY <2>1, <3>1, <3>6 DEF RunAfter, RunEnd
      <4>2. e.close /\ e.plan = plan /\ e.leaf = Leaves[e.plan] /\ Status(st, Place(e)) = "completed"
        BY <1>p, <1>z, <2>1, <4>1 DEF Steady, Follows, Finished
      <4>3. ~Spoilt(st, record)
        BY <1>c, <2>1, <2>2, <4>1 DEF CalmGoal, Stopping
      <4>4. ASSUME NEW n \in 1 .. Leaves[plan]
            PROVE  \E t \in Task : t.plan = plan /\ t.leaf = n /\ Closed(st, t)
        <5>1. CASE n = Leaves[plan]
          BY <1>e, <4>2, <5>1 DEF Place, Closed
        <5>2. CASE n # Leaves[plan]
          <6>1. n \in 1 .. (e.leaf - 1)
            BY <4>2, <5>2, LeafFacts
          <6> QED
            BY <1>p, <4>2, <6>1 DEF Follows, Path, Done, Closed
        <5> QED
          BY <5>1, <5>2
      <4>5. Carried(st, record, plan)
        BY <4>3, <4>4 DEF Carried, Spoilt
      <4> QED
        BY <3>1, <3>2, <4>2, <4>5 DEF Carried, Closed, Status
    <3> QED
      BY <2>1, <3>2, <3>3, <3>4, <3>5, <3>6 DEF CalmGoal, Goal
  <2> QED
    BY <2>1, <2>4, <2>5 DEF AppendThen
<1>26. CASE Close(x)
  <2>1. /\ e.pc = "closing" /\ ex'[x] = Idle /\ UNCHANGED <<st, record>> /\ ckpt' = st.last
    BY <1>26, <1>e DEF Close, Become, At
  <2>2. Steady(Idle, plan) /\ ~Stopping(e)
    BY <2>1, IdleInPlace DEF Steady, Retiring, Stopping
  <2> QED
    BY <1>c, <2>1, <2>2 DEF CalmGoal, Goal
<1> QED
  BY <1>2, <1>3, <1>4, <1>5, <1>6, <1>7, <1>8, <1>9, <1>10, <1>11, <1>12, <1>13, <1>14, <1>15,
     <1>16, <1>17, <1>18, <1>19, <1>20, <1>22, <1>23, <1>24, <1>25, <1>26
     DEF Work

(* Where a run begins there is nothing to keep. *)
LEMMA CalmInit == ASSUME NEW plan \in Plan, Init PROVE CalmInv(plan)
<1>1. SoleInv /\ PlaceInv
  BY SoleInit
<1>2. \A t \in Task : Status(st, t) = "absent"
  <2>1. NewRun \in State /\ \A t \in Task : NewRun.tasks[t].status = "absent"
    BY DEF NewRun, State, Absent, TaskState, RunStatus, TaskStatus, Binding
  <2>2. st.tasks = NewRun.tasks
    BY <2>1, RunEvent DEF Init, RunKind
  <2> QED
    BY <2>1, <2>2 DEF Status
<1>3. st.run = "active"
  <2>1. NewRun \in State /\ "run.created" \in RunKind /\ RunAfter(NewRun.run, "run.created") = "active"
    BY DEF NewRun, State, Absent, TaskState, RunStatus, TaskStatus, Binding, RunKind, RunAfter
  <2> QED
    BY <2>1, RunEvent DEF Init
<1>4. \A x \in Executor : Steady(ex[x], plan)
  BY IdleInPlace DEF Init, Steady, Retiring
<1> QED
  BY <1>1, <1>2, <1>3, <1>4 DEF CalmInv, OnePlan, Stops, Spoilt, Closed, Concludes

(* Every undisturbed step keeps it. *)
LEMMA CalmStep ==
  ASSUME NEW plan \in Plan, NEW x \in Executor, Sole(x), OneBinding, CalmInv(plan), [Executes(x, {plan})]_vars
  PROVE  Sole(x)' /\ CalmInv(plan)'
<1>0. SoleInv /\ PlaceInv
  BY DEF CalmInv
<1>1. CASE UNCHANGED vars
  BY <1>1 DEF vars, CalmInv, SoleInv, PlaceInv, Placed, Shape, Counted, Known, Sole
<1>2. CASE Executes(x, {plan})
  <2>1. Work(x) /\ (At(x, "idle") => ex'[x].plan = plan)
    BY <1>2 DEF Executes
  <2>2. Sole(x)' /\ SoleInv' /\ PlaceInv'
    BY <1>0, <2>1, SoleInvStep, PlaceInvStep
  <2>3. \A y \in Executor : y = x \/ (ex[y] = Idle /\ ex'[y] = Idle)
    BY <2>2 DEF Sole
  <2>4. Steady(Idle, plan) /\ ~Stopping(Idle) /\ Idle.pc # "closing"
    BY IdleInPlace DEF Steady, Stopping, Retiring
  <2>5. CalmGoal(st, record, ckpt, ex[x], plan)
    BY <2>3, <2>4 DEF CalmInv, CalmGoal, Stops, Concludes
  <2>6. CalmGoal(st', record', ckpt', ex'[x], plan)
    BY <1>0, <2>1, <2>5, CalmWork
  <2> QED
    BY <2>2, <2>3, <2>4, <2>6 DEF CalmInv, CalmGoal, Stops, Concludes
<1> QED
  BY <1>1, <1>2

(* What it says of the outcomes. *)
LEMMA TrueByCalm ==
  ASSUME NEW plan \in Plan, CalmInv(plan)
  PROVE  CompletedMeansSucceeded /\ FailureIsTerminal /\ CompletedIsReadable
<1>1. ASSUME st.run = "completed" PROVE ~Spoilt(st, record)
  <2>1. \A x \in Executor : ex[x].pc \notin Busy
    BY <1>1 DEF CalmInv, SoleInv, Known, Knows
  <2>2. \A x \in Executor : ~Stopping(ex[x])
    BY <2>1 DEF Stopping, Busy, Pc
  <2> QED
    BY <1>1, <2>2 DEF CalmInv, Stops
<1>2. CompletedMeansSucceeded
  BY DEF CalmInv, Concludes, Carried, Closed, Forgiven, Status, CompletedMeansSucceeded
<1>3. FailureIsTerminal
  BY <1>1 DEF FailureIsTerminal, Spoilt, Closed, Forgiven, Status
<1>4. CompletedIsReadable
  BY DEF CalmInv, Concludes, CompletedIsReadable, AllIdle, At
<1> QED
  BY <1>2, <1>3, <1>4

(* Outcomes before a leaf that is invoked are on record and forgiven. *)
LEMMA FollowsByCalm ==
  ASSUME NEW plan \in Plan, NEW only \in Executor, Sole(only), CalmInv(plan)
  PROVE  FollowsNoCancelled
<1> SUFFICES ASSUME NEW x \in Executor, At(x, "attempt"), NEW n \in DOMAIN ex[x].ctx
             PROVE  ex[x].ctx[n] # "cancelled"
  BY DEF FollowsNoCancelled, Invokes
<1> DEFINE e == ex[x]
<1>1. InPlace(e) /\ Path(st, record, e) /\ st.run = "active"
  BY DEF CalmInv, SoleInv, Shape, Processes, PlaceInv, Follows, Known, Knows, At, Busy, Pc
<1>2. ~Spoilt(st, record)
  BY <1>1, IdleInPlace DEF CalmInv, Stops, Stopping, Sole, At
<1>3. n \in 1 .. (e.leaf - 1)
  BY <1>1 DEF InPlace, Process
<1>4. Done(st, record, e.plan, n, e.ctx[n])
  BY <1>1, <1>3 DEF Path
<1> QED
  BY <1>2, <1>4 DEF Done, Spoilt, Closed, Forgiven

(* One executor that only pauses interrupt, one plan, one binding: a run   *)
(* completes only when each of its leaves succeeded or was forgiven, a     *)
(* failure that is not forgiven ends it as failed, its result can be read  *)
(* again, and no leaf is invoked on top of a cancelled one.                *)
THEOREM UndisturbedIsTrue ==
  ASSUME NEW CONSTANT plan \in Plan, NEW CONSTANT x \in Executor, OneBinding
  PROVE  CalmSpec(x, plan) =>
           /\ [](CompletedMeansSucceeded /\ FailureIsTerminal /\ CompletedIsReadable)
           /\ NothingFollowsCancelled
<1>1. OneBinding
  OBVIOUS
<1>2. Init => Sole(x) /\ CalmInv(plan)
  BY CalmInit, SoleStart
<1>3. Sole(x) /\ CalmInv(plan) /\ [Executes(x, {plan})]_vars => (Sole(x) /\ CalmInv(plan))'
  BY <1>1, CalmStep
<1>4. CalmInv(plan) => CompletedMeansSucceeded /\ FailureIsTerminal /\ CompletedIsReadable
  BY TrueByCalm
<1>5. Sole(x) /\ CalmInv(plan) => [FollowsNoCancelled]_vars
  BY FollowsByCalm
<1> QED
  BY <1>2, <1>3, <1>4, <1>5, PTL DEF CalmSpec, NothingFollowsCancelled

-----------------------------------------------------------------------------
(* The settings of MCWorkflow, with any constants. *)
SettingInv ==
  /\ Shape
  /\ setting \in {"one", "calm"} => Sole(x1) /\ SoleInv
  /\ setting \in {"one", "calm"} /\ OneBinding => PlaceInv
  /\ setting = "calm" /\ OneBinding => CalmInv(planA)

(* It holds at first and every step of MCNext keeps it. *)
LEMMA SettingsKeep ==
  /\ MCInit => SettingInv
  /\ SettingInv /\ [MCNext]_<<vars, setting>> => SettingInv'
<1> USE SettingAssumption
<1>1. MCInit => SettingInv
  BY SoleInit, SoleStart, CalmInit, InitShape DEF MCInit, SettingInv
<1>2. ASSUME SettingInv, [MCNext]_<<vars, setting>> PROVE SettingInv'
  <2>1. setting' = setting
    BY <1>2 DEF MCNext
  <2>2. [Next]_vars
    BY <1>2 DEF MCNext, One, Pair, Calm, Executes, Next
  <2>3. Shape'
    BY <1>2, <2>2, ShapeStep DEF SettingInv
  <2>4. ASSUME setting \in {"one", "calm"} PROVE [Work(x1) \/ Crash(x1)]_vars
    BY <1>2, <2>4 DEF MCNext, One, Calm, Executes
  <2>5. ASSUME setting \in {"one", "calm"} PROVE Sole(x1)' /\ SoleInv'
    BY <1>2, <2>4, <2>5, SoleInvStep DEF SettingInv
  <2>6. ASSUME setting \in {"one", "calm"}, OneBinding PROVE PlaceInv'
    BY <1>2, <2>4, <2>6, PlaceInvStep DEF SettingInv
  <2>7. ASSUME setting = "calm", OneBinding PROVE CalmInv(planA)'
    <3>1. [Executes(x1, {planA})]_vars
      BY <1>2, <2>7 DEF MCNext, Calm
    <3> QED
      BY <1>2, <2>7, <3>1, CalmStep DEF SettingInv
  <2> QED
    BY <2>1, <2>3, <2>5, <2>6, <2>7 DEF SettingInv
<1> QED
  BY <1>1, <1>2

(* Whatever the setting, an invariant that SettingInv implies holds. *)
LEMMA SettingsInvariant == MCSpec => []SettingInv
BY SettingsKeep, PTL DEF MCSpec

(* In all settings, those of any number of executors included: everything  *)
(* has its type, and a completion binds the record that stays.             *)
THEOREM RecordsAlwaysStay == MCSpec => []RecordsStay
<1>1. SettingInv => RecordsStay
  BY ShapeTyped, KeptReadsBack DEF SettingInv, RecordsStay
<1> QED
  BY <1>1, SettingsInvariant, PTL

(* Bounded attempts and completions that are taken, for one executor.      *)
THEOREM BoundedAndTaken == ASSUME OneBinding PROVE MCSpec => []BoundedAndAdmitted
<1>1. OneBinding
  OBVIOUS
<1>2. SettingInv => BoundedAndAdmitted
  BY <1>1, BoundedBySole, AdmittedByPlace DEF SettingInv, BoundedAndAdmitted, In
<1> QED
  BY <1>2, SettingsInvariant, PTL

(* True outcomes, in the undisturbed setting. *)
THEOREM OutcomesStayTrue == ASSUME OneBinding PROVE MCSpec => []OutcomesAreTrue
<1>1. OneBinding
  OBVIOUS
<1>2. SettingInv => OutcomesAreTrue
  BY <1>1, TrueByCalm, SettingAssumption DEF SettingInv, OutcomesAreTrue, In
<1> QED
  BY <1>2, SettingsInvariant, PTL

(* Authorized invocations, in both settings of one executor. *)
THEOREM LeavesAuthorized == ASSUME OneBinding PROVE MCSpec => LeavesAreAuthorized
<1>1. OneBinding
  OBVIOUS
<1>2. SettingInv =>
        [/\ In("one") => WorkAuthorized
         /\ In("calm") => FollowsNoCancelled]_<<vars, setting>>
  BY <1>1, AuthorizedBySole, FollowsByCalm, SettingAssumption DEF SettingInv, In
<1> QED
  BY <1>2, SettingsInvariant, PTL DEF LeavesAreAuthorized
=============================================================================
