------------------------------ MODULE RunState ------------------------------
(***************************************************************************)
(* The state one execution run is in, as a function of its event log.      *)
(*                                                                         *)
(* execution_ledger.py never stores the state of a run: it stores the      *)
(* events, and rebuilds the state from them before every decision.  This   *)
(* module is that reducer: Legal is the admission rule for one more event, *)
(* Apply the state after it and Reconstruct the fold over a whole log.     *)
(* ExecutionLedger, RunLifecycle, ExecutionResume, WorkflowExecution and   *)
(* IsolatedTasks are all built on it, and their proofs on its lemmas.      *)
(*                                                                         *)
(* Abstractions: a SHA-256 is a member of Digest; a binding is a source    *)
(* and a digest (its artifact/evidence kind decides nothing here); of a    *)
(* payload only what a rule reads is kept: "req" is the declared           *)
(* required_completion_evidence, "proof" the contract a completion-ready   *)
(* evidence event satisfies.                                               *)
(***************************************************************************)
EXTENDS Integers, Sequences, FiniteSets, TLAPS

CONSTANTS
  Task, NoTask,        \* task ids; the task of an event about the run
  Source, Digest,      \* files that bindings name; SHA-256 of their bytes
  Commit, NoCommit,    \* Git commits; an event that names none
  Contract             \* evidence contracts a task may declare

ASSUME NoTaskAssumption == NoTask \notin Task
ASSUME NoCommitAssumption == NoCommit \notin Commit

RunKind == {"run.created", "run.paused", "run.resumed",
            "run.completed", "run.failed", "run.cancelled"}
TaskKind == {"task.registered", "task.started", "task.reopened",
             "task.dispatch_reserved", "task.implementation", "task.review",
             "task.evidence", "task.completed", "task.failed"}

RunStatus == {"new", "active", "paused", "completed", "failed", "cancelled"}
RunTerminal == {"completed", "failed", "cancelled"}
TaskStatus == {"absent", "registered", "started", "completed", "failed"}
TaskTerminal == {"completed", "failed"}

Binding == [src : Source, dig : Digest]

(* An event as its caller describes it; the duplicate-key check of         *)
(* append_event makes the bindings of one event a function of the source.  *)
Event == [kind : RunKind, task : {NoTask}, commit : Commit \cup {NoCommit},
          binds : SUBSET Binding, req : SUBSET Contract, proof : SUBSET Contract]
         \cup
         [kind : TaskKind, task : Task, commit : Commit \cup {NoCommit},
          binds : SUBSET Binding, req : SUBSET Contract, proof : SUBSET Contract]

DistinctSources(binds) == \A b, c \in binds : b.src = c.src => b = c

(* What append_event takes before it looks at the run.                     *)
Wellformed(requests) ==
  requests \subseteq {e \in Event : DistinctSources(e.binds)}

(* "ready" holds the completion-ready evidence of the current attempt.     *)
TaskState == [status : TaskStatus, commit : Commit \cup {NoCommit},
              binds : SUBSET Binding, req : SUBSET Contract,
              ready : SUBSET (Contract \X Binding)]
State == [run : RunStatus, last : Nat, tasks : [Task -> TaskState]]

Absent == [status |-> "absent", commit |-> NoCommit, binds |-> {},
           req |-> {}, ready |-> {}]
NewRun == [run |-> "new", last |-> 0, tasks |-> [t \in Task |-> Absent]]

(* Every contract the task declared is met by evidence of this attempt     *)
(* that one of the completion's own bindings repeats.                      *)
Evidenced(ts, binds) == \A c \in ts.req : \E b \in binds : <<c, b>> \in ts.ready

(* The statuses a task may be in when an event of this kind names it.      *)
StatusBefore(kind) ==
  CASE kind = "task.registered"        -> {"absent"}
    [] kind = "task.started"           -> {"registered"}
    [] kind = "task.reopened"          -> TaskTerminal
    [] kind = "task.dispatch_reserved" -> {"registered", "started"}
    [] OTHER                           -> {"started"}

CompletionUnproved(ts, e) == e.commit # NoCommit /\ e.binds # {}   \* mutant: no evidence

CompletionLegal(ts, e) == e.commit # NoCommit /\ e.binds # {} /\ Evidenced(ts, e.binds)

TaskLegal(ts, e) ==
  /\ ts.status \in StatusBefore(e.kind)
  /\ e.kind = "task.completed" => CompletionLegal(ts, e)

NoneStarted(st) == \A t \in Task : st.tasks[t].status # "started"   \* mutant: tasks left behind

AllDone(st) == \A t \in Task : st.tasks[t].status \in {"absent", "completed"}

EndedWell(st) == st.run = "completed"   \* mutant: a failed or cancelled run goes on

Ended(st) == st.run \in RunTerminal

Legal(st, e) ==
  /\ ~Ended(st)
  /\ (e.kind = "run.created") <=> (st.last = 0)
  /\ st.run = "paused" => e.kind \in {"run.resumed", "run.failed", "run.cancelled"}
  /\ e.kind = "run.paused" => st.run = "active"
  /\ e.kind = "run.resumed" => st.run = "paused"
  /\ e.kind \in TaskKind => TaskLegal(st.tasks[e.task], e)
  /\ e.kind = "run.completed" => AllDone(st)

RunAfter(run, kind) ==
  CASE kind \in {"run.created", "run.resumed"} -> "active"
    [] kind = "run.paused"    -> "paused"
    [] kind = "run.completed" -> "completed"
    [] kind = "run.failed"    -> "failed"
    [] kind = "run.cancelled" -> "cancelled"

ReopenedAsIs(ts) == [ts EXCEPT !.status = "registered"]   \* mutant: old evidence counts
ReopenedByName(ts) == [Absent EXCEPT !.status = "reopened", !.req = ts.req]   \* mutant

Reopened(ts) == [Absent EXCEPT !.status = "registered", !.req = ts.req]

TaskAfter(ts, e) ==
  CASE e.kind = "task.registered" ->
         [Absent EXCEPT !.status = "registered", !.req = e.req]
    [] e.kind = "task.reopened" -> Reopened(ts)
    [] e.kind = "task.started" ->
         [ts EXCEPT !.status = "started", !.commit = NoCommit, !.binds = {}]
    [] e.kind = "task.evidence" ->
         [ts EXCEPT !.ready = @ \cup ((e.proof \cap ts.req) \X e.binds)]
    [] e.kind = "task.completed" ->
         [ts EXCEPT !.status = "completed", !.commit = e.commit, !.binds = e.binds]
    [] e.kind = "task.failed" ->
         [ts EXCEPT !.status = "failed", !.commit = e.commit, !.binds = e.binds]
    [] OTHER -> ts

Apply(st, e) ==
  IF e.kind \in TaskKind
  THEN [st EXCEPT !.last = @ + 1, !.tasks[e.task] = TaskAfter(@, e)]
  ELSE [st EXCEPT !.last = @ + 1, !.run = RunAfter(@, e.kind)]

(* States after each prefix of a sequence of events; entry 0 is NewRun.    *)
History(evs) ==
  LET after[n \in 0 .. Len(evs)] ==
        IF n = 0 THEN NewRun ELSE Apply(after[n - 1], evs[n])
  IN  after

Reconstruct(evs) == History(evs)[Len(evs)]

(* A log every line of which the reducer admits where it stands.           *)
AllLegal(evs) ==
  LET h == History(evs) IN \A n \in 1 .. Len(evs) : Legal(h[n - 1], evs[n])

(* An event with nothing but its kind and task. *)
Bare(kind, task) == [kind |-> kind, task |-> task, commit |-> NoCommit,
                     binds |-> {}, req |-> {}, proof |-> {}]
-----------------------------------------------------------------------------
(* Lemmas about the reducer, for the modules that prove about a log.  A    *)
(* recursive function is unfolded only where it is known to exist; Folds   *)
(* says that it does, and is the only one, for a given log.  It holds of   *)
(* the empty log and is kept by Append, so that a specification that grows *)
(* its log by Append carries it as an invariant.                           *)

(* An event changes at most the task it names, and by TaskAfter. *)
LEMMA ApplyTask ==
  ASSUME NEW s \in State, NEW e \in Event, NEW t \in Task
  PROVE  Apply(s, e).tasks[t] =
           IF e.kind \in TaskKind /\ e.task = t
           THEN TaskAfter(s.tasks[t], e) ELSE s.tasks[t]
BY DEF State, Apply

(* The reducer never leaves the states it is defined on. *)
LEMMA TaskAfterType ==
  ASSUME NEW ts \in TaskState, NEW e \in Event
  PROVE  TaskAfter(ts, e) \in TaskState
BY DEF TaskState, Event, Binding, TaskAfter, Reopened, Absent, TaskStatus, TaskKind, RunKind

(* Apply keeps a run in the set of its states. *)
LEMMA ApplyType ==
  ASSUME NEW s \in State, NEW e \in Event
  PROVE  Apply(s, e) \in State
<1>1. CASE e.kind \in TaskKind
  <2>1. e.task \in Task
    BY <1>1 DEF Event, TaskKind, RunKind
  <2>2. TaskAfter(s.tasks[e.task], e) \in TaskState
    BY <2>1, TaskAfterType DEF State
  <2>3. Apply(s, e) = [run |-> s.run, last |-> s.last + 1,
                       tasks |-> [s.tasks EXCEPT ![e.task] = TaskAfter(@, e)]]
    BY <1>1 DEF Apply, State
  <2> QED
    BY <2>1, <2>2, <2>3 DEF State
<1>2. CASE e.kind \notin TaskKind
  <2>1. RunAfter(s.run, e.kind) \in RunStatus
    BY <1>2 DEF Event, RunAfter, RunStatus, RunKind
  <2>2. Apply(s, e) = [run |-> RunAfter(s.run, e.kind), last |-> s.last + 1,
                       tasks |-> s.tasks]
    BY <1>2 DEF Apply, State
  <2> QED
    BY <2>1, <2>2 DEF State
<1> QED
  BY <1>1, <1>2

Unfolds(f, evs) ==
  f = [n \in 0 .. Len(evs) |-> IF n = 0 THEN NewRun ELSE Apply(f[n - 1], evs[n])]

Folds(evs) ==
  /\ Unfolds(History(evs), evs)
  /\ \A f : Unfolds(f, evs) => f = History(evs)

(* A fold that exists is the one History chooses. *)
LEMMA HistoryUnfolds ==
  ASSUME NEW evs, NEW f, Unfolds(f, evs)
  PROVE  Unfolds(History(evs), evs)
BY DEF Unfolds, History

(* The empty log folds, to the state of a run that does not exist yet. *)
LEMMA EmptyFolds == Folds(<<>>) /\ Reconstruct(<<>>) = NewRun
<1> DEFINE f == [n \in 0 .. 0 |-> NewRun]
<1>1. Unfolds(f, <<>>)
  BY DEF Unfolds
<1>2. \A g : Unfolds(g, <<>>) => g = f
  BY DEF Unfolds
<1>3. History(<<>>) = f
  BY <1>1, <1>2, HistoryUnfolds
<1> QED
  BY <1>1, <1>2, <1>3 DEF Folds, Reconstruct

(* One more line leaves the fold of the lines before it as it was, and the *)
(* state after it is the reducer's step from the state before it.          *)
LEMMA AppendFolds ==
  ASSUME NEW S, NEW evs \in Seq(S), NEW e \in S, Folds(evs)
  PROVE  /\ Folds(Append(evs, e))
         /\ \A n \in 0 .. Len(evs) : History(Append(evs, e))[n] = History(evs)[n]
         /\ Reconstruct(Append(evs, e)) = Apply(Reconstruct(evs), e)
<1> DEFINE more == Append(evs, e)
           h == History(evs)
           f == [n \in 0 .. Len(more) |->
                   IF n = 0 THEN NewRun
                   ELSE IF n <= Len(evs) THEN h[n] ELSE Apply(h[Len(evs)], e)]
<1>1. /\ Len(evs) \in Nat /\ Len(more) = Len(evs) + 1
      /\ \A n \in 1 .. Len(evs) : more[n] = evs[n]
      /\ more[Len(evs) + 1] = e
  OBVIOUS
<1>2. h = [n \in 0 .. Len(evs) |-> IF n = 0 THEN NewRun ELSE Apply(h[n - 1], evs[n])]
  BY DEF Folds, Unfolds
<1> HIDE DEF more, h
<1>3. \A n \in 0 .. Len(evs) : f[n] = h[n]
  BY <1>1, <1>2
<1>4. Unfolds(f, more)
  <2>1. ASSUME NEW n \in 0 .. Len(more)
        PROVE  f[n] = IF n = 0 THEN NewRun ELSE Apply(f[n - 1], more[n])
    <3>1. CASE n = 0
      BY <3>1
    <3>2. CASE n \in 1 .. Len(evs)
      <4>1. f[n] = Apply(h[n - 1], evs[n])
        BY <3>2, <1>1, <1>2
      <4>2. f[n - 1] = h[n - 1]
        BY <3>2, <1>1, <1>3
      <4> QED
        BY <3>2, <1>1, <4>1, <4>2
    <3>3. CASE n = Len(evs) + 1
      <4>1. f[n - 1] = h[Len(evs)]
        BY <3>3, <1>1, <1>3
      <4> QED
        BY <3>3, <1>1, <4>1
    <3> QED
      BY <3>1, <3>2, <3>3, <1>1
  <2> QED
    BY <2>1 DEF Unfolds
<1>5. ASSUME NEW g, Unfolds(g, more) PROVE g = f
  <2> DEFINE cut == [n \in 0 .. Len(evs) |-> g[n]]
  <2>1. \A n \in 0 .. Len(more) :
          g[n] = IF n = 0 THEN NewRun ELSE Apply(g[n - 1], more[n])
    BY <1>5 DEF Unfolds
  <2>2. Unfolds(cut, evs)
    <3>1. ASSUME NEW n \in 0 .. Len(evs)
          PROVE  cut[n] = IF n = 0 THEN NewRun ELSE Apply(cut[n - 1], evs[n])
      <4>1. CASE n = 0
        BY <4>1, <2>1, <1>1
      <4>2. CASE n \in 1 .. Len(evs)
        <5>1. n - 1 \in 0 .. Len(evs) /\ n \in 0 .. Len(more)
          BY <4>2, <1>1
        <5>2. cut[n - 1] = g[n - 1] /\ cut[n] = g[n]
          BY <5>1
        <5> QED
          BY <4>2, <5>1, <5>2, <2>1, <1>1
      <4> QED
        BY <4>1, <4>2, <1>1
    <3> QED
      BY <3>1 DEF Unfolds
  <2>3. cut = h
    BY <2>2 DEF Folds, h
  <2>4. \A n \in 0 .. Len(evs) : g[n] = h[n]
    BY <2>3
  <2>5. \A n \in 0 .. Len(more) : g[n] = f[n]
    <3>1. g[Len(evs) + 1] = Apply(h[Len(evs)], e)
      BY <2>1, <2>4, <1>1
    <3>2. f[Len(evs) + 1] = Apply(h[Len(evs)], e)
      BY <1>1
    <3>3. \A n \in 0 .. Len(evs) : g[n] = f[n]
      BY <2>4, <1>3
    <3>4. 0 .. Len(more) = (0 .. Len(evs)) \cup {Len(evs) + 1}
      BY <1>1
    <3> HIDE DEF f
    <3> QED
      BY <3>1, <3>2, <3>3, <3>4
  <2>6. g = [n \in 0 .. Len(more) |-> g[n]]
    BY <1>5 DEF Unfolds
  <2> QED
    BY <2>5, <2>6
<1>6. History(more) = f
  <2>1. Unfolds(History(more), more)
    BY <1>4, HistoryUnfolds
  <2> QED
    BY <2>1, <1>5
<1>7. Folds(more)
  BY <1>4, <1>5, <1>6 DEF Folds
<1>8. Reconstruct(more) = Apply(Reconstruct(evs), e)
  BY <1>1, <1>6 DEF Reconstruct, h
<1> QED
  BY <1>3, <1>6, <1>7, <1>8 DEF h, more
=============================================================================
