----------------------- MODULE CompletionBarrierProofs -----------------------
(***************************************************************************)
(* Isolated work and its completion, for any tasks, profiles, contents,    *)
(* attempts and commits.                                                   *)
(*                                                                         *)
(* Contracts and results are written once, so what a contract was granted  *)
(* on stays true (Written); what a barrier call has checked stays true     *)
(* while it goes on, for it is the only caller that writes files           *)
(* (Checked), except that its task may have been given up and reopened,    *)
(* which leaves the task where the ledger refuses its completion (Own).    *)
(* So what is completed was proved by the attempt it is in (Proven), and   *)
(* what a final review covers is what completed (Whole).                   *)
(***************************************************************************)
EXTENDS CompletionBarrier

(* Results have digests and invocations can be bound; commits are those    *)
(* that the bound on them admits.                                          *)
Parameters ==
  /\ Invocation \subseteq Source /\ Result \subseteq Digest
  /\ MaxHead \in Nat /\ 0 .. MaxHead \subseteq Commit
  /\ MaxAttempt \in Nat \ {0} /\ Task # {}

Completing == {"checkQuality", "checkSpec", "evidence", "complete"}
Pc == {"idle", "contract", "begin", "run", "worked", "persist", "mirror", "event",
       "materialize", "final", "checkFinal", "checkChains", "end"} \cup Completing

Driver(n) ==
  [pc : Pc, slot : Slot, profile : Profile \cup {NoProfile},
   worker : Profile \cup {NoProfile}, pred : Profile \cup {NoProfile},
   before : Content, result : Result, calm : BOOLEAN, final : {n}]

Types ==
  /\ TypeOK /\ head \in 0 .. MaxHead /\ order \in Seq(Task)
  /\ d \in Driver(d.final)

(* The slot of another stage of the same attempt. *)
Stg(slot, stage) == <<slot[1], slot[2], stage>>
OfIn(r, slot) == {p \in Profile : <<slot, p>> \in DOMAIN r}
PassedIn(r, i) == i \in DOMAIN r /\ r[i].status = "passed"

Based(c, r, s) == PassedIn(r, <<Stg(s, "implement"), c[s].worker>>)
Follows(c, r, s) ==
  PassedIn(r, <<Stg(s, "spec"), c[s].pred>>) /\ c[Stg(s, "spec")].worker = c[s].worker

Written(c, r) ==
  /\ \A i \in DOMAIN r : i[1] \in DOMAIN c
  /\ \A s \in DOMAIN c : s[3] # "implement" => Based(c, r, s)
  /\ \A s \in DOMAIN c : s[3] = "quality" => Follows(c, r, s)

(* A stage: what its call relies on. *)
Underway(e, c, r) ==
  /\ e.pc = "contract" /\ e.slot[3] # "implement" =>
       PassedIn(r, <<Stg(e.slot, "implement"), e.worker>>)
  /\ e.pc \in {"begin", "run", "worked", "persist"} => e.slot \in DOMAIN c
  /\ e.pc \in {"run", "worked", "persist", "mirror", "event"} => e.profile \in Profile
  /\ e.pc \in {"mirror", "event"} => <<e.slot, e.profile>> \in DOMAIN r

(* A completion: what was checked so far. *)
Review(e, c, r, stage) ==
  LET slot == Stg(e.slot, stage) IN
  \E p \in Profile :
    /\ OfIn(r, slot) = {p} /\ PassedIn(r, <<slot, p>>)
    /\ r[<<slot, p>>].commit = e.result.commit /\ c[slot].worker = e.worker

Checked(e, c, r) ==
  /\ e.pc \in {"checkSpec", "evidence", "complete"} =>
       Review(e, c, r, "quality")
       /\ OfIn(r, Stg(e.slot, "spec")) = {c[Stg(e.slot, "quality")].pred}
  /\ e.pc \in {"evidence", "complete"} => Review(e, c, r, "spec")

Own(e, s, a) ==
  e.pc \in Completing =>
    a[e.slot[1]] = e.slot[2] \/ s.tasks[e.slot[1]].status # "started"

SeenOn(k, h, w, q) == k.commit = h /\ k.ws = w /\ k.src = q
Calm(e, c, h, w, q) ==
  e.calm =>
    /\ e.pc \in {"checkSpec", "evidence", "complete"} => SeenOn(c[Stg(e.slot, "quality")], h, w, q)
    /\ e.pc \in {"evidence", "complete"} => SeenOn(c[Stg(e.slot, "spec")], h, w, q)

(* A completed task in its attempt n. *)
ProvenBy(ts, q, s, c, r) ==
  /\ q \in DOMAIN c /\ s \in DOMAIN c
  /\ \E p \in Profile : {b.src : b \in ts.binds} = {<<s, c[q].pred>>, <<q, p>>}
  /\ \A b \in ts.binds : b.src \in DOMAIN r /\ b.dig = r[b.src] /\ b.dig.status = "passed"
                         /\ b.dig.commit = ts.commit
Proven(s, a, c, r) ==
  \A t \in Task : s.tasks[t].status = "completed" =>
    ProvenBy(s.tasks[t], <<t, a[t], "quality">>, <<t, a[t], "spec">>, c, r)

(* The final review n covers what completed. *)
Covering(ts, k, t) ==
  /\ {b.src : b \in ts.binds} = {k.covers[t]["spec"], k.covers[t]["quality"]}
  /\ ts.commit = k.commit
Whole(n, s, f) ==
  /\ DOMAIN f[n].covers = {t \in Task : s.tasks[t].status # "absent"}
  /\ \A t \in Task : s.tasks[t].status = "completed" => Covering(s.tasks[t], f[n], t)

Favourable(e, f, v) ==
  e.final \in DOMAIN v /\ v[e.final].status = "passed" /\ f[e.final].commit = e.result.commit
Judged(e, s, f, v) ==
  /\ DOMAIN v \subseteq DOMAIN f
  /\ e.pc = "final" => e.final \in DOMAIN f
  /\ e.pc \in {"checkChains", "end"} => Favourable(e, f, v)
  /\ e.pc = "end" => Whole(e.final, s, f)
Ending(s, f, v) ==
  s.run = "completed" =>
    AllDone(s) /\ \E n \in DOMAIN v : v[n].status = "passed" /\ Whole(n, s, f)

IInv ==
  /\ Types
  /\ Written(contracts, results)
  /\ Underway(d, contracts, results)
  /\ Checked(d, contracts, results)
  /\ Own(d, st, attempt)
  /\ Calm(d, contracts, head, ws, src)
  /\ Proven(st, attempt, contracts, results)
  /\ Judged(d, st, finals, verdicts)
  /\ Ending(st, finals, verdicts)
-----------------------------------------------------------------------------
(* The events of isolated work have their type. *)
LEMMA BareEvent ==
  ASSUME NEW kind \in TaskKind, NEW t \in Task
  PROVE  Bare(kind, t) \in Event /\ Bare(kind, t).kind = kind /\ Bare(kind, t).task = t
BY DEF Bare, Event

(* The events of a completion name its task, its commit and its proof. *)
LEMMA ProvedEvent ==
  ASSUME Parameters, Types, d.pc \in Completing, NEW kind \in TaskKind
  PROVE  /\ Proved(kind) \in Event /\ Proved(kind).kind = kind
         /\ Proved(kind).task = d.slot[1] /\ d.slot[1] \in Task
         /\ Proved(kind).binds = Proof /\ Proved(kind).commit = d.result.commit
<1>1. d.slot \in Slot /\ d.result \in Result
  BY DEF Types, Driver
<1>2. d.slot[1] \in Task
  BY <1>1 DEF Slot
<1>3. d.result.commit \in Commit
  BY <1>1 DEF Result
<1>4. Proof \subseteq Binding
  <2> SUFFICES ASSUME NEW i \in DOMAIN results PROVE i \in Source /\ results[i] \in Digest
    BY DEF Proof, Binding
  <2> QED
    BY DEF Parameters, Types, TypeOK
<1> QED
  BY <1>2, <1>3, <1>4 DEF Proved, Bare, Event

(* What one event may do to the tasks and the run. *)
LEMMA ApplyRun ==
  ASSUME NEW s \in State, NEW e \in Event
  PROVE  Apply(s, e).run = IF e.kind \in TaskKind THEN s.run ELSE RunAfter(s.run, e.kind)
BY DEF State, Apply

-----------------------------------------------------------------------------
(* What a step may do to the tasks: nothing but to the one it is about,    *)
(* and that one is completed only at the end of a barrier call.            *)
Same(ts, new) == new.status = ts.status /\ new.commit = ts.commit /\ new.binds = ts.binds

TaskMove(e, ts, new, same, proof, t) ==
  \/ Same(ts, new) /\ same
  \/ new.status \in {"registered", "failed"} /\ (e.pc # "idle" => ts.status # "absent")
  \/ e.pc = "mirror" /\ ts.status = "registered" /\ new.status = "started" /\ same
  \/ /\ e.pc = "complete" /\ e.slot[1] = t /\ same
     /\ ts.status = "started" /\ new.status = "completed"
     /\ new.commit = e.result.commit /\ new.binds = proof

RunMove(e, s, new) ==
  \/ new.run = s.run
  \/ e.pc = "end" /\ new.run = "completed" /\ AllDone(s) /\ new.tasks = s.tasks

LedgerMove ==
  /\ st' \in State /\ attempt' \in [Task -> Attempt]
  /\ \A t \in Task : TaskMove(d, st.tasks[t], st'.tasks[t], attempt'[t] = attempt[t], Proof, t)
  /\ RunMove(d, st, st')
  /\ st.run = "completed" /\ AllDone(st) => st'.tasks = st.tasks

(* An event that the ledger admits for one task. *)
LEMMA Admitted ==
  ASSUME NEW s \in State, NEW e \in Event, Legal(s, e), e.kind \in TaskKind
  PROVE  s.run # "completed" /\ s.tasks[e.task].status \in StatusBefore(e.kind)
BY DEF Legal, TaskLegal, Ended, RunTerminal

(* A step that leaves ledger and attempts alone moves no task. *)
LEMMA StillLedger ==
  ASSUME Types, UNCHANGED <<st, attempt>>
  PROVE  LedgerMove
BY DEF LedgerMove, TaskMove, RunMove, Same, Types, TypeOK

(* One event about one task, after which the task has its status as it     *)
(* was, or one of the other moves is made.                                 *)
LEMMA OneEvent ==
  ASSUME Types, NEW e \in Event, e.kind \in TaskKind, st' = Apply(st, e), st.run # "completed",
         attempt' \in [Task -> Attempt], \A t \in Task \ {e.task} : attempt'[t] = attempt[t],
         TaskMove(d, st.tasks[e.task], TaskAfter(st.tasks[e.task], e),
                  attempt'[e.task] = attempt[e.task], Proof, e.task)
  PROVE  LedgerMove
<1>1. st \in State
  BY DEF Types, TypeOK
<1>2. st' \in State /\ st'.run = st.run
  BY <1>1, ApplyType, ApplyRun
<1>3. \A t \in Task : st'.tasks[t] = IF e.task = t THEN TaskAfter(st.tasks[t], e) ELSE st.tasks[t]
  BY <1>1, ApplyTask
<1>4. \A t \in Task : TaskMove(d, st.tasks[t], st'.tasks[t], attempt'[t] = attempt[t], Proof, t)
  <2> TAKE t \in Task
  <2>1. CASE t = e.task
    BY <2>1, <1>3
  <2>2. CASE t # e.task
    BY <2>2, <1>3 DEF TaskMove, Same
  <2> QED
    BY <2>1, <2>2
<1> QED
  BY <1>2, <1>4 DEF LedgerMove, RunMove

(* Every step moves the tasks and the run as LedgerMove allows. *)
LEMMA LedgerSteps ==
  ASSUME Parameters, Types, [Next]_vars
  PROVE  LedgerMove
<1> USE DEF Types, TypeOK
<1>1. st \in State /\ \A t \in Task : st.tasks[t] \in TaskState
  BY DEF State
<1>2. ASSUME NEW t \in Task, Register(t) PROVE LedgerMove
  <2> DEFINE e == Bare("task.registered", t)
  <2>1. e \in Event /\ e.kind = "task.registered" /\ e.task = t
    BY BareEvent DEF TaskKind
  <2>2. st' = Apply(st, e) /\ Legal(st, e) /\ attempt' = attempt /\ d.pc = "idle"
    BY <1>2 DEF Register
  <2>3. TaskAfter(st.tasks[t], e).status = "registered"
    BY <2>1 DEF TaskAfter, Absent
  <2> QED
    BY <1>1, <2>1, <2>2, <2>3, OneEvent, Admitted DEF TaskMove, TaskKind
<1>3. ASSUME NEW t \in Task, Reserve(t) PROVE LedgerMove
  <2> DEFINE e == Bare("task.dispatch_reserved", t)
             f == Bare("task.reopened", t)
  <2>1. /\ e \in Event /\ e.kind = "task.dispatch_reserved" /\ e.task = t
        /\ f \in Event /\ f.kind = "task.reopened" /\ f.task = t
        /\ e.kind \in TaskKind /\ f.kind \in TaskKind
    BY BareEvent DEF TaskKind
  <2>2. st.run = "active" /\ d.pc = "idle"
    BY <1>3 DEF Reserve
  <2>3. CASE st' = Apply(st, e) /\ UNCHANGED attempt
    <3>1. TaskAfter(st.tasks[t], e) = st.tasks[t]
      BY <2>1 DEF TaskAfter
    <3> QED
      BY <1>1, <2>1, <2>2, <2>3, <3>1, OneEvent DEF TaskMove, Same
  <2>4. CASE /\ st.tasks[t].status = "failed" /\ attempt[t] < MaxAttempt
             /\ st' = Apply(Apply(st, f), e)
             /\ attempt' = [attempt EXCEPT ![t] = @ + 1]
    <3> DEFINE s == Apply(st, f)
    <3>1. s \in State /\ s.run = "active" /\ st' \in State /\ st'.run = "active"
      BY <1>1, <2>1, <2>2, <2>4, ApplyType, ApplyRun
    <3>2. \A u \in Task : st'.tasks[u] = s.tasks[u]
      <4>1. \A ts : TaskAfter(ts, e) = ts
        BY <2>1 DEF TaskAfter
      <4> QED
        BY <2>1, <2>4, <3>1, <4>1, ApplyTask
    <3>3. \A u \in Task \ {t} : s.tasks[u] = st.tasks[u]
      BY <1>1, <2>1, ApplyTask
    <3>4. s.tasks[t].status = "registered"
      <4>1. TaskAfter(st.tasks[t], f).status = "registered"
        BY <2>1 DEF TaskAfter, Reopened, Absent
      <4> QED
        BY <1>1, <2>1, <4>1, ApplyTask
    <3>5. attempt' \in [Task -> Attempt] /\ \A u \in Task \ {t} : attempt'[u] = attempt[u]
      BY <2>4 DEF Parameters, Attempt
    <3> QED
      BY <2>2, <3>1, <3>2, <3>3, <3>4, <3>5 DEF LedgerMove, TaskMove, RunMove, Same
  <2> QED
    BY <1>3, <2>3, <2>4 DEF Reserve
<1>4. CASE StartTask
  <2> DEFINE t == d.slot[1]
             e == Bare("task.started", t)
  <2>1. t \in Task /\ d.pc = "mirror" /\ attempt' = attempt
    BY <1>4 DEF StartTask, Driver, Slot
  <2>2. e \in Event /\ e.kind = "task.started" /\ e.task = t /\ e.kind \in TaskKind
    BY <2>1, BareEvent DEF TaskKind
  <2>3. CASE st.tasks[t].status = "registered"
    <3>1. st' = Apply(st, e) /\ TaskAfter(st.tasks[t], e).status = "started"
      BY <1>1, <1>4, <2>1, <2>2, <2>3 DEF StartTask, TaskAfter, TaskState
    <3>2. CASE st.run # "completed"
      BY <2>1, <2>2, <2>3, <3>1, <3>2, OneEvent DEF TaskMove
    <3>3. CASE st.run = "completed"
      <4>1. ~AllDone(st)
        BY <2>1, <2>3 DEF AllDone
      <4>2. st' \in State /\ st'.run = st.run
        BY <1>1, <2>2, <3>1, ApplyType, ApplyRun
      <4>3. \A u \in Task : st'.tasks[u] = IF u = t THEN TaskAfter(st.tasks[t], e) ELSE st.tasks[u]
        BY <1>1, <2>2, <3>1, ApplyTask
      <4> QED
        BY <2>1, <2>3, <3>1, <4>1, <4>2, <4>3 DEF LedgerMove, TaskMove, RunMove, Same
    <3> QED
      BY <3>2, <3>3
  <2>4. CASE st.tasks[t].status # "registered"
    BY <1>4, <2>1, <2>4, StillLedger DEF StartTask
  <2> QED
    BY <2>3, <2>4
<1>5. CASE MirrorEvent
  <2> DEFINE t == d.slot[1]
             e == Bare(IF d.slot[3] = "implement" THEN "task.implementation" ELSE "task.review", t)
  <2>1. t \in Task /\ attempt' = attempt
    BY <1>5 DEF MirrorEvent, Driver, Slot
  <2>2. e \in Event /\ e.kind \in {"task.implementation", "task.review"} /\ e.task = t /\ e.kind \in TaskKind
    BY <2>1, BareEvent DEF TaskKind
  <2>3. CASE st' = Apply(st, e) /\ Legal(st, e)
    <3>1. TaskAfter(st.tasks[t], e) = st.tasks[t]
      BY <2>2 DEF TaskAfter
    <3> QED
      BY <1>1, <2>1, <2>2, <2>3, <3>1, OneEvent, Admitted DEF TaskMove, Same
  <2> QED
    BY <1>5, <2>1, <2>3, StillLedger DEF MirrorEvent
<1>6. ASSUME NEW t \in Task, GiveUp(t) PROVE LedgerMove
  <2> DEFINE e == Bare("task.failed", t)
  <2>1. e \in Event /\ e.kind = "task.failed" /\ e.task = t /\ e.kind \in TaskKind
    BY BareEvent DEF TaskKind
  <2>2. st' = Apply(st, e) /\ Legal(st, e) /\ attempt' = attempt
    BY <1>6 DEF GiveUp
  <2>3. TaskAfter(st.tasks[t], e).status = "failed" /\ st.tasks[t].status = "started" /\ st.run # "completed"
    BY <1>1, <2>1, <2>2, Admitted DEF TaskAfter, TaskState, StatusBefore
  <2> QED
    BY <1>1, <2>1, <2>2, <2>3, OneEvent DEF TaskMove
<1>7. ASSUME NEW t \in Task, Reopen(t) PROVE LedgerMove
  <2> DEFINE e == Bare("task.reopened", t)
  <2>1. e \in Event /\ e.kind = "task.reopened" /\ e.task = t /\ e.kind \in TaskKind
    BY BareEvent DEF TaskKind
  <2>2. st' = Apply(st, e) /\ Legal(st, e) /\ attempt[t] < MaxAttempt /\ attempt' = [attempt EXCEPT ![t] = @ + 1]
    BY <1>7 DEF Reopen
  <2>3. TaskAfter(st.tasks[t], e).status = "registered" /\ st.tasks[t].status # "absent" /\ st.run # "completed"
    BY <1>1, <2>1, <2>2, Admitted DEF TaskAfter, Reopened, Absent, StatusBefore, TaskTerminal
  <2>4. attempt' \in [Task -> Attempt] /\ \A u \in Task \ {t} : attempt'[u] = attempt[u]
    BY <2>2 DEF Parameters, Attempt
  <2> QED
    BY <2>1, <2>2, <2>3, <2>4, OneEvent DEF TaskMove
<1>8. CASE AppendEvidence
  <2> DEFINE e == Proved("task.evidence")
  <2>1. e \in Event /\ e.kind = "task.evidence" /\ e.task = d.slot[1] /\ d.slot[1] \in Task /\ e.kind \in TaskKind
    BY <1>8, ProvedEvent DEF AppendEvidence, Completing, TaskKind
  <2>2. attempt' = attempt /\ (UNCHANGED st \/ (st' = Apply(st, e) /\ Legal(st, e)))
    BY <1>8 DEF AppendEvidence
  <2>3. Same(st.tasks[d.slot[1]], TaskAfter(st.tasks[d.slot[1]], e))
    BY <1>1, <2>1 DEF TaskAfter, TaskState, Same
  <2> QED
    BY <1>1, <2>1, <2>2, <2>3, OneEvent, StillLedger, Admitted DEF TaskMove
<1>9. CASE AppendCompleted
  <2> DEFINE e == Proved("task.completed")
             t == d.slot[1]
  <2>1. e \in Event /\ e.kind = "task.completed" /\ e.task = t /\ t \in Task /\ e.kind \in TaskKind
        /\ e.binds = Proof /\ e.commit = d.result.commit /\ d.pc = "complete"
    BY <1>9, ProvedEvent DEF AppendCompleted, Completing, TaskKind
  <2>2. attempt' = attempt /\ (UNCHANGED st \/ (st' = Apply(st, e) /\ Legal(st, e)))
    BY <1>9 DEF AppendCompleted
  <2>3. LET new == TaskAfter(st.tasks[t], e) IN
        new.status = "completed" /\ new.commit = d.result.commit /\ new.binds = Proof
    BY <1>1, <2>1 DEF TaskAfter, TaskState
  <2>4. Legal(st, e) => st.tasks[t].status = "started" /\ st.run # "completed"
    BY <1>1, <2>1, Admitted DEF StatusBefore
  <2> QED
    BY <1>1, <2>1, <2>2, <2>3, <2>4, OneEvent, StillLedger DEF TaskMove
<1>10. CASE EndRun
  <2> DEFINE e == [Bare("run.completed", NoTask) EXCEPT !.commit = d.result.commit]
  <2>1. d.result.commit \in Commit
    BY DEF Driver, Result
  <2>2. e \in Event /\ e.kind = "run.completed" /\ e.kind \notin TaskKind
    BY <2>1 DEF Bare, Event, RunKind, TaskKind
  <2>3. d.pc = "end" /\ attempt' = attempt /\ (UNCHANGED st \/ (st' = Apply(st, e) /\ Legal(st, e)))
    BY <1>10 DEF EndRun
  <2>4. CASE st' = Apply(st, e) /\ Legal(st, e)
    <3>1. AllDone(st) /\ st' \in State /\ st'.run = "completed" /\ st'.tasks = st.tasks
      BY <1>1, <2>2, <2>4, ApplyType DEF Legal, Apply, State, RunAfter
    <3> QED
      BY <2>3, <3>1 DEF LedgerMove, TaskMove, RunMove, Same
  <2> QED
    BY <2>3, <2>4, StillLedger
<1>11. CASE UNCHANGED <<st, attempt>>
  BY <1>11, StillLedger
<1> HIDE DEF Types, TypeOK
<1>12. CASE Barrier
  BY <1>8, <1>9, <1>10, <1>11, <1>12
     DEF Barrier, EvaluateTask, CheckQuality, CheckSpec, PrepareFinal, Materialize,
         EvaluateRun, CheckFinal, CheckChains, BeginFinal, ReturnFinal, ledger
<1>13. CASE Stages
  BY <1>2, <1>3, <1>4, <1>5, <1>11, <1>13
     DEF Stages, WriteBrief, PrepareWork, PrepareReview, BuildContract, PersistFile,
         RollBack, Crash, Begin, Works, Return, PersistAgain, ledger
<1>14. CASE Others
  BY <1>6, <1>7, <1>11, <1>14 DEF Others, Edit, MakeCommit, ledger
<1>15. CASE UNCHANGED vars
  BY <1>11, <1>15 DEF vars, isolatedVars, ledger
<1> QED
  BY <1>12, <1>13, <1>14, <1>15 DEF Next
-----------------------------------------------------------------------------
(* What a step may do to the files: a contract and a result are written    *)
(* where there is none, at one place each.                                 *)
Grows(f, g) == DOMAIN f \subseteq DOMAIN g /\ \A x \in DOMAIN f : g[x] = f[x]

FilesMove ==
  /\ Grows(contracts, contracts') /\ Grows(results, results')
  /\ contracts' = contracts \/ BuildContract
  /\ results' = results \/ PersistFile

(* Contracts and results are written once, by the stages only. *)
LEMMA FilesSteps == [Next]_vars => FilesMove
<1> SUFFICES ASSUME [Next]_vars PROVE FilesMove
  OBVIOUS
<1>1. CASE UNCHANGED <<contracts, results>>
  BY <1>1 DEF FilesMove, Grows
<1>2. CASE BuildContract
  <2>1. results' = results /\ (contracts' = contracts \/ \E v : contracts' = WriteOnce(contracts, d.slot, v))
    BY <1>2 DEF BuildContract
  <2>2. Grows(results, results') /\ Grows(contracts, contracts')
    BY <2>1 DEF Grows, WriteOnce
  <2> QED
    BY <1>2, <2>1, <2>2 DEF FilesMove
<1>3. CASE PersistFile
  <2>1. contracts' = contracts /\ (results' = results \/ \E v : results' = WriteOnce(results, Invoked, v))
    BY <1>3 DEF PersistFile
  <2>2. Grows(results, results') /\ Grows(contracts, contracts')
    BY <2>1 DEF Grows, WriteOnce
  <2> QED
    BY <1>3, <2>1, <2>2 DEF FilesMove
<1>4. CASE Barrier
  BY <1>1, <1>4
     DEF Barrier, EvaluateTask, CheckQuality, CheckSpec, AppendEvidence, AppendCompleted,
         PrepareFinal, Materialize, EvaluateRun, CheckFinal, CheckChains, EndRun, BeginFinal,
         ReturnFinal, files
<1>5. CASE Stages
  BY <1>1, <1>2, <1>3, <1>5
     DEF Stages, Register, WriteBrief, Reserve, PrepareWork, PrepareReview, StartTask,
         MirrorEvent, RollBack, Crash, Begin, Works, Return, PersistAgain, files
<1>6. CASE Others
  BY <1>1, <1>6 DEF Others, Edit, MakeCommit, GiveUp, Reopen, files
<1>7. CASE UNCHANGED vars
  BY <1>1, <1>7 DEF vars, isolatedVars, files
<1> QED
  BY <1>4, <1>5, <1>6, <1>7 DEF Next

-----------------------------------------------------------------------------
(* What a step may do to the final reviews. *)
FinalsMove ==
  /\ Grows(finals, finals') /\ Grows(verdicts, verdicts')
  /\ verdicts' = verdicts \/ (d.pc = "final" /\ DOMAIN verdicts' = DOMAIN verdicts \cup {d.final})

(* Final reviews and verdicts are written once. *)
LEMMA FinalsSteps == [Next]_vars => FinalsMove
<1> SUFFICES ASSUME [Next]_vars PROVE FinalsMove
  OBVIOUS
<1>1. CASE UNCHANGED <<finals, verdicts>>
  BY <1>1 DEF FinalsMove, Grows
<1>2. ASSUME NEW n \in 1 .. MaxFinal, NEW tasks \in SUBSET Task, PrepareFinal(n, tasks)
      PROVE  FinalsMove
  <2>1. verdicts' = verdicts
    BY <1>2 DEF PrepareFinal
  <2>2. \E c : finals' = WriteOnce(finals, n, c)
    BY <1>2 DEF PrepareFinal
  <2>3. Grows(finals, finals') /\ Grows(verdicts, verdicts')
    BY <2>1, <2>2 DEF Grows, WriteOnce
  <2> QED
    BY <2>1, <2>3 DEF FinalsMove
<1>3. ASSUME NEW status, ReturnFinal(status) PROVE FinalsMove
  <2>1. finals' = finals /\ d.pc = "final" /\ \E v : verdicts' = WriteOnce(verdicts, d.final, v)
    BY <1>3 DEF ReturnFinal
  <2>2. Grows(finals, finals') /\ Grows(verdicts, verdicts') /\ DOMAIN verdicts' = DOMAIN verdicts \cup {d.final}
    BY <2>1 DEF Grows, WriteOnce
  <2> QED
    BY <2>1, <2>2 DEF FinalsMove
<1>4. CASE Barrier
  BY <1>1, <1>2, <1>3, <1>4
     DEF Barrier, EvaluateTask, CheckQuality, CheckSpec, AppendEvidence, AppendCompleted,
         Materialize, EvaluateRun, CheckFinal, CheckChains, EndRun, BeginFinal, finalVars
<1>5. CASE UNCHANGED finalVars
  BY <1>1, <1>5 DEF finalVars
<1>6. CASE UNCHANGED vars
  BY <1>1, <1>6 DEF vars, finalVars
<1> QED
  BY <1>4, <1>5, <1>6 DEF Next
-----------------------------------------------------------------------------
(* What a step may do to the repository: the agent of a stage works in it, *)
(* or somebody disturbs the call in progress.                              *)
Disturbed == d' = [d EXCEPT !.calm = (d.pc \notin Completing)]

RepoMove ==
  /\ ws' \in Content /\ src' \in Truth /\ head' \in 0 .. MaxHead
  /\ UNCHANGED <<ws, src, head>> \/ d.pc \in {"run", "worked"} \/ Disturbed

(* Only a stage that works and a disturbance change the repository. *)
LEMMA RepoSteps ==
  ASSUME Parameters, Types, [Next]_vars
  PROVE  RepoMove
<1>1. ws \in Content /\ src \in Truth /\ head \in 0 .. MaxHead /\ d.before \in Content
  BY DEF Types, TypeOK, Driver
<1>2. CASE UNCHANGED <<ws, src, head>>
  BY <1>1, <1>2 DEF RepoMove
<1>3. ASSUME NEW w \in Content, Works(w) PROVE RepoMove
  BY <1>1, <1>3 DEF Works, RepoMove
<1>4. CASE RollBack
  BY <1>1, <1>4 DEF RollBack, RepoMove
<1>5. ASSUME NEW w \in Content, NEW s \in Truth, Edit(w, s) PROVE RepoMove
  BY <1>1, <1>5 DEF Edit, RepoMove, Disturb, Disturbed, Completing
<1>6. CASE MakeCommit
  BY <1>1, <1>6 DEF MakeCommit, RepoMove, Disturb, Disturbed, Completing, Parameters
<1>7. CASE Barrier
  BY <1>2, <1>7
     DEF Barrier, EvaluateTask, CheckQuality, CheckSpec, AppendEvidence, AppendCompleted, repo,
         PrepareFinal, Materialize, EvaluateRun, CheckFinal, CheckChains, EndRun, BeginFinal, ReturnFinal
<1>8. CASE Stages
  BY <1>2, <1>3, <1>4, <1>8
     DEF Stages, Register, WriteBrief, Reserve, PrepareWork, PrepareReview, BuildContract, PersistFile,
         StartTask, MirrorEvent, Crash, Begin, Return, PersistAgain, repo
<1>9. CASE Others
  BY <1>2, <1>5, <1>6, <1>9 DEF Others, GiveUp, Reopen, repo
<1>10. CASE UNCHANGED vars
  BY <1>2, <1>10 DEF vars, isolatedVars, repo
<1> QED
  BY <1>7, <1>8, <1>9, <1>10 DEF Next

-----------------------------------------------------------------------------
(* The call in progress keeps its type. *)
LEMMA IdleTyped == Parameters /\ Types => Idle \in Driver(0)
<1> SUFFICES ASSUME Parameters, Types PROVE Idle \in Driver(0)
  OBVIOUS
<1>1. PICK t \in Task : TRUE
  BY DEF Parameters
<1>2. 1 \in Attempt
  BY DEF Parameters, Attempt
<1>3. <<t, 1, "spec">> \in Slot
  BY <1>1, <1>2 DEF Slot, Stage
<1>4. Idle.slot \in Slot
  BY <1>3 DEF Idle
<1>5. Idle.before \in Content
  BY DEF Idle, Types, TypeOK
<1>6. [status |-> "failed", commit |-> 0] \in Result
  BY DEF Result, Parameters
<1> QED
  BY <1>4, <1>5, <1>6 DEF Idle, Driver, Pc

(* The driver stays well-typed. *)
LEMMA DriverSteps ==
  ASSUME Parameters, Types, [Next]_vars
  PROVE  d' \in Driver(d'.final)
<1> DEFINE Goal == d' \in Driver(d'.final)
<1> SUFFICES Goal
  OBVIOUS
<1>1. Idle \in Driver(0) /\ d \in Driver(d.final)
  BY IdleTyped DEF Types
<1>2. CASE d' = d \/ d' = Idle
  BY <1>1, <1>2 DEF Driver
<1>3. ASSUME NEW pc \in Pc, d' = [d EXCEPT !.pc = pc] PROVE Goal
  BY <1>1, <1>3 DEF Driver
<1>4. ASSUME NEW pc \in Pc, NEW slot \in Slot, NEW p \in Profile \cup {NoProfile}, ForStage(pc, slot, p)
      PROVE  Goal
  BY <1>1, <1>4 DEF Driver, ForStage
<1>5. ASSUME NEW calm \in BOOLEAN, d' = [d EXCEPT !.calm = calm] PROVE Goal
  BY <1>1, <1>5 DEF Driver
<1>6. ASSUME NEW pc \in Pc, NEW n, d' = [Idle EXCEPT !.pc = pc, !.final = n] PROVE Goal
  BY <1>1, <1>6 DEF Driver
<1>7. ASSUME NEW t \in Task, NEW stage \in Stage
      PROVE  <<t, attempt[t], stage>> \in Slot
  BY DEF Types, TypeOK, Slot
<1>8. head \in Commit /\ \A stage \in Stage : <<d.slot[1], d.slot[2], stage>> \in Slot
  BY <1>1 DEF Types, TypeOK, Parameters, Driver, Slot
<1>9. DOMAIN results \subseteq Slot \X Profile /\ \A i \in DOMAIN results : i[1] \in Slot /\ i[2] \in Profile
  BY DEF Types, TypeOK, Invocation
<1>10. ASSUME NEW t \in Task, EvaluateTask(t) PROVE Goal
  <2> DEFINE r == [Idle.result EXCEPT !.commit = head]
  <2>1. r \in Result
    BY <1>1, <1>8 DEF Driver, Result
  <2>2. PICK worker \in Profile :
          d' = [Idle EXCEPT !.pc = "checkQuality", !.slot = <<t, attempt[t], "implement">>,
                            !.worker = worker, !.result = r]
    BY <1>1, <1>10 DEF EvaluateTask, Slots, Stage, Driver
  <2> HIDE DEF r
  <2> QED
    BY <1>1, <1>7, <2>1, <2>2 DEF Driver, Pc, Completing, Stage
<1>11. CASE EvaluateRun
  <2> DEFINE r == [Idle.result EXCEPT !.commit = head]
  <2>1. r \in Result
    BY <1>1, <1>8 DEF Driver, Result
  <2>2. \E n : d' = [Idle EXCEPT !.pc = "checkFinal", !.result = r, !.final = n]
    BY <1>1, <1>11 DEF EvaluateRun, Driver
  <2> HIDE DEF r
  <2> QED
    BY <1>1, <2>1, <2>2 DEF Driver, Pc
<1>12. ASSUME NEW t \in Task, NEW stage \in Stage, NEW p \in Profile, NEW q \in Profile,
              PrepareReview(t, stage, p, q)
       PROVE  Goal
  <2>1. d' = [Idle EXCEPT !.pc = "contract", !.slot = <<t, attempt[t], stage>>, !.worker = p, !.pred = q]
    BY <1>12 DEF PrepareReview
  <2> QED
    BY <1>1, <1>7, <2>1 DEF Driver, Pc
<1>13. ASSUME NEW p \in Profile, Begin(p) PROVE Goal
  <2>1. d' = Idle \/ d' = [d EXCEPT !.pc = "run", !.profile = p, !.before = ws]
    BY <1>13 DEF Begin
  <2>2. ws \in Content
    BY DEF Types, TypeOK
  <2> QED
    BY <1>1, <1>2, <2>1, <2>2 DEF Driver, Pc
<1>14. ASSUME NEW status \in {"passed", "failed"}, Return(status) PROVE Goal
  <2>1. d' = [d EXCEPT !.pc = "persist", !.result = [status |-> status, commit |-> head]]
    BY <1>14 DEF Return
  <2>2. [status |-> status, commit |-> head] \in Result
    BY <1>8 DEF Result
  <2> QED
    BY <1>1, <2>1, <2>2 DEF Driver, Pc
<1>15. CASE CheckQuality \/ CheckSpec \/ AppendEvidence \/ CheckFinal \/ CheckChains \/ StartTask
  <2>1. d' = Idle \/ \E pc \in Pc : d' = [d EXCEPT !.pc = pc]
    BY <1>15 DEF CheckQuality, CheckSpec, AppendEvidence, CheckFinal, CheckChains, StartTask,
                 Call, Answer, Pc, Completing
  <2> QED
    BY <1>2, <1>3, <2>1
<1>16. ASSUME NEW w \in Content, Works(w) PROVE Goal
  BY <1>3, <1>16 DEF Works, Call, Pc
<1>17. CASE BuildContract \/ PersistFile
  <2>1. d' = Idle \/ ForStage("begin", d.slot, NoProfile) \/ ForStage("mirror", d.slot, d.profile)
    BY <1>17 DEF BuildContract, PersistFile, Answer
  <2>2. d.slot \in Slot /\ d.profile \in Profile \cup {NoProfile}
    BY <1>1 DEF Driver
  <2> QED
    BY <1>2, <1>4, <2>1, <2>2 DEF Pc
<1>18. ASSUME NEW t \in Task, PrepareWork(t) PROVE Goal
  BY <1>4, <1>7, <1>18 DEF PrepareWork, Pc, Stage
<1>19. ASSUME NEW i \in DOMAIN results, PersistAgain(i) PROVE Goal
  BY <1>4, <1>9, <1>19 DEF PersistAgain, Pc
<1>20. ASSUME NEW n \in 1 .. MaxFinal, NEW tasks \in SUBSET Task, PrepareFinal(n, tasks) \/ BeginFinal(n)
       PROVE  Goal
  BY <1>6, <1>20 DEF PrepareFinal, BeginFinal, Pc
<1>21. CASE Disturb
  <2>1. (d.pc \notin {"checkQuality", "checkSpec", "evidence", "complete"}) \in BOOLEAN
    OBVIOUS
  <2> QED
    BY <1>5, <1>21, <2>1 DEF Disturb
<1> HIDE DEF Goal
<1>22. CASE Barrier
  BY <1>2, <1>10, <1>11, <1>15, <1>20, <1>22
     DEF Barrier, AppendCompleted, Materialize, EndRun, ReturnFinal, Answer
<1>23. CASE Stages
  BY <1>2, <1>12, <1>13, <1>14, <1>15, <1>16, <1>17, <1>18, <1>19, <1>23
     DEF Stages, Register, WriteBrief, Reserve, MirrorEvent, RollBack, Crash, Answer
<1>24. CASE Others
  BY <1>21, <1>24 DEF Others, Edit, MakeCommit, GiveUp, Reopen
<1>25. CASE UNCHANGED vars
  BY <1>2, <1>25 DEF vars, isolatedVars
<1> QED
  BY <1>22, <1>23, <1>24, <1>25 DEF Next

-----------------------------------------------------------------------------
(* Everything keeps its type. *)
LEMMA TypesStep ==
  ASSUME Parameters, IInv, [Next]_vars
  PROVE  Types'
<1> USE DEF IInv
<1>1. LedgerMove /\ RepoMove /\ FilesMove /\ d' \in Driver(d'.final)
  BY LedgerSteps, RepoSteps, FilesSteps, DriverSteps
<1>2. Types /\ TypeOK /\ d \in Driver(d.final)
  BY DEF Types
<1> DEFINE Listed == reserved' \subseteq Task /\ order' \in Seq(Task) /\ briefs' \subseteq Task
<1>3. Listed
  <2>1. reserved \subseteq Task /\ order \in Seq(Task) /\ briefs \subseteq Task
    BY DEF Types, TypeOK
  <2>2. CASE UNCHANGED <<reserved, order, briefs>>
    BY <2>1, <2>2
  <2>3. ASSUME NEW t \in Task, Register(t) PROVE Listed
    BY <2>1, <2>3 DEF Register, files
  <2>4. ASSUME NEW t \in Task, WriteBrief(t) PROVE Listed
    BY <2>1, <2>4 DEF WriteBrief, ledger
  <2>5. ASSUME NEW t \in Task, Reserve(t) \/ Reopen(t) PROVE Listed
    BY <2>1, <2>5 DEF Reserve, Reopen, files
  <2>6. CASE Barrier
    BY <2>2, <2>6
       DEF Barrier, EvaluateTask, CheckQuality, CheckSpec, AppendEvidence, AppendCompleted, ledger, files,
           PrepareFinal, Materialize, EvaluateRun, CheckFinal, CheckChains, EndRun, BeginFinal, ReturnFinal
  <2>7. CASE Stages
    BY <2>2, <2>3, <2>4, <2>5, <2>7
       DEF Stages, PrepareWork, PrepareReview, BuildContract, PersistFile, RollBack, Works,
           StartTask, MirrorEvent, Crash, Begin, Return, PersistAgain, ledger, files
  <2>8. CASE Others
    BY <2>2, <2>5, <2>8 DEF Others, Edit, MakeCommit, GiveUp, ledger, files
  <2>9. CASE UNCHANGED vars
    BY <2>2, <2>9 DEF vars, isolatedVars, ledger, files
  <2> QED
    BY <2>6, <2>7, <2>8, <2>9 DEF Next
<1>4. DOMAIN contracts' \subseteq Slot /\ \A s \in DOMAIN contracts' : contracts'[s] \in TaskContract
  <2>1. DOMAIN contracts \subseteq Slot /\ \A s \in DOMAIN contracts : contracts[s] \in TaskContract
    BY <1>2 DEF TypeOK
  <2>2. CASE BuildContract
    <3> DEFINE k == [commit |-> head, src |-> src, ws |-> ws, worker |-> d.worker,
                     pred |-> IF d.slot[3] = "quality" THEN d.pred ELSE NoProfile]
    <3>1. k \in TaskContract /\ d.slot \in Slot
      BY <1>2 DEF TypeOK, Driver, TaskContract
    <3>2. contracts' = contracts \/ contracts' = WriteOnce(contracts, d.slot, k)
      BY <2>2 DEF BuildContract
    <3> HIDE DEF k
    <3> QED
      BY <2>1, <3>1, <3>2 DEF WriteOnce
  <2> QED
    BY <1>1, <2>1, <2>2 DEF FilesMove
<1>5. DOMAIN results' \subseteq Invocation /\ \A i \in DOMAIN results' : results'[i] \in Result
  <2>1. DOMAIN results \subseteq Invocation /\ \A i \in DOMAIN results : results[i] \in Result
    BY <1>2 DEF TypeOK
  <2>2. CASE PersistFile
    <3>1. d.result \in Result /\ d.slot \in Slot /\ d.profile \in Profile
      BY <1>2, <2>2 DEF Driver, Underway, PersistFile
    <3>2. Invoked \in Invocation
      BY <3>1 DEF Invoked, Invocation
    <3>3. results' = results \/ results' = WriteOnce(results, Invoked, d.result)
      BY <2>2 DEF PersistFile
    <3> QED
      BY <2>1, <3>1, <3>2, <3>3 DEF WriteOnce
  <2> QED
    BY <1>1, <2>1, <2>2 DEF FilesMove
<1>6. mirrored' \subseteq DOMAIN results'
  <2>1. mirrored \subseteq DOMAIN results /\ DOMAIN results \subseteq DOMAIN results'
    BY <1>1, <1>2 DEF TypeOK, FilesMove, Grows
  <2>2. CASE UNCHANGED mirrored
    BY <2>1, <2>2
  <2>3. CASE MirrorEvent
    <3>1. Invoked \in DOMAIN results
      BY <2>3 DEF MirrorEvent, Underway, Invoked
    <3> QED
      BY <2>1, <2>3, <3>1 DEF MirrorEvent
  <2>4. CASE Barrier
    BY <2>2, <2>4
       DEF Barrier, EvaluateTask, CheckQuality, CheckSpec, AppendEvidence, AppendCompleted,
           PrepareFinal, Materialize, EvaluateRun, CheckFinal, CheckChains, EndRun, BeginFinal, ReturnFinal
  <2>5. CASE Stages
    BY <2>2, <2>3, <2>5
       DEF Stages, Register, WriteBrief, Reserve, PrepareWork, PrepareReview, BuildContract, PersistFile,
           RollBack, Works, StartTask, Crash, Begin, Return, PersistAgain
  <2>6. CASE Others
    BY <2>2, <2>6 DEF Others, Edit, MakeCommit, GiveUp, Reopen
  <2>7. CASE UNCHANGED vars
    BY <2>2, <2>7 DEF vars, isolatedVars
  <2> QED
    BY <2>4, <2>5, <2>6, <2>7 DEF Next
<1>7. ws' \in Content /\ src' \in Truth /\ head' \in 0 .. MaxHead /\ head' \in Commit
  BY <1>1 DEF RepoMove, Parameters
<1>8. st' \in State /\ attempt' \in [Task -> Attempt]
  BY <1>1 DEF LedgerMove
<1>9. \A n \in DOMAIN order' : order'[n] \in Task
  BY <1>3
<1> QED
  BY <1>1, <1>3, <1>4, <1>5, <1>6, <1>7, <1>8, <1>9 DEF Types, TypeOK

-----------------------------------------------------------------------------
(* What a contract was granted on stays true. *)
LEMMA GrantedStays ==
  ASSUME NEW c, NEW r, NEW cAfter, NEW rAfter, Grows(c, cAfter), Grows(r, rAfter), Written(c, r)
  PROVE  /\ \A i \in DOMAIN r : i[1] \in DOMAIN cAfter
         /\ \A s \in DOMAIN c : s[3] # "implement" => Based(cAfter, rAfter, s)
         /\ \A s \in DOMAIN c : s[3] = "quality" => Follows(cAfter, rAfter, s)
         /\ \A i : PassedIn(r, i) => PassedIn(rAfter, i)
<1>1. \A i : PassedIn(r, i) => PassedIn(rAfter, i)
  BY DEF PassedIn, Grows
<1>2. \A s \in DOMAIN c : s \in DOMAIN cAfter /\ cAfter[s] = c[s]
  BY DEF Grows
<1>3. ASSUME NEW s \in DOMAIN c, s[3] = "quality" PROVE Follows(cAfter, rAfter, s)
  <2>1. PassedIn(r, <<Stg(s, "spec"), c[s].pred>>) /\ c[Stg(s, "spec")].worker = c[s].worker
    BY <1>3 DEF Written, Follows
  <2>2. <<Stg(s, "spec"), c[s].pred>>[1] \in DOMAIN c
    BY <2>1 DEF PassedIn, Written
  <2>3. Stg(s, "spec") \in DOMAIN c
    BY <2>2
  <2> QED
    BY <1>1, <1>2, <2>1, <2>3 DEF Follows
<1> QED
  BY <1>1, <1>2, <1>3 DEF Written, Based

(* What a contract and a result rest on stays written. *)
LEMMA WrittenStep ==
  ASSUME Parameters, IInv, [Next]_vars
  PROVE  Written(contracts', results')
<1> DEFINE c == contracts
           r == results
           cAfter == contracts'
           rAfter == results'
<1>1. FilesMove /\ Written(c, r) /\ d.slot \in Slot
  BY FilesSteps DEF IInv, Types, Driver
<1>2. /\ \A i \in DOMAIN r : i[1] \in DOMAIN cAfter
      /\ \A s \in DOMAIN c : s[3] # "implement" => Based(cAfter, rAfter, s)
      /\ \A s \in DOMAIN c : s[3] = "quality" => Follows(cAfter, rAfter, s)
      /\ \A i : PassedIn(r, i) => PassedIn(rAfter, i)
  BY <1>1, GrantedStays DEF FilesMove
<1>3. CASE BuildContract
  <2>1. rAfter = r /\ d.pc = "contract"
    BY <1>3 DEF BuildContract
  <2>2. CASE cAfter = c
    BY <1>1, <2>1, <2>2
  <2>3. CASE cAfter # c
    <3> DEFINE k == [commit |-> head, src |-> src, ws |-> ws, worker |-> d.worker,
                     pred |-> IF d.slot[3] = "quality" THEN d.pred ELSE NoProfile]
    <3>1. d.slot \notin DOMAIN c /\ PredAccepted(d.slot, d.worker, d.pred) /\ cAfter = WriteOnce(c, d.slot, k)
      BY <1>3, <2>3 DEF BuildContract
    <3>2. DOMAIN cAfter = DOMAIN c \cup {d.slot} /\ cAfter[d.slot] = k
      BY <3>1 DEF WriteOnce
    <3>3. k.worker = d.worker /\ (d.slot[3] = "quality" => k.pred = d.pred)
      OBVIOUS
    <3> HIDE DEF k
    <3>4. d.slot[3] # "implement" => Based(cAfter, rAfter, d.slot)
      BY <1>2, <2>1, <3>2, <3>3 DEF IInv, Underway, Based
    <3>5. d.slot[3] = "quality" => Follows(cAfter, rAfter, d.slot)
      <4> SUFFICES ASSUME d.slot[3] = "quality" PROVE Follows(cAfter, rAfter, d.slot)
        OBVIOUS
      <4> DEFINE spec == Stg(d.slot, "spec")
      <4>1. Of(spec) = {d.pred} /\ r[<<spec, d.pred>>].status = "passed" /\ c[spec].worker = d.worker
        BY <3>1 DEF PredAccepted, Stg
      <4>2. <<spec, d.pred>> \in DOMAIN r
        BY <4>1 DEF Of
      <4>3. <<spec, d.pred>>[1] \in DOMAIN c
        BY <1>1, <4>2 DEF Written
      <4>4. spec \in DOMAIN c /\ spec # d.slot /\ cAfter[spec] = c[spec]
        BY <1>1, <3>1, <4>3 DEF FilesMove, Grows
      <4> HIDE DEF spec
      <4>5. PassedIn(rAfter, <<spec, cAfter[d.slot].pred>>)
        BY <1>2, <2>1, <3>2, <3>3, <4>1, <4>2 DEF PassedIn
      <4>6. cAfter[spec].worker = cAfter[d.slot].worker
        BY <3>2, <3>3, <4>1, <4>4
      <4> QED
        BY <4>5, <4>6 DEF Follows, spec
    <3> QED
      BY <1>2, <2>1, <3>2, <3>4, <3>5 DEF Written
  <2> QED
    BY <2>2, <2>3
<1>4. CASE PersistFile
  <2>1. cAfter = c
    BY <1>4 DEF PersistFile
  <2>2. DOMAIN rAfter \subseteq DOMAIN r \cup {<<d.slot, d.profile>>}
    BY <1>4 DEF PersistFile, WriteOnce, Invoked
  <2>3. d.slot \in DOMAIN c
    BY <1>4 DEF PersistFile, IInv, Underway
  <2>4. \A i \in DOMAIN rAfter : i[1] \in DOMAIN c
    BY <1>2, <2>1, <2>2, <2>3
  <2> QED
    BY <1>2, <2>1, <2>4 DEF Written
<1>5. CASE cAfter = c /\ rAfter = r
  BY <1>1, <1>5
<1> QED
  BY <1>1, <1>3, <1>4, <1>5 DEF FilesMove

-----------------------------------------------------------------------------
(* What a stage relies on stays true until it is over. *)
Resting == {"idle", "materialize", "final", "checkFinal", "checkChains", "end"} \cup Completing

(* What a stage relies on while it is under way. *)
LEMMA UnderwayStep ==
  ASSUME Parameters, IInv, [Next]_vars
  PROVE  Underway(d', contracts', results')
<1> DEFINE Goal == Underway(d', contracts', results')
<1> SUFFICES Goal
  OBVIOUS
<1>1. /\ FilesMove /\ Underway(d, contracts, results) /\ Written(contracts, results)
      /\ d \in Driver(d.final) /\ d.slot \in Slot
  BY FilesSteps DEF IInv, Types, Driver
<1>2. /\ \A s \in DOMAIN contracts : s \in DOMAIN contracts'
      /\ \A i \in DOMAIN results : i \in DOMAIN results'
      /\ \A i : PassedIn(results, i) => PassedIn(results', i)
  BY <1>1, GrantedStays DEF FilesMove, Grows
<1>3. ASSUME d'.pc \in Resting PROVE Goal
  BY <1>3 DEF Underway, Resting, Completing
<1>4. CASE d' = Idle
  BY <1>3, <1>4 DEF Idle, Resting
<1>5. ASSUME d'.pc = d.pc, d'.slot = d.slot, d'.profile = d.profile, d'.worker = d.worker PROVE Goal
  BY <1>1, <1>2, <1>5 DEF Underway
<1>6. CASE d' = d
  BY <1>5, <1>6
<1>7. CASE Disturb
  <2>1. d'.pc = d.pc /\ d'.slot = d.slot /\ d'.profile = d.profile /\ d'.worker = d.worker
    BY <1>1, <1>7 DEF Disturb, Driver
  <2> QED
    BY <1>5, <2>1
<1>8. ASSUME NEW pc \in Resting, d' = [d EXCEPT !.pc = pc] PROVE Goal
  BY <1>1, <1>3, <1>8 DEF Driver
<1>9. ASSUME NEW t \in Task, PrepareWork(t) PROVE Goal
  <2>1. d'.pc = "contract" /\ d'.slot[3] = "implement"
    BY <1>9 DEF PrepareWork, ForStage, Idle
  <2> QED
    BY <2>1 DEF Underway
<1>10. ASSUME NEW t \in Task, NEW stage \in Stage, NEW p \in Profile, NEW q \in Profile,
              PrepareReview(t, stage, p, q)
       PROVE  Goal
  <2>1. /\ d'.pc = "contract" /\ d'.slot = <<t, attempt[t], stage>> /\ d'.worker = p
        /\ PassedIn(results, <<<<t, attempt[t], "implement">>, p>>)
    BY <1>10 DEF PrepareReview, Idle, PassedIn
  <2>2. Stg(d'.slot, "implement") = <<t, attempt[t], "implement">>
    BY <2>1 DEF Stg
  <2> QED
    BY <1>2, <2>1, <2>2 DEF Underway
<1>11. CASE BuildContract
  <2>1. d' = Idle \/ (ForStage("begin", d.slot, NoProfile) /\ d.slot \in DOMAIN contracts')
    <3>1. ASSUME NEW v, contracts' = WriteOnce(contracts, d.slot, v) PROVE d.slot \in DOMAIN contracts'
      BY <3>1 DEF WriteOnce
    <3> QED
      BY <1>11, <3>1 DEF BuildContract, Answer
  <2>2. ForStage("begin", d.slot, NoProfile) => d'.pc = "begin" /\ d'.slot = d.slot
    BY DEF ForStage, Idle
  <2> QED
    BY <1>4, <2>1, <2>2 DEF Underway
<1>12. ASSUME NEW p \in Profile, Begin(p) PROVE Goal
  <2>1. d' = Idle \/ (d'.pc = "run" /\ d'.slot = d.slot /\ d'.profile = p /\ d.pc = "begin")
    BY <1>1, <1>12 DEF Begin, Driver
  <2> QED
    BY <1>1, <1>2, <1>4, <2>1 DEF Underway
<1>13. ASSUME NEW w \in Content, Works(w) PROVE Goal
  <2>1. d'.pc = "worked" /\ d'.slot = d.slot /\ d'.profile = d.profile /\ d.pc = "run"
    BY <1>1, <1>13 DEF Works, Call, Driver
  <2> QED
    BY <1>1, <1>2, <2>1 DEF Underway
<1>14. ASSUME NEW status, Return(status) PROVE Goal
  <2>1. d'.pc = "persist" /\ d'.slot = d.slot /\ d'.profile = d.profile /\ d.pc \in {"run", "worked"}
    BY <1>1, <1>14 DEF Return, Driver
  <2> QED
    BY <1>1, <1>2, <2>1 DEF Underway
<1>15. CASE PersistFile
  <2>1. d' = Idle \/ (ForStage("mirror", d.slot, d.profile) /\ Invoked \in DOMAIN results')
    <3>1. ASSUME NEW v, results' = WriteOnce(results, Invoked, v) PROVE Invoked \in DOMAIN results'
      BY <3>1 DEF WriteOnce
    <3> QED
      BY <1>15, <3>1 DEF PersistFile, Answer
  <2>2. ForStage("mirror", d.slot, d.profile) =>
          d'.pc = "mirror" /\ d'.slot = d.slot /\ d'.profile = d.profile
    BY DEF ForStage, Idle
  <2>3. d.pc = "persist"
    BY <1>15 DEF PersistFile
  <2> QED
    BY <1>1, <1>4, <2>1, <2>2, <2>3 DEF Underway, Invoked
<1>16. CASE StartTask
  <2>1. d'.pc = "event" /\ d'.slot = d.slot /\ d'.profile = d.profile /\ d.pc = "mirror"
    BY <1>1, <1>16 DEF StartTask, Call, Driver
  <2> QED
    BY <1>1, <1>2, <2>1 DEF Underway
<1>17. ASSUME NEW i \in DOMAIN results, PersistAgain(i) PROVE Goal
  <2>1. i \in Slot \X Profile
    BY DEF IInv, Types, TypeOK, Invocation
  <2>2. d'.pc = "mirror" /\ d'.slot = i[1] /\ d'.profile = i[2]
    BY <1>17 DEF PersistAgain, ForStage, Idle
  <2>3. <<d'.slot, d'.profile>> = i /\ d'.profile \in Profile
    BY <2>1, <2>2
  <2> QED
    BY <1>2, <2>2, <2>3 DEF Underway
<1>18. ASSUME NEW t \in Task, EvaluateTask(t) PROVE Goal
  BY <1>3, <1>18 DEF EvaluateTask, Idle, Resting, Completing
<1>19. CASE EvaluateRun
  BY <1>3, <1>19 DEF EvaluateRun, Idle, Resting
<1>20. ASSUME NEW n, NEW tasks, PrepareFinal(n, tasks) \/ BeginFinal(n) PROVE Goal
  BY <1>3, <1>20 DEF PrepareFinal, BeginFinal, Idle, Resting
<1>21. CASE CheckQuality \/ CheckSpec \/ AppendEvidence \/ CheckFinal \/ CheckChains
  <2>1. d' = Idle \/ \E pc \in Resting : d' = [d EXCEPT !.pc = pc]
    BY <1>21 DEF CheckQuality, CheckSpec, AppendEvidence, CheckFinal, CheckChains,
                 Call, Answer, Resting, Completing
  <2> QED
    BY <1>4, <1>8, <2>1
<1> HIDE DEF Goal
<1>22. CASE Barrier
  BY <1>4, <1>18, <1>19, <1>20, <1>21, <1>22
     DEF Barrier, AppendCompleted, Materialize, EndRun, ReturnFinal, Answer
<1>23. CASE Stages
  BY <1>4, <1>6, <1>9, <1>10, <1>11, <1>12, <1>13, <1>14, <1>15, <1>16, <1>17, <1>23
     DEF Stages, Register, WriteBrief, Reserve, MirrorEvent, RollBack, Crash, Answer
<1>24. CASE Others
  BY <1>7, <1>24 DEF Others, Edit, MakeCommit, GiveUp, Reopen
<1>25. CASE UNCHANGED vars
  BY <1>6, <1>25 DEF vars, isolatedVars
<1> QED
  BY <1>22, <1>23, <1>24, <1>25 DEF Next

-----------------------------------------------------------------------------
(* How a call comes to be at the steps of a barrier.                       *)
AtBarrier == Completing \cup {"final", "checkChains", "end"}

CallMove ==
  \/ d'.pc \notin AtBarrier
  \/ d' = d \/ Disturbed
  \/ (\E t \in Task : EvaluateTask(t)) \/ CheckQuality \/ CheckSpec \/ AppendEvidence
  \/ (\E n \in 1 .. MaxFinal : BeginFinal(n)) \/ CheckFinal \/ CheckChains

(* A call of the barrier starts, does its next check, is disturbed or ends. *)
LEMMA CallSteps ==
  ASSUME Types, [Next]_vars
  PROVE  CallMove
<1>1. CASE d' = Idle
  BY <1>1 DEF CallMove, Idle, AtBarrier, Completing
<1>2. CASE d' = d
  BY <1>2 DEF CallMove
<1>3. CASE d'.pc \notin AtBarrier
  BY <1>3 DEF CallMove
<1>4. CASE Disturb
  BY <1>4 DEF CallMove, Disturb, Disturbed, Completing
<1>5. d \in Driver(d.final)
  BY DEF Types
<1>6. CASE Barrier
  BY <1>1, <1>3, <1>6
     DEF Barrier, AppendCompleted, Materialize, EndRun, ReturnFinal, Answer, CallMove,
         PrepareFinal, EvaluateRun, Idle, AtBarrier, Completing
<1>7. CASE Stages
  <2>1. ASSUME NEW t \in Task, Register(t) \/ WriteBrief(t) \/ Reserve(t) PROVE CallMove
    BY <1>2, <2>1 DEF Register, WriteBrief, Reserve
  <2>2. ASSUME NEW t \in Task, PrepareWork(t) PROVE CallMove
    BY <1>3, <2>2 DEF PrepareWork, ForStage, Idle, AtBarrier, Completing
  <2>3. ASSUME NEW t, NEW stage, NEW p, NEW q, PrepareReview(t, stage, p, q) PROVE CallMove
    BY <1>3, <2>3 DEF PrepareReview, Idle, AtBarrier, Completing
  <2>4. CASE BuildContract \/ PersistFile
    BY <1>1, <1>3, <2>4 DEF BuildContract, PersistFile, ForStage, Answer, Idle, AtBarrier, Completing
  <2>5. ASSUME NEW p, Begin(p) PROVE CallMove
    BY <1>1, <1>3, <1>5, <2>5 DEF Begin, AtBarrier, Completing, Driver
  <2>6. ASSUME NEW w, Works(w) PROVE CallMove
    BY <1>3, <1>5, <2>6 DEF Works, Call, AtBarrier, Completing, Driver
  <2>7. ASSUME NEW s, Return(s) PROVE CallMove
    BY <1>3, <1>5, <2>7 DEF Return, AtBarrier, Completing, Driver
  <2>8. CASE StartTask
    BY <1>3, <1>5, <2>8 DEF StartTask, Call, AtBarrier, Completing, Driver
  <2>9. ASSUME NEW i, PersistAgain(i) PROVE CallMove
    BY <1>3, <2>9 DEF PersistAgain, ForStage, Idle, AtBarrier, Completing
  <2> QED
    BY <1>1, <1>7, <2>1, <2>2, <2>3, <2>4, <2>5, <2>6, <2>7, <2>8, <2>9
       DEF Stages, MirrorEvent, RollBack, Crash, Answer
<1>8. CASE Others
  BY <1>4, <1>8 DEF Others, Edit, MakeCommit, GiveUp, Reopen
<1>9. CASE UNCHANGED vars
  BY <1>2, <1>9 DEF vars, isolatedVars
<1> QED
  BY <1>6, <1>7, <1>8, <1>9 DEF Next

-----------------------------------------------------------------------------
(* While a barrier is at work nobody writes files, and its call stays the  *)
(* same but for the step it is at and the disturbances.                    *)
SameCall == d'.slot = d.slot /\ d'.worker = d.worker /\ d'.result = d.result /\ d'.final = d.final

(* While a barrier is at work nobody writes contracts or results. *)
LEMMA BarrierAlone ==
  ASSUME Types, [Next]_vars, d.pc \in AtBarrier
  PROVE  contracts' = contracts /\ results' = results
BY FilesSteps DEF FilesMove, BuildContract, PersistFile, AtBarrier, Completing

(* What each check of a barrier leaves of its call. *)
LEMMA SameCalls ==
  ASSUME Types
  PROVE  /\ d' = d => SameCall /\ d'.pc = d.pc /\ d'.calm = d.calm
         /\ Disturbed => SameCall /\ d'.pc = d.pc /\ d'.calm = (d.pc \notin Completing)
         /\ CheckQuality => d' = Idle \/ (SameCall /\ d'.pc = "checkSpec" /\ d'.calm = d.calm)
         /\ CheckSpec => d' = Idle \/ (SameCall /\ d'.pc = "evidence" /\ d'.calm = d.calm)
         /\ AppendEvidence => d' = Idle \/ (SameCall /\ d'.pc = "complete" /\ d'.calm = d.calm)
         /\ CheckFinal => d' = Idle \/ (SameCall /\ d'.pc = "checkChains")
         /\ CheckChains => d' = Idle \/ (SameCall /\ d'.pc = "end")
<1>1. d \in Driver(d.final)
  BY DEF Types
<1>2. ASSUME NEW pc \in Pc, Call(pc) PROVE SameCall /\ d'.pc = pc /\ d'.calm = d.calm
  BY <1>1, <1>2 DEF Call, Driver, SameCall
<1>3. Disturbed => SameCall /\ d'.pc = d.pc /\ d'.calm = (d.pc \notin Completing)
  BY <1>1 DEF Disturbed, Driver, SameCall
<1>4. d' = d => SameCall /\ d'.pc = d.pc /\ d'.calm = d.calm
  BY DEF SameCall
<1>5. CheckQuality => d' = Idle \/ Call("checkSpec")
  BY DEF CheckQuality, Answer
<1>6. CheckSpec => d' = Idle \/ Call("evidence")
  BY DEF CheckSpec, Answer
<1>7. AppendEvidence => d' = Idle \/ Call("complete")
  BY DEF AppendEvidence, Answer
<1>8. CheckFinal => d' = Idle \/ Call("checkChains")
  BY DEF CheckFinal, Answer
<1>9. CheckChains => d' = Idle \/ Call("end")
  BY DEF CheckChains, Answer
<1>10. {"checkSpec", "evidence", "complete", "checkChains", "end"} \subseteq Pc
  BY DEF Pc, Completing
<1> QED
  BY <1>2, <1>3, <1>4, <1>5, <1>6, <1>7, <1>8, <1>9, <1>10

(* What a review that is found valid says. *)
LEMMA ValidReview ==
  ASSUME NEW stage \in {"spec", "quality"}, ReviewValid(stage)
  PROVE  /\ Review(d, contracts, results, stage)
         /\ SeenOn(contracts[Stg(d.slot, stage)], head, ws, src)
<1>1. OfCall(stage) = Stg(d.slot, stage) /\ Stg(d.slot, stage)[3] = stage
  BY DEF OfCall, Stg
<1>2. PICK p \in Profile :
        /\ Of(OfCall(stage)) = {p} /\ Passed(<<OfCall(stage), p>>)
        /\ results[<<OfCall(stage), p>>].commit = d.result.commit
        /\ contracts[OfCall(stage)].worker = d.worker
        /\ Current(OfCall(stage))
  BY DEF ReviewValid
<1>3. Review(d, contracts, results, stage)
  BY <1>1, <1>2 DEF Review, Of, OfIn, Passed, PassedIn
<1>4. SeenOn(contracts[Stg(d.slot, stage)], head, ws, src)
  BY <1>1, <1>2 DEF Current, SeenOn
<1> QED
  BY <1>3, <1>4

(* What a completion has checked so far stays so. *)
LEMMA CheckedStep ==
  ASSUME IInv, [Next]_vars
  PROVE  Checked(d', contracts', results')
<1> DEFINE Goal == Checked(d', contracts', results')
<1> SUFFICES Goal
  OBVIOUS
<1>1. Types /\ Checked(d, contracts, results) /\ CallMove
  BY CallSteps DEF IInv
<1>2. ASSUME d'.pc \notin {"checkSpec", "evidence", "complete"} PROVE Goal
  BY <1>2 DEF Checked
<1>3. d.pc \in AtBarrier => contracts' = contracts /\ results' = results
  BY <1>1, BarrierAlone
<1>4. ASSUME SameCall, d'.pc = d.pc PROVE Goal
  BY <1>1, <1>2, <1>3, <1>4 DEF Checked, Review, SameCall, AtBarrier, Completing
<1>5. CASE d' = d \/ Disturbed
  BY <1>1, <1>4, <1>5, SameCalls
<1>6. CASE d' = Idle
  BY <1>2, <1>6 DEF Idle
<1>7. CASE CheckQuality /\ SameCall /\ d'.pc = "checkSpec"
  <2>1. ReviewValid("quality") /\ Of(OfCall("spec")) = {contracts[OfCall("quality")].pred} /\ d.pc = "checkQuality"
    BY <1>7 DEF CheckQuality, Answer, Idle
  <2>2. Review(d, contracts, results, "quality")
    BY <2>1, ValidReview
  <2>3. OfIn(results, Stg(d.slot, "spec")) = {contracts[Stg(d.slot, "quality")].pred}
    BY <2>1 DEF Of, OfIn, OfCall, Stg
  <2>4. contracts' = contracts /\ results' = results
    BY <1>3, <2>1 DEF AtBarrier, Completing
  <2> QED
    BY <1>7, <2>2, <2>3, <2>4 DEF Checked, Review, SameCall
<1>8. CASE CheckSpec /\ SameCall /\ d'.pc = "evidence"
  <2>1. ReviewValid("spec") /\ d.pc = "checkSpec"
    BY <1>8 DEF CheckSpec, Answer, Idle
  <2>2. Review(d, contracts, results, "spec")
    BY <2>1, ValidReview
  <2>3. contracts' = contracts /\ results' = results
    BY <1>3, <2>1 DEF AtBarrier, Completing
  <2> QED
    BY <1>1, <1>8, <2>1, <2>2, <2>3 DEF Checked, Review, SameCall
<1>9. CASE AppendEvidence /\ SameCall /\ d'.pc = "complete"
  <2>1. d.pc = "evidence"
    BY <1>9 DEF AppendEvidence
  <2>2. contracts' = contracts /\ results' = results
    BY <1>3, <2>1 DEF AtBarrier, Completing
  <2> QED
    BY <1>1, <1>9, <2>1, <2>2 DEF Checked, Review, SameCall
<1>10. ASSUME NEW t \in Task, EvaluateTask(t) PROVE Goal
  BY <1>2, <1>10 DEF EvaluateTask, Idle
<1>11. ASSUME NEW n, BeginFinal(n) PROVE Goal
  BY <1>2, <1>11 DEF BeginFinal, Idle
<1>12. CASE CheckFinal \/ CheckChains
  BY <1>1, <1>2, <1>6, <1>12, SameCalls
<1>13. CASE CheckQuality \/ CheckSpec \/ AppendEvidence
  BY <1>1, <1>6, <1>7, <1>8, <1>9, <1>13, SameCalls
<1>14. CASE d'.pc \notin AtBarrier
  BY <1>2, <1>14 DEF AtBarrier, Completing
<1> HIDE DEF Goal
<1> QED
  BY <1>1, <1>5, <1>10, <1>11, <1>12, <1>13, <1>14 DEF CallMove

(* A barrier's task is in the attempt that is judged, or beyond reach. *)
LEMMA OwnStep ==
  ASSUME Parameters, IInv, [Next]_vars
  PROVE  Own(d', st', attempt')
<1> SUFFICES ASSUME d'.pc \in Completing
             PROVE  attempt'[d'.slot[1]] = d'.slot[2] \/ st'.tasks[d'.slot[1]].status # "started"
  BY DEF Own
<1>1. Types /\ Own(d, st, attempt) /\ CallMove /\ LedgerMove /\ d.slot[1] \in Task
  BY CallSteps, LedgerSteps DEF IInv, Types, Driver, Slot
<1>2. CASE SameCall /\ d.pc \in Completing
  <2> DEFINE t == d.slot[1]
  <2>1. TaskMove(d, st.tasks[t], st'.tasks[t], attempt'[t] = attempt[t], Proof, t)
    BY <1>1 DEF LedgerMove
  <2>2. d.pc # "mirror"
    BY <1>2 DEF Completing
  <2> QED
    BY <1>1, <1>2, <2>1, <2>2 DEF TaskMove, Same, Own, SameCall
<1>3. ASSUME NEW t \in Task, EvaluateTask(t)
      PROVE  attempt'[d'.slot[1]] = d'.slot[2]
  BY <1>3 DEF EvaluateTask, Slots, Stage, Idle, ledger
<1>4. CASE CheckQuality \/ CheckSpec \/ AppendEvidence
  <2>1. d.pc \in Completing
    BY <1>4 DEF CheckQuality, CheckSpec, AppendEvidence, Completing
  <2>2. SameCall
    BY <1>1, <1>4, SameCalls DEF Idle, Completing
  <2> QED
    BY <1>2, <2>1, <2>2
<1>5. CASE d' = d \/ Disturbed
  BY <1>1, <1>2, <1>5, SameCalls
<1>6. ~(CheckFinal \/ CheckChains) /\ \A n : ~BeginFinal(n)
  <2>1. ~(CheckFinal \/ CheckChains)
    BY <1>1, SameCalls DEF Idle, Completing
  <2> QED
    BY <2>1 DEF BeginFinal, Idle, Completing
<1> QED
  BY <1>1, <1>3, <1>4, <1>5, <1>6 DEF CallMove, AtBarrier

(* Undisturbed, the reviews saw the repository as it still is. *)
LEMMA CalmStep ==
  ASSUME Parameters, IInv, [Next]_vars
  PROVE  Calm(d', contracts', head', ws', src')
<1> DEFINE Goal == Calm(d', contracts', head', ws', src')
<1> SUFFICES Goal
  OBVIOUS
<1>1. Types /\ Calm(d, contracts, head, ws, src) /\ CallMove /\ RepoMove
  BY CallSteps, RepoSteps DEF IInv
<1>2. ASSUME d'.pc \notin {"checkSpec", "evidence", "complete"} \/ ~d'.calm PROVE Goal
  BY <1>2 DEF Calm
<1>3. d.pc \in AtBarrier => contracts' = contracts
  BY <1>1, BarrierAlone
<1>4. CASE Disturbed
  <2>1. d'.pc = d.pc /\ d'.calm = (d.pc \notin Completing)
    BY <1>1, <1>4, SameCalls
  <2> QED
    BY <1>2, <2>1 DEF Completing
<1>5. CASE d' = d /\ ~Disturbed
  <2>1. CASE d.pc \in {"checkSpec", "evidence", "complete"}
    <3>1. UNCHANGED <<ws, src, head>> /\ contracts' = contracts
      BY <1>1, <1>3, <1>5, <2>1 DEF RepoMove, AtBarrier, Completing
    <3> QED
      BY <1>1, <1>5, <3>1 DEF Calm
  <2> QED
    BY <1>2, <1>5, <2>1
<1>6. CASE d' = Idle
  BY <1>2, <1>6 DEF Idle
<1>7. CASE CheckQuality /\ SameCall /\ d'.pc = "checkSpec"
  <2>1. ReviewValid("quality") /\ UNCHANGED <<contracts, ws, src, head>>
    BY <1>7 DEF CheckQuality, Answer, Idle, files, repo
  <2>2. SeenOn(contracts[Stg(d.slot, "quality")], head, ws, src)
    BY <2>1, ValidReview
  <2> QED
    BY <1>7, <2>1, <2>2 DEF Calm, SameCall
<1>8. CASE CheckSpec /\ SameCall /\ d'.pc = "evidence" /\ d'.calm = d.calm
  <2>1. ReviewValid("spec") /\ d.pc = "checkSpec" /\ UNCHANGED <<contracts, ws, src, head>>
    BY <1>8 DEF CheckSpec, Answer, Idle, files, repo
  <2>2. SeenOn(contracts[Stg(d.slot, "spec")], head, ws, src)
    BY <2>1, ValidReview
  <2> QED
    BY <1>1, <1>8, <2>1, <2>2 DEF Calm, SameCall
<1>9. CASE AppendEvidence /\ SameCall /\ d'.pc = "complete" /\ d'.calm = d.calm
  <2>1. d.pc = "evidence" /\ UNCHANGED <<contracts, ws, src, head>>
    BY <1>9 DEF AppendEvidence, files, repo
  <2> QED
    BY <1>1, <1>9, <2>1 DEF Calm, SameCall
<1>10. ASSUME NEW t \in Task, EvaluateTask(t) PROVE Goal
  BY <1>2, <1>10 DEF EvaluateTask, Idle
<1>11. ASSUME NEW n, BeginFinal(n) PROVE Goal
  BY <1>2, <1>11 DEF BeginFinal, Idle
<1>12. CASE CheckFinal \/ CheckChains
  BY <1>1, <1>2, <1>6, <1>12, SameCalls
<1>13. CASE CheckQuality \/ CheckSpec \/ AppendEvidence
  BY <1>1, <1>6, <1>7, <1>8, <1>9, <1>13, SameCalls
<1>14. CASE d'.pc \notin AtBarrier
  BY <1>2, <1>14 DEF AtBarrier, Completing
<1> HIDE DEF Goal
<1> QED
  BY <1>1, <1>4, <1>5, <1>10, <1>11, <1>12, <1>13, <1>14 DEF CallMove

-----------------------------------------------------------------------------
(* What the completion of a barrier call binds is the chain it checked. *)
LEMMA ProofProves ==
  ASSUME IInv, d.pc = "complete", NEW ts, ts.binds = Proof, ts.commit = d.result.commit
  PROVE  ProvenBy(ts, Stg(d.slot, "quality"), Stg(d.slot, "spec"), contracts, results)
<1> DEFINE q == Stg(d.slot, "quality")
           s == Stg(d.slot, "spec")
           pred == contracts[q].pred
<1>1. /\ Review(d, contracts, results, "quality") /\ Review(d, contracts, results, "spec")
      /\ OfIn(results, s) = {pred}
  BY DEF IInv, Checked
<1>2. PICK p \in Profile :
        /\ OfIn(results, q) = {p} /\ PassedIn(results, <<q, p>>)
        /\ results[<<q, p>>].commit = d.result.commit
  BY <1>1 DEF Review
<1>3. PassedIn(results, <<s, pred>>) /\ results[<<s, pred>>].commit = d.result.commit
  BY <1>1 DEF Review
<1>4. OfCall("spec") = s /\ OfCall("quality") = q
  BY DEF OfCall, Stg
<1>5. DOMAIN results \subseteq Slot \X Profile /\ \A i \in DOMAIN results : i[1] \in DOMAIN contracts
  BY DEF IInv, Types, TypeOK, Invocation, Written
<1>6. ASSUME NEW i \in DOMAIN results
      PROVE  i[1] \in {s, q} <=> i \in {<<s, pred>>, <<q, p>>}
  <2>1. i = <<i[1], i[2]>> /\ i[2] \in Profile
    BY <1>5, <1>6
  <2>2. i[1] = s => i[2] \in OfIn(results, s)
    BY <1>6, <2>1 DEF OfIn
  <2>3. i[1] = q => i[2] \in OfIn(results, q)
    BY <1>6, <2>1 DEF OfIn
  <2> HIDE DEF q, s, pred
  <2> QED
    BY <1>1, <1>2, <2>1, <2>2, <2>3
<1>7. <<s, pred>> \in DOMAIN results /\ <<q, p>> \in DOMAIN results
  BY <1>2, <1>3 DEF PassedIn
<1> HIDE DEF q, s, pred
<1>8. \A b : b \in Proof <=> \E i \in {<<s, pred>>, <<q, p>>} : b = [src |-> i, dig |-> results[i]]
  BY <1>4, <1>6, <1>7 DEF Proof
<1>9. {b.src : b \in ts.binds} = {<<s, pred>>, <<q, p>>}
  <2>1. ASSUME NEW b \in Proof PROVE b.src \in {<<s, pred>>, <<q, p>>}
    BY <1>8, <2>1
  <2>2. ASSUME NEW i \in {<<s, pred>>, <<q, p>>} PROVE \E b \in Proof : b.src = i
    <3> DEFINE b == [src |-> i, dig |-> results[i]]
    <3>1. b \in Proof /\ b.src = i
      BY <1>8, <2>2
    <3> QED
      BY <3>1
  <2> QED
    BY <2>1, <2>2
<1>10. ASSUME NEW b \in ts.binds
       PROVE  b.src \in DOMAIN results /\ b.dig = results[b.src] /\ b.dig.status = "passed"
              /\ b.dig.commit = ts.commit
  BY <1>2, <1>3, <1>7, <1>8, <1>10 DEF PassedIn
<1>11. <<s, pred>>[1] \in DOMAIN contracts /\ <<q, p>>[1] \in DOMAIN contracts
  BY <1>5, <1>7
<1> QED
  BY <1>9, <1>10, <1>11 DEF ProvenBy, q, s, pred

(* It stays proven while its task stays completed. *)
LEMMA ProvenStays ==
  ASSUME NEW ts, NEW new, NEW q, NEW s, NEW c, NEW r, NEW cAfter, NEW rAfter,
         ProvenBy(ts, q, s, c, r), Same(ts, new), Grows(c, cAfter), Grows(r, rAfter)
  PROVE  ProvenBy(new, q, s, cAfter, rAfter)
BY DEF ProvenBy, Same, Grows

(* What is completed was proved by the attempt it is in. *)
LEMMA ProvenStep ==
  ASSUME Parameters, IInv, [Next]_vars
  PROVE  Proven(st', attempt', contracts', results')
<1> SUFFICES ASSUME NEW t \in Task, st'.tasks[t].status = "completed"
             PROVE  ProvenBy(st'.tasks[t], <<t, attempt'[t], "quality">>, <<t, attempt'[t], "spec">>,
                             contracts', results')
  BY DEF Proven
<1>1. LedgerMove /\ FilesMove /\ Types
  BY LedgerSteps, FilesSteps DEF IInv
<1>2. TaskMove(d, st.tasks[t], st'.tasks[t], attempt'[t] = attempt[t], Proof, t)
  BY <1>1 DEF LedgerMove
<1>3. CASE Same(st.tasks[t], st'.tasks[t]) /\ attempt'[t] = attempt[t]
  <2>1. ProvenBy(st.tasks[t], <<t, attempt[t], "quality">>, <<t, attempt[t], "spec">>, contracts, results)
    BY <1>3 DEF IInv, Proven, Same
  <2> QED
    BY <1>1, <1>3, <2>1, ProvenStays DEF FilesMove
<1>4. CASE /\ d.pc = "complete" /\ d.slot[1] = t /\ attempt'[t] = attempt[t]
           /\ st.tasks[t].status = "started"
           /\ st'.tasks[t].commit = d.result.commit /\ st'.tasks[t].binds = Proof
  <2>1. ProvenBy(st'.tasks[t], Stg(d.slot, "quality"), Stg(d.slot, "spec"), contracts, results)
    BY <1>4, ProofProves
  <2>2. attempt[t] = d.slot[2]
    BY <1>4 DEF IInv, Own, Completing
  <2>3. contracts' = contracts /\ results' = results
    BY <1>1, <1>4, BarrierAlone DEF AtBarrier, Completing
  <2> QED
    BY <1>4, <2>1, <2>2, <2>3 DEF Stg
<1> QED
  BY <1>2, <1>3, <1>4 DEF TaskMove

-----------------------------------------------------------------------------
(* A final review that covers what the chains show is of this whole run.  *)
LEMMA CoversWhole ==
  ASSUME IInv, d.pc = "checkChains", Covers(d.final),
         \A t \in Registered :
           Accepted(t) /\ \A stage \in Stage : results[Chain(t)[stage]].commit = d.result.commit
  PROVE  Whole(d.final, st, finals)
<1> DEFINE k == finals[d.final]
<1>1. k.commit = d.result.commit /\ k.covers = [t \in Registered |-> Chain(t)]
  BY DEF IInv, Judged, Favourable, Covers
<1>2. ASSUME NEW t \in Task, st.tasks[t].status = "completed"
      PROVE  Covering(st.tasks[t], k, t)
  <2> DEFINE s == <<t, attempt[t], "spec">>
             q == <<t, attempt[t], "quality">>
             ts == st.tasks[t]
             pred == contracts[q].pred
  <2>1. t \in Registered /\ k.covers[t] = Chain(t)
    BY <1>1, <1>2 DEF Registered
  <2>2. "spec" \in Stage /\ "quality" \in Stage
    BY DEF Stage
  <2>3. PICK a \in Profile : Of(s) = {a}
    BY <2>1, <2>2 DEF Accepted, Chained, Slots
  <2>4. PICK b \in Profile : Of(q) = {b}
    BY <2>1, <2>2 DEF Accepted, Chained, Slots
  <2>5. Chain(t)["spec"] = <<s, a>>
    <3>1. Chain(t)["spec"] = <<s, CHOOSE p \in Profile : Of(s) = {p}>>
      BY <2>2 DEF Chain, Slots
    <3> HIDE DEF s
    <3>2. (CHOOSE p \in Profile : Of(s) = {p}) = a
      BY <2>3
    <3> QED
      BY <3>1, <3>2
  <2>6. Chain(t)["quality"] = <<q, b>>
    <3>1. Chain(t)["quality"] = <<q, CHOOSE p \in Profile : Of(q) = {p}>>
      BY <2>2 DEF Chain, Slots
    <3> HIDE DEF q
    <3>2. (CHOOSE p \in Profile : Of(q) = {p}) = b
      BY <2>4
    <3> QED
      BY <3>1, <3>2
  <2>7. ProvenBy(ts, q, s, contracts, results)
    BY <1>2 DEF IInv, Proven
  <2> HIDE DEF s, q, ts
  <2>8. PICK p \in Profile : {z.src : z \in ts.binds} = {<<s, pred>>, <<q, p>>}
    BY <2>7 DEF ProvenBy
  <2>9. \A z \in ts.binds : z.src \in DOMAIN results /\ results[z.src].commit = ts.commit
    BY <2>7 DEF ProvenBy
  <2>10. PICK x \in ts.binds : x.src = <<s, pred>>
    BY <2>8
  <2>11. PICK y \in ts.binds : y.src = <<q, p>>
    BY <2>8
  <2>12. <<s, pred>> \in DOMAIN results /\ <<q, p>> \in DOMAIN results
    BY <2>9, <2>10, <2>11
  <2>13. DOMAIN results \subseteq Slot \X Profile
    BY DEF IInv, Types, TypeOK, Invocation
  <2>14. pred \in Profile
    BY <2>12, <2>13
  <2>15. pred = a /\ p = b
    BY <2>3, <2>4, <2>12, <2>14 DEF Of
  <2>16. results[<<s, a>>].commit = d.result.commit
    BY <2>1, <2>2, <2>5
  <2>17. ts.commit = k.commit
    BY <1>1, <2>9, <2>10, <2>15, <2>16
  <2>18. {z.src : z \in ts.binds} = {k.covers[t]["spec"], k.covers[t]["quality"]}
    BY <2>1, <2>5, <2>6, <2>8, <2>15
  <2> QED
    BY <2>17, <2>18 DEF Covering, ts
<1>3. DOMAIN k.covers = Registered
  BY <1>1
<1> QED
  BY <1>2, <1>3 DEF Whole, Registered

(* What a review covers stays covered while its call goes on. *)
LEMMA WholeStays ==
  ASSUME NEW n, NEW f, NEW f2, n \in DOMAIN f, Grows(f, f2), NEW s, NEW s2, Whole(n, s, f),
         \A t \in Task : Same(s.tasks[t], s2.tasks[t])
                         \/ (s2.tasks[t].status \in {"registered", "failed"} /\ s.tasks[t].status # "absent")
  PROVE  Whole(n, s2, f2)
<1>1. f2[n] = f[n]
  BY DEF Grows
<1>2. {t \in Task : s2.tasks[t].status # "absent"} = {t \in Task : s.tasks[t].status # "absent"}
  BY DEF Same
<1>3. ASSUME NEW t \in Task, s2.tasks[t].status = "completed" PROVE Covering(s2.tasks[t], f2[n], t)
  <2>1. Same(s.tasks[t], s2.tasks[t])
    BY <1>3
  <2>2. Covering(s.tasks[t], f[n], t)
    BY <1>3, <2>1 DEF Whole, Same
  <2> QED
    BY <1>1, <2>1, <2>2 DEF Covering, Same
<1> QED
  BY <1>1, <1>2, <1>3 DEF Whole

(* A final review that passed covers the tasks it goes on about. *)
LEMMA JudgedStep ==
  ASSUME Parameters, IInv, [Next]_vars
  PROVE  Judged(d', st', finals', verdicts')
<1>1. /\ Types /\ Judged(d, st, finals, verdicts) /\ CallMove /\ LedgerMove /\ FinalsMove
  BY CallSteps, LedgerSteps, FinalsSteps DEF IInv
<1>2. DOMAIN verdicts' \subseteq DOMAIN finals'
  BY <1>1 DEF FinalsMove, Judged, Grows
<1>3. /\ \A n \in DOMAIN verdicts : n \in DOMAIN verdicts' /\ verdicts'[n] = verdicts[n]
      /\ \A n \in DOMAIN finals : n \in DOMAIN finals' /\ finals'[n] = finals[n]
  BY <1>1 DEF FinalsMove, Grows
<1>4. Favourable(d, finals, verdicts) /\ SameCall => Favourable(d', finals', verdicts')
  BY <1>1, <1>3 DEF Favourable, SameCall, Judged
<1>5. ASSUME d.pc \in {"checkChains", "end"}, Whole(d.final, st, finals), Favourable(d, finals, verdicts)
      PROVE  Whole(d.final, st', finals')
  <2>1. ASSUME NEW t \in Task
        PROVE  Same(st.tasks[t], st'.tasks[t])
               \/ (st'.tasks[t].status \in {"registered", "failed"} /\ st.tasks[t].status # "absent")
    BY <1>1, <1>5 DEF LedgerMove, TaskMove
  <2>2. d.final \in DOMAIN finals /\ Grows(finals, finals')
    BY <1>1, <1>5 DEF Judged, Favourable, FinalsMove
  <2> QED
    BY <1>5, <2>1, <2>2, WholeStays
<1>6. d'.pc = "final" => d'.final \in DOMAIN finals'
  <2> SUFFICES ASSUME d'.pc = "final" PROVE d'.final \in DOMAIN finals'
    OBVIOUS
  <2>1. CASE d' = d \/ Disturbed
    BY <1>1, <1>3, <2>1, SameCalls DEF SameCall, Judged
  <2>2. ASSUME NEW n, BeginFinal(n) PROVE d'.final \in DOMAIN finals'
    <3>1. n \in DOMAIN finals /\ d'.final = n
      BY <2>2 DEF BeginFinal, Idle
    <3> QED
      BY <1>3, <3>1
  <2>3. ~(CheckQuality \/ CheckSpec \/ AppendEvidence \/ CheckFinal \/ CheckChains)
    BY <1>1, SameCalls DEF Idle
  <2>4. \A t \in Task : ~EvaluateTask(t)
    BY DEF EvaluateTask, Idle
  <2> QED
    BY <1>1, <2>1, <2>2, <2>3, <2>4 DEF CallMove, AtBarrier
<1>7. /\ d'.pc \in {"checkChains", "end"} => Favourable(d', finals', verdicts')
      /\ d'.pc = "end" => Whole(d'.final, st', finals')
  <2> SUFFICES ASSUME d'.pc \in {"checkChains", "end"}
               PROVE  /\ Favourable(d', finals', verdicts')
                      /\ d'.pc = "end" => Whole(d'.final, st', finals')
    OBVIOUS
  <2>1. CASE d' = d \/ Disturbed
    <3>1. SameCall /\ d'.pc = d.pc
      BY <1>1, <2>1, SameCalls
    <3>2. Favourable(d, finals, verdicts) /\ (d.pc = "end" => Whole(d.final, st, finals))
      BY <1>1, <3>1 DEF Judged
    <3> QED
      BY <1>4, <1>5, <3>1, <3>2 DEF SameCall
  <2>2. CASE CheckFinal
    <3>1. SameCall /\ d'.pc = "checkChains"
      BY <1>1, <2>2, SameCalls DEF Idle
    <3>2. d' # Idle
      BY <3>1 DEF Idle
    <3>3. Favourable(d, finals, verdicts)
      BY <2>2, <3>2 DEF CheckFinal, Answer, Favourable
    <3> QED
      BY <1>4, <3>1, <3>3
  <2>3. CASE CheckChains
    <3>1. SameCall /\ d'.pc = "end" /\ d' # Idle
      BY <1>1, <2>3, SameCalls DEF Idle
    <3>2. /\ d.pc = "checkChains" /\ Covers(d.final)
          /\ \A t \in Registered :
               Accepted(t) /\ \A stage \in Stage : results[Chain(t)[stage]].commit = d.result.commit
      BY <2>3, <3>1 DEF CheckChains, Answer
    <3>3. Whole(d.final, st, finals) /\ Favourable(d, finals, verdicts)
      BY <1>1, <3>2, CoversWhole DEF Judged
    <3> QED
      BY <1>4, <1>5, <3>1, <3>2, <3>3 DEF SameCall
  <2>4. ~(CheckQuality \/ CheckSpec \/ AppendEvidence)
    BY <1>1, SameCalls DEF Idle
  <2>5. \A t \in Task : ~EvaluateTask(t)
    BY DEF EvaluateTask, Idle
  <2>6. \A n \in 1 .. MaxFinal : ~BeginFinal(n)
    BY DEF BeginFinal, Idle
  <2> QED
    BY <1>1, <2>1, <2>2, <2>3, <2>4, <2>5, <2>6 DEF CallMove, AtBarrier
<1> QED
  BY <1>2, <1>6, <1>7 DEF Judged

(* A completed run stays reviewed as a whole. *)
LEMMA EndingStep ==
  ASSUME Parameters, IInv, [Next]_vars
  PROVE  Ending(st', finals', verdicts')
<1> SUFFICES ASSUME st'.run = "completed"
             PROVE  AllDone(st')
                    /\ \E n \in DOMAIN verdicts' : verdicts'[n].status = "passed" /\ Whole(n, st', finals')
  BY DEF Ending
<1>1. /\ Judged(d, st, finals, verdicts) /\ Ending(st, finals, verdicts) /\ LedgerMove /\ FinalsMove
  BY LedgerSteps, FinalsSteps DEF IInv
<1>2. ASSUME NEW n \in DOMAIN verdicts, verdicts[n].status = "passed", Whole(n, st, finals),
             st'.tasks = st.tasks
      PROVE  n \in DOMAIN verdicts' /\ verdicts'[n].status = "passed" /\ Whole(n, st', finals')
  <2>1. n \in DOMAIN finals /\ Grows(finals, finals') /\ Grows(verdicts, verdicts')
    BY <1>1 DEF Judged, FinalsMove
  <2>2. Whole(n, st', finals')
    BY <1>2, <2>1, WholeStays DEF Same
  <2> QED
    BY <1>2, <2>1, <2>2 DEF Grows
<1>3. CASE st.run = "completed"
  <2>1. AllDone(st) /\ st'.tasks = st.tasks
    BY <1>1, <1>3 DEF Ending, LedgerMove
  <2>2. PICK n \in DOMAIN verdicts : verdicts[n].status = "passed" /\ Whole(n, st, finals)
    BY <1>1, <1>3 DEF Ending
  <2> QED
    BY <1>2, <2>1, <2>2 DEF AllDone
<1>4. CASE st.run # "completed"
  <2>1. d.pc = "end" /\ AllDone(st) /\ st'.tasks = st.tasks
    BY <1>1, <1>4 DEF LedgerMove, RunMove
  <2>2. d.final \in DOMAIN verdicts /\ verdicts[d.final].status = "passed" /\ Whole(d.final, st, finals)
    BY <1>1, <2>1 DEF Judged, Favourable
  <2> QED
    BY <1>2, <2>1, <2>2 DEF AllDone
<1> QED
  BY <1>3, <1>4

-----------------------------------------------------------------------------
(* The invariant holds before anything is registered. *)
LEMMA BarrierInit == Parameters /\ FinalInit => IInv
<1> SUFFICES ASSUME Parameters, FinalInit PROVE IInv
  OBVIOUS
<1> DEFINE e == Bare("run.created", NoTask)
<1>1. NewRun \in State /\ Absent \in TaskState
  BY DEF NewRun, State, Absent, TaskState, RunStatus, TaskStatus
<1>2. e \in Event /\ e.kind = "run.created" /\ e.kind \notin TaskKind
  BY DEF Bare, Event, RunKind, TaskKind
<1>3. st \in State /\ st.run = "active" /\ st.tasks = [t \in Task |-> Absent]
  BY <1>1, <1>2, ApplyType DEF FinalInit, Init, Apply, NewRun, RunAfter, State
<1>4. \A t \in Task : st.tasks[t].status = "absent"
  BY <1>3 DEF Absent
<1>5. 1 \in Attempt /\ 0 \in Commit /\ ws \in Content /\ src \in Truth
  BY DEF Parameters, Attempt, FinalInit, Init
<1>6. TypeOK
  BY <1>3, <1>5 DEF TypeOK, FinalInit, Init
<1>7. d = Idle /\ d.pc = "idle" /\ d.final = 0
  BY DEF FinalInit, Init, Idle
<1>8. d \in Driver(d.final)
  <2>1. PICK t \in Task : TRUE
    BY DEF Parameters
  <2>2. <<t, 1, "spec">> \in Slot
    BY <1>5, <2>1 DEF Slot, Stage
  <2>3. Idle.slot \in Slot /\ Idle.before \in Content
    BY <1>5, <2>2 DEF Idle
  <2>4. [status |-> "failed", commit |-> 0] \in Result
    BY <1>5 DEF Result
  <2> QED
    BY <1>7, <2>3, <2>4 DEF Idle, Driver, Pc
<1>9. Types
  BY <1>6, <1>8 DEF Types, FinalInit, Init, Parameters
<1>10. DOMAIN contracts = {} /\ DOMAIN results = {} /\ DOMAIN verdicts = {} /\ DOMAIN finals = {}
  BY DEF FinalInit, Init
<1> QED
  BY <1>3, <1>4, <1>7, <1>9, <1>10
     DEF IInv, Written, Underway, Checked, Own, Calm, Proven, Judged, Ending, Completing

(* Every step keeps the invariant. *)
LEMMA BarrierStep ==
  ASSUME Parameters, IInv, [Next]_vars
  PROVE  IInv'
BY TypesStep, WrittenStep, UnderwayStep, CheckedStep, OwnStep, CalmStep, ProvenStep,
   JudgedStep, EndingStep DEF IInv

(* The invariant says of reviews what the properties ask for. *)
LEMMA BarrierReviewed ==
  ASSUME IInv
  PROVE  TypeOK /\ ReviewsInOrder /\ CompletedOnOneChain /\ RunCompletedIsReviewed
<1>1. Types /\ Written(contracts, results) /\ Proven(st, attempt, contracts, results)
      /\ Ending(st, finals, verdicts)
  BY DEF IInv
<1>2. ReviewsInOrder
  <2> SUFFICES ASSUME NEW s \in DOMAIN contracts, s[3] = "quality"
               PROVE  /\ Passed(<<<<s[1], s[2], "spec">>, contracts[s].pred>>)
                      /\ contracts[<<s[1], s[2], "spec">>].worker = contracts[s].worker
                      /\ Passed(<<<<s[1], s[2], "implement">>, contracts[s].worker>>)
    BY DEF ReviewsInOrder
  <2>1. Based(contracts, results, s) /\ Follows(contracts, results, s)
    BY <1>1 DEF Written
  <2> QED
    BY <2>1 DEF Based, Follows, Stg, Passed, PassedIn
<1>3. CompletedOnOneChain
  <2> SUFFICES ASSUME NEW t \in Task, st.tasks[t].status = "completed"
               PROVE  LET quality == contracts[Slots(t)["quality"]]
                          spec == contracts[Slots(t)["spec"]]
                      IN  /\ \E p \in Profile :
                               {b.src : b \in st.tasks[t].binds} =
                                 {<<Slots(t)["spec"], quality.pred>>, <<Slots(t)["quality"], p>>}
                          /\ \A b \in st.tasks[t].binds : b.dig.status = "passed" /\ b.dig = results[b.src]
                          /\ spec.worker = quality.worker
                          /\ results[<<Slots(t)["implement"], spec.worker>>].status = "passed"
    BY DEF CompletedOnOneChain
  <2> DEFINE q == <<t, attempt[t], "quality">>
             s == <<t, attempt[t], "spec">>
             w == <<t, attempt[t], "implement">>
  <2>1. Slots(t)["quality"] = q /\ Slots(t)["spec"] = s /\ Slots(t)["implement"] = w
    BY DEF Slots, Stage
  <2>2. ProvenBy(st.tasks[t], q, s, contracts, results)
    BY <1>1 DEF Proven
  <2>3. /\ q[3] = "quality" /\ s[3] = "spec"
        /\ Stg(q, "spec") = s /\ Stg(s, "implement") = w
    BY DEF Stg
  <2> HIDE DEF q, s, w
  <2>4. Follows(contracts, results, q) /\ Based(contracts, results, s)
    BY <1>1, <2>2, <2>3 DEF Written, ProvenBy
  <2>5. contracts[s].worker = contracts[q].worker /\ results[<<w, contracts[s].worker>>].status = "passed"
    BY <2>3, <2>4 DEF Follows, Based, PassedIn
  <2> QED
    BY <2>1, <2>2, <2>5 DEF ProvenBy
<1>4. RunCompletedIsReviewed
  <2> SUFFICES ASSUME st.run = "completed" PROVE RunCompletedIsReviewed
    BY DEF RunCompletedIsReviewed
  <2>1. AllDone(st)
    BY <1>1 DEF Ending
  <2>2. PICK n \in DOMAIN verdicts : verdicts[n].status = "passed" /\ Whole(n, st, finals)
    BY <1>1 DEF Ending
  <2>3. DOMAIN finals[n].covers = Registered
    BY <2>2 DEF Whole, Registered
  <2>4. ASSUME NEW t \in Registered
        PROVE  /\ {b.src : b \in st.tasks[t].binds} =
                    {finals[n].covers[t][stage] : stage \in {"spec", "quality"}}
               /\ st.tasks[t].commit = finals[n].commit
    <3>1. Covering(st.tasks[t], finals[n], t)
      BY <2>1, <2>2 DEF Registered, AllDone, Whole
    <3>2. {finals[n].covers[t][stage] : stage \in {"spec", "quality"}}
            = {finals[n].covers[t]["spec"], finals[n].covers[t]["quality"]}
      OBVIOUS
    <3> QED
      BY <3>1, <3>2 DEF Covering
  <2> QED
    BY <2>2, <2>3, <2>4 DEF RunCompletedIsReviewed
<1> QED
  BY <1>1, <1>2, <1>3, <1>4 DEF Types

(* A completion that nobody disturbed is of the repository as it is. *)
LEMMA BarrierCurrent ==
  ASSUME Parameters, IInv, [Next]_vars
  PROVE  CompletesCurrent
<1> SUFFICES ASSUME NEW t \in Task, st.tasks[t].status = "started",
                    st'.tasks[t].status = "completed", d.calm,
                    NEW stage \in {"spec", "quality"}
             PROVE  LET c == contracts[Slots(t)[stage]] IN c.commit = head /\ c.ws = ws /\ c.src = src
  BY DEF CompletesCurrent
<1>1. TaskMove(d, st.tasks[t], st'.tasks[t], attempt'[t] = attempt[t], Proof, t)
  BY LedgerSteps DEF IInv, LedgerMove
<1>2. d.pc = "complete" /\ d.slot[1] = t
  BY <1>1 DEF TaskMove, Same
<1>3. attempt[t] = d.slot[2]
  BY <1>2 DEF IInv, Own, Completing
<1>4. Slots(t)[stage] = Stg(d.slot, stage)
  BY <1>2, <1>3 DEF Slots, Stg, Stage
<1>5. SeenOn(contracts[Stg(d.slot, stage)], head, ws, src)
  BY <1>2 DEF IInv, Calm
<1> QED
  BY <1>4, <1>5 DEF SeenOn

(* For any tasks, profiles, contents, attempts and commits, whatever dies, *)
(* is edited, given up or reopened at any step: the state is well-typed,   *)
(* reviews happen in order and of one thing, a completed task was proved   *)
(* by one chain of the attempt it is in, and a completed run by a final    *)
(* review that covers what its tasks' completions bind.                    *)
THEOREM CompletionsAreReviewed ==
  Parameters =>
    (Spec => [](TypeOK /\ ReviewsInOrder /\ CompletedOnOneChain /\ RunCompletedIsReviewed))
<1> SUFFICES ASSUME Parameters
             PROVE  Spec => [](TypeOK /\ ReviewsInOrder /\ CompletedOnOneChain /\ RunCompletedIsReviewed)
  OBVIOUS
<1>1. FinalInit => IInv
  BY BarrierInit
<1>2. IInv /\ [Next]_vars => IInv'
  BY BarrierStep
<1>3. IInv => TypeOK /\ ReviewsInOrder /\ CompletedOnOneChain /\ RunCompletedIsReviewed
  BY BarrierReviewed
<1> QED
  BY <1>1, <1>2, <1>3, PTL DEF Spec

(* Nobody having disturbed the call, a task is completed on reviews of the *)
(* commit, the requirements and the workspace as they are at that moment.  *)
THEOREM CompletionsAreCurrent == Parameters => (Spec => CompletionIsCurrent)
<1> SUFFICES ASSUME Parameters PROVE Spec => CompletionIsCurrent
  OBVIOUS
<1>1. FinalInit => IInv
  BY BarrierInit
<1>2. IInv /\ [Next]_vars => IInv'
  BY BarrierStep
<1>3. IInv /\ [Next]_vars => [CompletesCurrent]_vars
  BY BarrierCurrent
<1> QED
  BY <1>1, <1>2, <1>3, PTL DEF Spec, CompletionIsCurrent
=============================================================================
