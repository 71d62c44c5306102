---------------------------- MODULE IsolatedTasks ----------------------------
(***************************************************************************)
(* Remediation tasks carried out by isolated agents (isolated_tasks.py,    *)
(* isolated_execution.py, isolated_review.py) on top of the ledger.        *)
(*                                                                         *)
(* A stage of an attempt at a task is a slot.  A slot gets one contract,   *)
(* written once, which fixes what the agent of that stage may look at; an  *)
(* invocation is a slot and the profile it runs with, and has one result.  *)
(* Contracts and results are files; results are mirrored in the ledger.    *)
(* One caller drives the tasks and may die at every step; meanwhile people *)
(* edit, commit, give tasks up and reopen them.                            *)
(*                                                                         *)
(* Abstractions: an invocation id is its slot and profile, for a slot has  *)
(* only one contract; of a contract's context the bytes of the provenance  *)
(* file (src) and of the workspace snapshot (ws) are kept; a result is its *)
(* status and commit, and every status but "passed" is "failed".           *)
(***************************************************************************)
EXTENDS RunState

CONSTANTS
  Profile, NoProfile,   \* profiles an invocation may resolve to
  Content,              \* contents of the workspace
  Truth,                \* contents of the requirements that tasks cite
  Ignored,              \* .gitignore covers .sdai
  MaxAttempt,           \* bound: attempts at a task
  MaxHead,              \* bound: commits
  MaxTrouble    \* bound: crashes, repeated stages, and what others do

Stage == {"implement", "spec", "quality"}
Attempt == 1 .. MaxAttempt
Slot == Task \X Attempt \X Stage
Invocation == Slot \X Profile

TaskContract == [commit : Commit, src : Truth, ws : Content,
              worker : Profile \cup {NoProfile}, pred : Profile \cup {NoProfile}]
Result == [status : {"passed", "failed"}, commit : Commit]

VARIABLES
  st,          \* the run, as its ledger reconstructs it
  order,       \* the tasks in the order of their registration
  attempt,     \* the attempt each task is in: one more than its reopenings
  reserved,    \* tasks whose current attempt has a dispatch id
  briefs,      \* tasks whose brief is written
  contracts,   \* contract.json of each slot that has one
  results,     \* the result file of each invocation that has one
  mirrored,    \* invocations with a task.implementation or task.review event
  ws, src,     \* contents of the workspace and of the requirements
  head,        \* the current commit
  saved,       \* what that commit holds, and whether it holds every record
  trouble,     \* crashes, trouble, commits, given up and reopened tasks so far
  d            \* the call in progress

ledger == <<st, order, attempt, reserved>>
files == <<briefs, contracts, results>>
repo == <<ws, src, head, saved>>
isolatedVars == <<ledger, files, mirrored, repo, trouble, d>>

Idle == [pc |-> "idle", slot |-> CHOOSE s \in Slot : TRUE,
         profile |-> NoProfile, worker |-> NoProfile, pred |-> NoProfile,
         before |-> CHOOSE w \in Content : TRUE,
         result |-> [status |-> "failed", commit |-> 0],
         calm |-> TRUE, final |-> 0]

(* A file that exists is kept as it is. *)
WriteOnce(f, x, v) == [y \in DOMAIN f \cup {x} |-> IF y \in DOMAIN f THEN f[y] ELSE v]

Call(pc) == d' = [d EXCEPT !.pc = pc]
ForStage(pc, slot, profile) ==
  d' = [Idle EXCEPT !.pc = pc, !.slot = slot, !.profile = profile]
Answer == d' = Idle

Init ==
  /\ st = Apply(NewRun, Bare("run.created", NoTask))
  /\ order = <<>> /\ attempt = [t \in Task |-> 1] /\ reserved = {}
  /\ briefs = {} /\ contracts = <<>> /\ results = <<>> /\ mirrored = {}
  /\ ws \in Content /\ src \in Truth /\ head = 0
  /\ saved = [ws |-> ws, src |-> src, records |-> TRUE]
  /\ trouble = 0
  /\ d = Idle

TypeOK ==
  /\ st \in State /\ attempt \in [Task -> Attempt] /\ reserved \subseteq Task
  /\ \A n \in DOMAIN order : order[n] \in Task
  /\ DOMAIN contracts \subseteq Slot /\ \A s \in DOMAIN contracts : contracts[s] \in TaskContract
  /\ DOMAIN results \subseteq Invocation /\ \A i \in DOMAIN results : results[i] \in Result
  /\ mirrored \subseteq DOMAIN results /\ briefs \subseteq Task
  /\ ws \in Content /\ src \in Truth /\ head \in Commit

-----------------------------------------------------------------------------
(* register_remediation_task: each of its two writes is made only when it  *)
(* is missing, so a second call goes on where a first one died.            *)
Register(t) ==
  /\ d.pc = "idle" /\ st.tasks[t].status = "absent"
  /\ Legal(st, Bare("task.registered", t))
  /\ st' = Apply(st, Bare("task.registered", t))
  /\ order' = Append(order, t)
  /\ UNCHANGED <<attempt, reserved, files, mirrored, repo, trouble, d>>

WriteBrief(t) ==
  /\ d.pc = "idle" /\ st.tasks[t].status # "absent" /\ t \notin briefs
  /\ briefs' = briefs \cup {t}
  /\ UNCHANGED <<ledger, contracts, results, mirrored, repo, trouble, d>>

(* What git status is asked by resume_execution: records of isolated       *)
(* stages count as changes of the repository unless they are ignored.      *)
Clean == saved = [ws |-> ws, src |-> src, records |-> TRUE]

Open(t) == st.tasks[t].status # "completed"
IsFirstOpen(t) ==
  \E n \in DOMAIN order : order[n] = t /\ Open(t) /\ \A m \in 1 .. (n - 1) : ~Open(order[m])

(* resume_execution, as far as a run that is neither paused nor contended  *)
(* needs it (ExecutionResume has the steps): the first open task gets a    *)
(* dispatch id, and is reopened before that if it failed.                  *)
Reserve(t) ==
  /\ d.pc = "idle" /\ st.run = "active" /\ Clean /\ IsFirstOpen(t)
  /\ \/ /\ st.tasks[t].status # "failed" /\ t \in briefs \ reserved
        /\ st' = Apply(st, Bare("task.dispatch_reserved", t))
        /\ UNCHANGED attempt
     \/ /\ st.tasks[t].status = "failed" /\ attempt[t] < MaxAttempt
        /\ st' = Apply(Apply(st, Bare("task.reopened", t)), Bare("task.dispatch_reserved", t))
        /\ attempt' = [attempt EXCEPT ![t] = @ + 1]
  /\ reserved' = reserved \cup {t}
  /\ UNCHANGED <<order, files, mirrored, repo, trouble, d>>

-----------------------------------------------------------------------------
(* A stage: its contract is found or made, the agent runs, its result is   *)
(* persisted and mirrored.                                                 *)
Of(slot) == {p \in Profile : <<slot, p>> \in DOMAIN results}

Trouble == trouble < MaxTrouble /\ trouble' = trouble + 1
FirstTime(slot) == IF Of(slot) = {} THEN UNCHANGED trouble ELSE Trouble

PrepareWork(t) ==
  /\ d.pc = "idle" /\ t \in reserved \cap briefs
  /\ ForStage("contract", <<t, attempt[t], "implement">>, NoProfile)
  /\ FirstTime(<<t, attempt[t], "implement">>)
  /\ UNCHANGED <<ledger, files, mirrored, repo>>

(* The caller brings the worker's result, and the spec review's for the    *)
(* review of code quality.                                                 *)
PrepareReview(t, stage, worker, pred) ==
  LET work == <<<<t, attempt[t], "implement">>, worker>> IN
  /\ d.pc = "idle" /\ stage # "implement"
  /\ work \in DOMAIN results /\ results[work].status = "passed"
  /\ d' = [Idle EXCEPT !.pc = "contract", !.slot = <<t, attempt[t], stage>>,
                       !.worker = worker, !.pred = pred]
  /\ FirstTime(<<t, attempt[t], stage>>)
  /\ UNCHANGED <<ledger, files, mirrored, repo>>

PredAnything(slot, worker, pred) == TRUE   \* mutant: any spec review will do

(* _require_current_spec_review: the one spec review of this attempt and   *)
(* worker, and it passed.                                                  *)
PredAccepted(slot, worker, pred) ==
  LET spec == <<slot[1], slot[2], "spec">> IN
  slot[3] = "quality" =>
    /\ Of(spec) = {pred} /\ results[<<spec, pred>>].status = "passed"
    /\ contracts[spec].worker = worker

BuildContract ==
  /\ d.pc = "contract"
  /\ \/ /\ d.slot \in DOMAIN contracts
        /\ ForStage("begin", d.slot, NoProfile) /\ UNCHANGED <<contracts, saved>>
     \/ /\ d.slot \notin DOMAIN contracts /\ PredAccepted(d.slot, d.worker, d.pred)
        /\ contracts' = WriteOnce(contracts, d.slot, [commit |-> head, src |-> src, ws |-> ws,
             worker |-> d.worker, pred |-> IF d.slot[3] = "quality" THEN d.pred ELSE NoProfile])
        /\ saved' = [saved EXCEPT !.records = Ignored]
        /\ ForStage("begin", d.slot, NoProfile)
     \/ /\ d.slot \notin DOMAIN contracts /\ ~PredAccepted(d.slot, d.worker, d.pred)
        /\ Answer /\ UNCHANGED <<contracts, saved>>
  /\ UNCHANGED <<ledger, briefs, results, mirrored, ws, src, head, trouble>>

CurrentFiles(slot) == contracts[slot].src = src   \* mutant: reviews of an older workspace

(* validate_isolated_context_current                                       *)
Current(slot) ==
  LET c == contracts[slot] IN
  c.src = src /\ (slot[3] # "implement" => c.commit = head /\ c.ws = ws)

Begin(p) ==
  /\ d.pc = "begin"
  /\ d' = IF Current(d.slot) THEN [d EXCEPT !.pc = "run", !.profile = p, !.before = ws] ELSE Idle
  /\ UNCHANGED <<ledger, files, mirrored, repo, trouble>>

Works(w) ==
  /\ d.pc = "run" /\ d.slot[3] = "implement" /\ w # ws
  /\ ws' = w /\ Call("worked")
  /\ UNCHANGED <<ledger, files, mirrored, src, head, saved, trouble>>

(* AllowedRootsMutationGuard: a write outside the allowed roots restores   *)
(* all files to what they were when the agent began.                       *)
RollBack ==
  /\ d.pc = "worked" /\ ws' = d.before /\ Answer
  /\ UNCHANGED <<ledger, files, mirrored, src, head, saved, trouble>>

Return(status) ==
  /\ d.pc \in {"run", "worked"}
  /\ d' = [d EXCEPT !.pc = "persist", !.result = [status |-> status, commit |-> head]]
  /\ UNCHANGED <<ledger, files, mirrored, repo, trouble>>

Invoked == <<d.slot, d.profile>>

(* persist_stage_result: the file first; an equal one is kept, a different *)
(* one is a conflict.                                                      *)
PersistFile ==
  /\ d.pc = "persist"
  /\ \/ /\ Invoked \notin DOMAIN results
        /\ results' = WriteOnce(results, Invoked, d.result)
        /\ saved' = [saved EXCEPT !.records = Ignored]
        /\ ForStage("mirror", d.slot, d.profile)
     \/ /\ Invoked \in DOMAIN results
        /\ IF results[Invoked] = d.result THEN ForStage("mirror", d.slot, d.profile) ELSE Answer
        /\ UNCHANGED <<results, saved>>
  /\ UNCHANGED <<ledger, briefs, contracts, mirrored, ws, src, head, trouble>>

StartTask ==
  /\ d.pc = "mirror"
  /\ st' = IF st.tasks[d.slot[1]].status = "registered"
           THEN Apply(st, Bare("task.started", d.slot[1])) ELSE st
  /\ Call("event")
  /\ UNCHANGED <<order, attempt, reserved, files, mirrored, repo, trouble>>

MirrorEvent ==
  /\ d.pc = "event" /\ Answer
  /\ LET e == Bare(IF d.slot[3] = "implement" THEN "task.implementation" ELSE "task.review", d.slot[1]) IN
     IF Invoked \notin mirrored /\ Legal(st, e)
     THEN st' = Apply(st, e) /\ mirrored' = mirrored \cup {Invoked}
     ELSE UNCHANGED <<st, mirrored>>
  /\ UNCHANGED <<order, attempt, reserved, files, repo, trouble>>

(* A result that was persisted is persisted again, to repair its event.    *)
PersistAgain(i) ==
  /\ d.pc = "idle" /\ i \in DOMAIN results \ mirrored
  /\ ForStage("mirror", i[1], i[2])
  /\ UNCHANGED <<ledger, files, mirrored, repo, trouble>>

Crash ==
  /\ d.pc # "idle" /\ Answer /\ Trouble
  /\ UNCHANGED <<ledger, files, mirrored, repo>>

-----------------------------------------------------------------------------
(* What others do meanwhile.                                               *)
Disturb == Trouble /\ d' = [d EXCEPT !.calm = (d.pc \notin {"checkQuality", "checkSpec", "evidence", "complete"})]

Edit(w, s) ==
  /\ <<w, s>> # <<ws, src>> /\ ws' = w /\ src' = s /\ Disturb
  /\ UNCHANGED <<ledger, files, mirrored, head, saved>>

MakeCommit ==
  /\ head < MaxHead /\ head' = head + 1
  /\ saved' = [ws |-> ws, src |-> src, records |-> TRUE] /\ Disturb
  /\ UNCHANGED <<ledger, files, mirrored, ws, src>>

GiveUp(t) ==
  /\ Legal(st, Bare("task.failed", t))
  /\ st' = Apply(st, Bare("task.failed", t)) /\ Disturb
  /\ UNCHANGED <<order, attempt, reserved, files, mirrored, repo>>

Reopen(t) ==
  /\ Legal(st, Bare("task.reopened", t)) /\ attempt[t] < MaxAttempt
  /\ st' = Apply(st, Bare("task.reopened", t))
  /\ attempt' = [attempt EXCEPT ![t] = @ + 1] /\ reserved' = reserved \ {t}
  /\ Disturb
  /\ UNCHANGED <<order, files, mirrored, repo>>

Stages ==
  \/ \E t \in Task : Register(t) \/ WriteBrief(t) \/ Reserve(t) \/ PrepareWork(t)
  \/ \E t \in Task, stage \in Stage, p \in Profile, q \in Profile : PrepareReview(t, stage, p, q)
  \/ BuildContract \/ PersistFile \/ StartTask \/ MirrorEvent \/ RollBack \/ Crash
  \/ \E p \in Profile : Begin(p)
  \/ \E w \in Content : Works(w)
  \/ \E status \in {"passed", "failed"} : Return(status)
  \/ \E i \in DOMAIN results : PersistAgain(i)

Others ==
  \/ \E w \in Content, s \in Truth : Edit(w, s)
  \/ MakeCommit
  \/ \E t \in Task : GiveUp(t) \/ Reopen(t)
=============================================================================
