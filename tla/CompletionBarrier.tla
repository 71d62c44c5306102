-------------------------- MODULE CompletionBarrier --------------------------
(***************************************************************************)
(* The end of isolated work: the review of the whole change and the two    *)
(* barriers that stand before task.completed and run.completed             *)
(* (isolated_final_review.py, completion_barrier.py and the checks it      *)
(* calls), composed with IsolatedTasks.                                    *)
(*                                                                         *)
(* Abstractions: a dimension proved by typed evidence (test, quality,      *)
(* security, approval) or by verify_feature is proved or not, as the       *)
(* environment has it; the barrier's own report file, which repeats what   *)
(* the findings say, is left out of the bindings.                          *)
(***************************************************************************)
EXTENDS IsolatedTasks

CONSTANTS
  MaxFinal,     \* bound: attempts at the final review
  NoContract

VARIABLES
  evidence,     \* barrier reports whose task.evidence events are in the ledger
  finals,       \* contract.json of each attempt at the final review
  verdicts,     \* the result of each attempt at the final review
  diff          \* final-change.diff, the context all attempts materialize

finalVars == <<finals, verdicts, diff>>
vars == <<isolatedVars, evidence, finalVars>>

FinalInit == Init /\ evidence = {} /\ finals = <<>> /\ verdicts = <<>> /\ diff = NoContract

Registered == {t \in Task : st.tasks[t].status # "absent"}
Slots(t) == [stage \in Stage |-> <<t, attempt[t], stage>>]

(* task_review_chain: the one invocation of every stage; two invocations   *)
(* of a stage make latest_stage_result raise.                              *)
Chained(t) == \A stage \in Stage : \E p \in Profile : Of(Slots(t)[stage]) = {p}
Chain(t) == [stage \in Stage |->
               LET s == Slots(t)[stage] IN <<s, CHOOSE p \in Profile : Of(s) = {p}>>]

AnyStatus(i) == i \in DOMAIN results   \* mutant: a failed review will do
Passed(i) == i \in DOMAIN results /\ results[i].status = "passed"

Accepted(t) == Chained(t) /\ \A stage \in Stage : Passed(Chain(t)[stage])

-----------------------------------------------------------------------------
(* complete_isolated_task: the checks, in the order of their dimensions,   *)
(* against the commit and the worker read at the beginning.                *)
EvaluateTask(t) ==
  LET work == Slots(t)["implement"] IN
  /\ d.pc = "idle" /\ st.tasks[t].status \in {"registered", "started"}
  /\ \E worker \in Profile :
       /\ Of(work) = {worker}
       /\ d' = [Idle EXCEPT !.pc = "checkQuality", !.slot = work, !.worker = worker,
                            !.result.commit = head]
  /\ UNCHANGED <<ledger, files, mirrored, repo, trouble, evidence, finalVars>>

OfCall(stage) == <<d.slot[1], d.slot[2], stage>>

(* review_finding is "valid". *)
ReviewValid(stage) ==
  LET slot == OfCall(stage) IN
  \E p \in Profile :
    /\ Of(slot) = {p} /\ Passed(<<slot, p>>)
    /\ results[<<slot, p>>].commit = d.result.commit
    /\ contracts[slot].commit = d.result.commit
    /\ contracts[slot].worker = d.worker
    /\ Current(slot)

(* code_review_finding: the review is also chained to the spec review.     *)
CheckQuality ==
  /\ d.pc = "checkQuality"
  /\ IF ReviewValid("quality") /\ Of(OfCall("spec")) = {contracts[OfCall("quality")].pred}
     THEN Call("checkSpec") ELSE Answer
  /\ UNCHANGED <<ledger, files, mirrored, repo, trouble, evidence, finalVars>>

CheckSpec ==
  /\ d.pc = "checkSpec"
  /\ IF ReviewValid("spec") THEN Call("evidence") ELSE Answer
  /\ UNCHANGED <<ledger, files, mirrored, repo, trouble, evidence, finalVars>>

(* The review results that satisfied the barrier. *)
Proof ==
  {[src |-> i, dig |-> results[i]] :
     i \in {j \in DOMAIN results : j[1] \in {OfCall("spec"), OfCall("quality")}}}

Proved(kind) == [Bare(kind, d.slot[1]) EXCEPT !.commit = d.result.commit, !.binds = Proof]

AppendEvidence ==
  LET report == <<d.slot[1], d.slot[2], d.result.commit>> IN
  /\ d.pc = "evidence"
  /\ IF report \in evidence THEN Call("complete") /\ UNCHANGED <<st, evidence>>
     ELSE IF Legal(st, Proved("task.evidence"))
     THEN st' = Apply(st, Proved("task.evidence")) /\ evidence' = evidence \cup {report} /\ Call("complete")
     ELSE Answer /\ UNCHANGED <<st, evidence>>
  /\ UNCHANGED <<order, attempt, reserved, files, mirrored, repo, trouble, finalVars>>

AppendCompleted ==
  /\ d.pc = "complete" /\ Answer
  /\ st' = IF Legal(st, Proved("task.completed")) THEN Apply(st, Proved("task.completed")) ELSE st
  /\ UNCHANGED <<order, attempt, reserved, files, mirrored, repo, trouble, evidence, finalVars>>

-----------------------------------------------------------------------------
(* prepare_final_change_review_contract: the contract covers the accepted  *)
(* chains the caller brings; its context goes to one file for all attempts.*)
PrepareFinal(n, tasks) ==
  LET c == [commit |-> head, ws |-> ws, covers |-> [t \in tasks |-> Chain(t)]] IN
  /\ d.pc = "idle" /\ tasks # {} /\ \A t \in tasks : Accepted(t)
  /\ n \in DOMAIN finals => finals[n] = c
  /\ finals' = WriteOnce(finals, n, c)
  /\ saved' = [saved EXCEPT !.records = Ignored]
  /\ d' = [Idle EXCEPT !.pc = "materialize", !.final = n]
  /\ UNCHANGED <<ledger, files, mirrored, ws, src, head, trouble, evidence, verdicts, diff>>

Materialize ==
  /\ d.pc = "materialize" /\ Answer
  /\ diff' = IF diff = NoContract THEN finals[d.final].ws ELSE diff
  /\ UNCHANGED <<ledger, files, mirrored, repo, trouble, evidence, finals, verdicts>>

FinalCurrent(n) ==
  finals[n].commit = head /\ finals[n].ws = ws /\ diff = finals[n].ws

BeginFinal(n) ==
  /\ d.pc = "idle" /\ n \in DOMAIN finals /\ FinalCurrent(n)
  /\ d' = [Idle EXCEPT !.pc = "final", !.final = n]
  /\ UNCHANGED <<ledger, files, mirrored, repo, trouble, evidence, finalVars>>

ReturnFinal(status) ==
  /\ d.pc = "final" /\ Answer
  /\ verdicts' = WriteOnce(verdicts, d.final, [status |-> status, commit |-> head])
  /\ saved' = [saved EXCEPT !.records = Ignored]
  /\ UNCHANGED <<ledger, files, mirrored, ws, src, head, trouble, evidence, finals, diff>>

(* complete_isolated_run                                                   *)
EvaluateRun ==
  /\ d.pc = "idle" /\ st.run = "active" /\ finals # <<>>
  /\ \A t \in Registered : ~Open(t)
  /\ d' = [Idle EXCEPT !.pc = "checkFinal", !.result.commit = head,
             !.final = CHOOSE n \in DOMAIN finals : \A m \in DOMAIN finals : m <= n]
  /\ UNCHANGED <<ledger, files, mirrored, repo, trouble, evidence, finalVars>>

(* final_review_finding, first the latest verdict ...                      *)
CheckFinal ==
  /\ d.pc = "checkFinal"
  /\ IF /\ d.final \in DOMAIN verdicts
        /\ verdicts[d.final] = [status |-> "passed", commit |-> d.result.commit]
        /\ finals[d.final].commit = d.result.commit
        /\ FinalCurrent(d.final)
     THEN Call("checkChains") ELSE Answer
  /\ UNCHANGED <<ledger, files, mirrored, repo, trouble, evidence, finalVars>>

CoversThese(n) == Registered \subseteq DOMAIN finals[n].covers   \* mutant: attempts not compared
Covers(n) == finals[n].covers = [t \in Registered |-> Chain(t)]

(* ... then the chains of all tasks of the ledger.                         *)
CheckChains ==
  /\ d.pc = "checkChains"
  /\ IF /\ \A t \in Registered :
             Accepted(t) /\ \A stage \in Stage : results[Chain(t)[stage]].commit = d.result.commit
        /\ Covers(d.final)
     THEN Call("end") ELSE Answer
  /\ UNCHANGED <<ledger, files, mirrored, repo, trouble, evidence, finalVars>>

EndRun ==
  /\ d.pc = "end" /\ Answer
  /\ LET e == [Bare("run.completed", NoTask) EXCEPT !.commit = d.result.commit] IN
     st' = IF Legal(st, e) THEN Apply(st, e) ELSE st
  /\ UNCHANGED <<order, attempt, reserved, files, mirrored, repo, trouble, evidence, finalVars>>

Barrier ==
  \/ \E t \in Task : EvaluateTask(t)
  \/ CheckQuality \/ CheckSpec \/ AppendEvidence \/ AppendCompleted
  \/ \E n \in 1 .. MaxFinal, tasks \in SUBSET Task : PrepareFinal(n, tasks)
  \/ Materialize \/ EvaluateRun \/ CheckFinal \/ CheckChains \/ EndRun
  \/ \E n \in 1 .. MaxFinal : BeginFinal(n)
  \/ \E status \in {"passed", "failed"} : ReturnFinal(status)

Next == Barrier \/ ((Stages \/ Others) /\ UNCHANGED <<evidence, finalVars>>)

Spec == FinalInit /\ [][Next]_vars
-----------------------------------------------------------------------------
(* Reviews happen in order and of one thing: a review of code quality was  *)
(* contracted on a spec review that passed, of the same worker, whose work *)
(* had passed before.                                                      *)
ReviewsInOrder ==
  \A s \in DOMAIN contracts : s[3] = "quality" =>
    LET c == contracts[s]
        spec == <<s[1], s[2], "spec">>
        work == <<s[1], s[2], "implement">>
    IN  /\ Passed(<<spec, c.pred>>) /\ contracts[spec].worker = c.worker
        /\ Passed(<<work, c.worker>>)

(* A completed task was proved by its own attempt: what its completion     *)
(* binds are the passed reviews of the attempt it is in, the later one     *)
(* chained to the earlier, both of the same accepted work, although        *)
(* attempts may have been given up and reopened around every step.         *)
CompletedOnOneChain ==
  \A t \in Task : st.tasks[t].status = "completed" =>
    LET quality == contracts[Slots(t)["quality"]]
        spec == contracts[Slots(t)["spec"]]
    IN  /\ \E p \in Profile :
             {b.src : b \in st.tasks[t].binds} =
               {<<Slots(t)["spec"], quality.pred>>, <<Slots(t)["quality"], p>>}
        /\ \A b \in st.tasks[t].binds : b.dig.status = "passed" /\ b.dig = results[b.src]
        /\ spec.worker = quality.worker
        /\ results[<<Slots(t)["implement"], spec.worker>>].status = "passed"

(* Unless somebody changed the repository during the call itself, both     *)
(* reviews of a task that is completed saw the commit, the requirements    *)
(* and the workspace as they are at that moment.                           *)
CompletesCurrent ==
  \A t \in Task :
    (st.tasks[t].status = "started" /\ st'.tasks[t].status = "completed" /\ d.calm) =>
      \A stage \in {"spec", "quality"} :
        LET c == contracts[Slots(t)[stage]] IN c.commit = head /\ c.ws = ws /\ c.src = src

CompletionIsCurrent == [][CompletesCurrent]_vars

(* A completed run was reviewed as a whole: some passed final review       *)
(* covers exactly the chains that the completions of all its tasks bind,   *)
(* on the commit they were completed on.                                   *)
RunCompletedIsReviewed ==
  st.run = "completed" =>
    \E n \in DOMAIN verdicts :
      /\ verdicts[n].status = "passed" /\ DOMAIN finals[n].covers = Registered
      /\ \A t \in Registered :
           /\ {b.src : b \in st.tasks[t].binds} =
                {finals[n].covers[t][stage] : stage \in {"spec", "quality"}}
           /\ st.tasks[t].commit = finals[n].commit

(* A final review that is contracted again after a change of the           *)
(* repository can be carried out: its context is what it was contracted on.*)
FinalCanBeReviewed ==
  \A n \in DOMAIN finals :
    finals[n].commit = head /\ finals[n].ws = ws => diff \in {NoContract, ws}
=============================================================================
