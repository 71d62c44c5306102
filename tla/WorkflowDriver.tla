--------------------------- MODULE WorkflowDriver ---------------------------
(***************************************************************************)
(* The orchestrator (orchestrator.py, audited_orchestrator.py): processes  *)
(* that run a workflow or a single step of it, on a state file that is     *)
(* read when a step begins and written as a whole when it ends.            *)
(*                                                                         *)
(* Steps are numbered in their order, and the gate of an approval is its   *)
(* step; the branches of a parallel step, of which there is one at most,   *)
(* have the numbers behind the steps.  A plugin, a quality gate, a         *)
(* deterministic action and the final validation are all "work".  An       *)
(* agent's call goes through AgentRuntime: an audit event, the provider,   *)
(* an audit event.  Dry runs, and manual runs of a branch of a parallel    *)
(* step, are left out.                                                     *)
(***************************************************************************)
EXTENDS Integers, Sequences, FiniteSets

CONSTANTS
  Driver,        \* processes that call run_workflow or run_manual_step
  Kind,          \* kind of each step
  Branches,      \* number of branches of a parallel step
  Writes,        \* steps in workspace-write mode
  Continues,     \* steps with on_failure: continue
  Conditional,   \* steps with a condition that may change
  MaxAttempts,   \* retry.max_attempts
  Candidates,    \* profiles that the capability is routed to
  Policies,      \* effective policies
  MaxTrouble     \* bound: deaths, interrupts, failing appends, steps of people

VARIABLES
  saved,      \* the state file
  policy,     \* require_prior_approval..., allow_force_approval_bypass
  approved,   \* gates whose approvals suffice
  off,        \* steps whose condition does not match
  dr,         \* the drivers
  open,       \* audit events of each driver's call that were started only
  met,        \* steps that were done, skipped or approved at some time
  trouble

vars == <<saved, policy, approved, off, dr, open, met, trouble>>

Step == 1 .. Len(Kind)
Branch == Len(Kind) + 1 .. Len(Kind) + Branches
BranchesOf(s) == IF Kind[s] = "parallel" THEN Branch ELSE {}
Gates(s) == {g \in 1 .. (s - 1) : Kind[g] = "approval"}

NewState == [done |-> {}, status |-> "new", paused |-> 0]
State == [done : SUBSET (Step \cup Branch), paused : Step \cup {0},
          status : {"new", "running", "paused", "failed", "completed"}]
Idle == [pc |-> "idle", run |-> FALSE, at |-> 1, force |-> FALSE, mine |-> NewState, then |-> "idle",
         out |-> "none", n |-> 1, profile |-> 1, answered |-> FALSE, skipped |-> {}, hit |-> FALSE]
Pc == {"idle", "workflow", "step", "check", "load", "decide", "attempt", "provider",
       "answer", "work", "branches", "truncate", "write", "terminal", "whole", "close"}

TypeOK ==
  /\ saved \in State /\ approved \subseteq Step /\ off \subseteq Conditional
  /\ \A d \in Driver :
       /\ DOMAIN dr[d] = DOMAIN Idle /\ dr[d].pc \in Pc /\ dr[d].then \in Pc
       /\ dr[d].at \in Step /\ dr[d].mine \in State /\ dr[d].skipped \subseteq Step
       /\ dr[d].n \in 1 .. MaxAttempts /\ dr[d].profile \in 1 .. Candidates
       /\ open[d] \subseteq {"workflow", "step", "agent"}

Init ==
  /\ saved = NewState /\ policy \in Policies /\ approved = {} /\ off \in SUBSET Conditional
  /\ dr = [d \in Driver |-> Idle] /\ open = [d \in Driver |-> {}]
  /\ met = {} /\ trouble = 0

-----------------------------------------------------------------------------
At(d, pc) == dr[d].pc = pc
Now(d, new) == dr' = [dr EXCEPT ![d] = new]
Over(hit) == [Idle EXCEPT !.hit = hit]
Go(d, pc) == Now(d, [dr[d] EXCEPT !.pc = pc])
Alone == UNCHANGED <<saved, policy, approved, off, met>>

(* The state file is written in place: write_text truncates it first.      *)
Save(d, mine, then) == [dr[d] EXCEPT !.pc = "truncate", !.mine = mine, !.then = then]
Truncate(d) ==
  /\ At(d, "truncate") /\ saved' = NewState /\ Go(d, "write")
  /\ UNCHANGED <<policy, approved, off, open, met, trouble>>
Write(d) ==
  /\ At(d, "write") /\ saved' = dr[d].mine /\ Go(d, dr[d].then)
  /\ UNCHANGED <<policy, approved, off, open, met, trouble>>

Marked(state, s) == [done |-> state.done \cup {s}, status |-> "running", paused |-> 0]
Stopped(state, s, status) == [state EXCEPT !.status = status, !.paused = s]

(* _invalidate_from: the step and all behind it, with their branches.      *)
Behind(s) == UNION {{t} \cup BranchesOf(t) : t \in {u \in Step : u >= s}}
Invalidated(state, s) == [done |-> state.done \ Behind(s), status |-> "running", paused |-> 0]

(* An append to the audit ledger may fail; the error goes up to the next   *)
(* level, whose own event is then tried.                                   *)
MayFail == trouble < MaxTrouble /\ trouble' = trouble + 1
Opens(d, level) == open' = [open EXCEPT ![d] = @ \cup {level}]
Closes(d, level) == open' = [open EXCEPT ![d] = @ \ {level}]

CallRun(d) ==
  /\ At(d, "idle")
  /\ Now(d, [Idle EXCEPT !.pc = "step", !.run = TRUE]) /\ open' = [open EXCEPT ![d] = {"workflow"}]
  /\ Alone /\ UNCHANGED trouble

CallStep(d) ==
  /\ At(d, "idle")
  /\ \E s \in Step, force \in BOOLEAN :
       Now(d, [Idle EXCEPT !.pc = "step", !.at = s, !.force = force, !.mine = saved])
  /\ open' = [open EXCEPT ![d] = {}]
  /\ Alone /\ UNCHANGED trouble

(* workflow.step.started; of a step that runs manually the approvals are   *)
(* looked at first, if it was not complete when the call began.            *)
StepStarts(d) ==
  /\ At(d, "step")
  /\ \/ /\ Opens(d, "step") /\ Go(d, IF dr[d].run THEN "load" ELSE "check")
        /\ UNCHANGED trouble
     \/ /\ MayFail /\ UNCHANGED open
        /\ Now(d, IF dr[d].run THEN [dr[d] EXCEPT !.pc = "close", !.hit = TRUE] ELSE Over(TRUE))
  /\ Alone

Ends(d, out) == [dr[d] EXCEPT !.pc = "terminal", !.out = out]

(* _enforce_workspace_write_policy *)
Pending(s) == Gates(s) \ approved
AnyGate(d) ==   \* mutant: one approval is enough
  ~policy.needed \/ Gates(dr[d].at) \cap approved # {} \/ (dr[d].force /\ policy.bypass)
PolicyAllows(d) ==
  ~policy.needed \/ /\ Gates(dr[d].at) # {}
                    /\ Pending(dr[d].at) = {} \/ (dr[d].force /\ policy.bypass)
GuardedAgent(d) == Kind[dr[d].at] = "agent" /\ dr[d].at \in Writes

CheckManual(d) ==
  /\ At(d, "check")
  /\ IF GuardedAgent(d) /\ dr[d].at \notin dr[d].mine.done
        /\ ((Pending(dr[d].at) # {} /\ ~dr[d].force) \/ ~PolicyAllows(d))
     THEN Now(d, Ends(d, "raised"))
     ELSE Go(d, "load")
  /\ Alone /\ UNCHANGED <<open, trouble>>

Load(d) ==
  /\ At(d, "load")
  /\ LET s == dr[d].at IN
     IF dr[d].force /\ s \in saved.done
     THEN Now(d, Save(d, Invalidated(saved, s), "decide"))
     ELSE Now(d, [dr[d] EXCEPT !.pc = "decide", !.mine = saved])
  /\ Alone /\ UNCHANGED <<open, trouble>>

-----------------------------------------------------------------------------
SkipsAnyDone(d) == dr[d].at \in dr[d].mine.done   \* mutant: of approvals too
SkipsDone(d) == dr[d].at \in dr[d].mine.done /\ Kind[dr[d].at] # "approval"

SkipsByCondition(d) ==
  /\ At(d, "decide") /\ ~dr[d].force /\ dr[d].at \in off
  /\ Now(d, [Save(d, Marked(dr[d].mine, dr[d].at), "terminal")
               EXCEPT !.out = "skipped", !.skipped = @ \cup {dr[d].at}])
  /\ met' = met \cup {dr[d].at}
  /\ UNCHANGED <<saved, policy, approved, off, open, trouble>>

Decides(d) == At(d, "decide") /\ (dr[d].force \/ dr[d].at \notin off)

SkipsCompleted(d) ==
  /\ Decides(d) /\ ~dr[d].force /\ SkipsDone(d)
  /\ Now(d, Ends(d, "skipped"))
  /\ Alone /\ UNCHANGED <<open, trouble>>

Executes(d, kind) == Decides(d) /\ Kind[dr[d].at] = kind /\ (dr[d].force \/ ~SkipsDone(d))

(* An approval is looked at again whenever the run comes by; without it    *)
(* the run pauses, and the step is no longer complete.                     *)
Approval(d) ==
  /\ Executes(d, "approval")
  /\ LET s == dr[d].at IN
     IF s \in approved
     THEN /\ Now(d, [Save(d, Marked(dr[d].mine, s), "terminal") EXCEPT !.out = "completed"])
          /\ met' = met \cup {s}
     ELSE /\ Now(d, [Save(d, Stopped([dr[d].mine EXCEPT !.done = @ \ {s}], s, "paused"), "terminal")
                       EXCEPT !.out = "paused"])
          /\ UNCHANGED met
  /\ UNCHANGED <<saved, policy, approved, off, open, trouble>>

Refused(d) ==
  /\ \E kind \in {"agent", "work"} : Executes(d, kind)
  /\ dr[d].at \in Writes /\ ~PolicyAllows(d)
  /\ Now(d, Ends(d, "raised"))
  /\ Alone /\ UNCHANGED <<open, trouble>>

Admitted(d, kind) == Executes(d, kind) /\ (dr[d].at \in Writes => PolicyAllows(d))

Done(d) == [Save(d, Marked(dr[d].mine, dr[d].at), "terminal") EXCEPT !.out = "completed"]
Fails(d) == [Save(d, Stopped(dr[d].mine, dr[d].at, "failed"), "terminal") EXCEPT !.out = "failed"]

StartsAgent(d) ==
  /\ Admitted(d, "agent") /\ Now(d, [dr[d] EXCEPT !.pc = "attempt"])
  /\ Alone /\ UNCHANGED <<open, trouble>>
StartsWork(d) ==
  /\ Admitted(d, "work") /\ Go(d, "work")
  /\ Alone /\ UNCHANGED <<open, trouble>>

(* _retry_call: whatever the error, the next attempt begins with the first *)
(* profile, until there have been enough.                                  *)
NextAttemptPast(d) ==   \* mutant: one attempt more than max_attempts
  IF dr[d].n <= MaxAttempts THEN [dr[d] EXCEPT !.pc = "attempt", !.n = @ + 1, !.profile = 1]
  ELSE Fails(d)
NextAttempt(d) ==
  IF dr[d].n < MaxAttempts THEN [dr[d] EXCEPT !.pc = "attempt", !.n = @ + 1, !.profile = 1]
  ELSE Fails(d)

(* agent.execution.started; without it the provider is not called.         *)
AgentStarts(d) ==
  /\ At(d, "attempt")
  /\ \/ Go(d, "provider") /\ Opens(d, "agent") /\ UNCHANGED trouble
     \/ Now(d, [NextAttempt(d) EXCEPT !.hit = TRUE]) /\ MayFail /\ UNCHANGED open
  /\ Alone

(* The provider answers, or fails for good, or in a way for which          *)
(* _execute_agent goes on to the next profile.                             *)
Answers(d) ==
  /\ At(d, "provider")
  /\ Now(d, [dr[d] EXCEPT !.pc = "answer", !.answered = TRUE])
  /\ Alone /\ UNCHANGED <<open, trouble>>

ProviderFails(d) ==
  /\ At(d, "provider") /\ Closes(d, "agent")
  /\ \/ Now(d, NextAttempt(d))
     \/ IF dr[d].profile < Candidates THEN Now(d, [dr[d] EXCEPT !.pc = "attempt", !.profile = @ + 1])
        ELSE Now(d, NextAttempt(d))
  /\ Alone /\ UNCHANGED trouble

(* agent.execution.succeeded, then the output is kept and the step marked. *)
AgentEnds(d) ==
  /\ At(d, "answer")
  /\ \/ Now(d, Done(d)) /\ met' = met \cup {dr[d].at} /\ Closes(d, "agent") /\ UNCHANGED trouble
     \/ Now(d, [NextAttempt(d) EXCEPT !.hit = TRUE]) /\ MayFail /\ UNCHANGED <<open, met>>
  /\ UNCHANGED <<saved, policy, approved, off>>

Works(d) ==
  /\ At(d, "work")
  /\ \/ Now(d, Done(d)) /\ met' = met \cup {dr[d].at}
     \/ Now(d, Fails(d)) /\ UNCHANGED met
  /\ UNCHANGED <<saved, policy, approved, off, open, trouble>>

(* The branches run in threads and touch no state; when all are back, the  *)
(* good ones are marked, and the step with them unless a branch that must  *)
(* not fail did.                                                           *)
FatalNever(s, good) == FALSE   \* mutant: no branch is fatal
Fatal(s, good) == BranchesOf(s) \ (good \cup Continues) # {}
Parallel(d) ==
  /\ Executes(d, "parallel")
  /\ \E good \in SUBSET BranchesOf(dr[d].at) :
     LET s == dr[d].at
         state == IF good = {} THEN dr[d].mine
                  ELSE [done |-> dr[d].mine.done \cup good, status |-> "running", paused |-> 0]
     IN /\ IF Fatal(s, good)
           THEN Now(d, [Save(d, Stopped(state, s, "failed"), "terminal") EXCEPT !.out = "failed"])
           ELSE Now(d, [Save(d, Marked(state, s), "terminal") EXCEPT !.out = "completed"])
        /\ met' = met \cup good
             \cup (IF BranchesOf(s) \ (good \cup Continues) # {} THEN {} ELSE {s})
  /\ UNCHANGED <<saved, policy, approved, off, open, trouble>>

-----------------------------------------------------------------------------
(* What follows a step: the run goes on, stops, or looks whether all are   *)
(* complete; a manual call returns.                                        *)
Stops(d) ==
  dr[d].out = "paused" \/ (dr[d].out = "failed" /\ dr[d].at \notin Continues)
AfterStep(d) ==
  IF ~dr[d].run THEN Over(dr[d].hit)
  ELSE IF dr[d].out = "raised" THEN [dr[d] EXCEPT !.pc = "close"]
  ELSE IF Stops(d) \/ dr[d].at = Len(Kind) THEN [dr[d] EXCEPT !.pc = "whole"]
  ELSE [dr[d] EXCEPT !.pc = "step", !.at = @ + 1, !.n = 1, !.profile = 1, !.answered = FALSE]

(* step_terminal, on every way out of a step.                              *)
StepEnds(d) ==
  /\ At(d, "terminal")
  /\ \/ Now(d, AfterStep(d)) /\ Closes(d, "step") /\ UNCHANGED trouble
     \/ /\ MayFail /\ UNCHANGED open
        /\ Now(d, IF dr[d].run THEN [dr[d] EXCEPT !.pc = "close", !.hit = TRUE] ELSE Over(TRUE))
  /\ Alone

(* The state is read once more before the workflow is called completed.    *)
OwnState(d) == dr[d].mine   \* mutant: the copy of the last step decides
StateAtEnd(d) == saved
Whole(d) ==
  /\ At(d, "whole")
  /\ IF Step \subseteq StateAtEnd(d).done
     THEN Now(d, Save(d, [done |-> saved.done, status |-> "completed", paused |-> 0], "close"))
     ELSE Go(d, "close")
  /\ Alone /\ UNCHANGED <<open, trouble>>

(* workflow_terminal *)
Close(d) ==
  /\ At(d, "close")
  /\ \/ Now(d, Over(dr[d].hit)) /\ Closes(d, "workflow") /\ UNCHANGED trouble
     \/ Now(d, Over(TRUE)) /\ MayFail /\ UNCHANGED open
  /\ Alone

(* Somebody interrupts a provider: no retry, but every event is written.   *)
InterruptQuiet(d) == open' = open   \* mutant: the runtime does not note it
InterruptNoted(d) == Closes(d, "agent")
Interrupt(d) ==
  /\ At(d, "provider") /\ MayFail
  /\ Now(d, Ends(d, "raised")) /\ InterruptNoted(d)
  /\ Alone

Dies(d) ==
  /\ dr[d].pc # "idle" /\ MayFail
  /\ Now(d, Over(TRUE))
  /\ UNCHANGED <<saved, policy, approved, off, open, met>>

(* People approve, and what conditions look at changes.                    *)
Approve(g) ==
  /\ Kind[g] = "approval" /\ g \notin approved /\ approved' = approved \cup {g}
  /\ UNCHANGED <<saved, policy, off, dr, open, met, trouble>>
Change(s) ==
  /\ MayFail /\ off' = IF s \in off THEN off \ {s} ELSE off \cup {s}
  /\ UNCHANGED <<saved, policy, approved, dr, open, met>>

Next ==
  \/ \E d \in Driver :
       \/ CallRun(d) \/ CallStep(d) \/ StepStarts(d) \/ CheckManual(d) \/ Load(d)
       \/ SkipsByCondition(d) \/ SkipsCompleted(d) \/ Approval(d) \/ Refused(d)
       \/ StartsAgent(d) \/ StartsWork(d) \/ AgentStarts(d) \/ Answers(d) \/ ProviderFails(d)
       \/ AgentEnds(d) \/ Works(d) \/ Parallel(d) \/ StepEnds(d) \/ Whole(d) \/ Close(d)
       \/ Truncate(d) \/ Write(d) \/ Interrupt(d) \/ Dies(d)
  \/ \E s \in Step : Approve(s)
  \/ \E s \in Conditional : Change(s)

Spec == Init /\ [][Next]_vars
-----------------------------------------------------------------------------
Calls(d) == dr[d].pc \in {"provider", "work"}

(* A step that writes is called only behind approvals, where the policy    *)
(* wants them: all that come before it, unless the call was forced and the *)
(* policy lets it.                                                         *)
WritesAreApproved ==
  \A d \in Driver : Calls(d) /\ dr[d].at \in Writes /\ policy.needed =>
    \/ Gates(dr[d].at) \subseteq approved /\ Gates(dr[d].at) # {}
    \/ dr[d].force /\ policy.bypass

(* A run gets past a gate only if it is approved or its condition does not *)
(* match now, whatever an earlier run has left in the state file.          *)
NothingPastGates ==
  \A d \in Driver : dr[d].run /\ Calls(d) =>
    Gates(dr[d].at) \subseteq approved \cup dr[d].skipped

(* Whoever saves over whom: a workflow that is called completed has all    *)
(* its steps, and every step in the file was really done at some time.     *)
CompletedIsWhole == saved.status = "completed" => Step \subseteq saved.done
DoneIsTrue == saved.done \subseteq met

(* An audit event that says started has another that says how it ended,    *)
(* unless its process died or the ledger refused an append.                *)
StartedEnds == \A d \in Driver : At(d, "idle") /\ open[d] # {} => dr[d].hit

(* A provider that has answered is called again only when its terminal     *)
(* event could not be written.                                             *)
AnsweredAgainIsUnnoted == \A d \in Driver : At(d, "provider") /\ dr[d].answered => dr[d].hit
=============================================================================
