---------------------------- MODULE WorktreeRuns ----------------------------
(***************************************************************************)
(* A workflow in several repositories (multi_repo_run.py and its command), *)
(* in each of them on an isolated worktree (worktree_isolation.py): the    *)
(* plan with the baselines, their validation, and then one repository      *)
(* after another: create the worktree, run, look, and clean up or keep.    *)
(*                                                                         *)
(* A commit of a source is a number.  Of a worktree it is kept whether its *)
(* branch has commits of its own and whether git status lists anything.    *)
(***************************************************************************)
EXTENDS Integers, Sequences, FiniteSets

CONSTANTS
  Repos,       \* repositories of the feature, in their order
  MaxCommit,   \* bound: commits of a source
  MaxTrouble   \* bound: deaths, interrupts, failing Git commands, others' work

VARIABLES
  head, dirty,    \* the source of each repository
  plan,           \* the commit each repository was planned on, -1 if not ready
  wt,             \* worktrees: is, base, ahead, dirty
  branch,         \* repositories in which the branch of the run exists
  evidence,       \* the evidence of each run: state, outcome and cleanup
  run,            \* the process
  lost,           \* work that was removed: kinds of it
  trouble

vars == <<head, dirty, plan, wt, branch, evidence, run, lost, trouble>>

Repo == 1 .. Repos
NoTree == [is |-> FALSE, base |-> 0, ahead |-> FALSE, dirty |-> FALSE]
NoEvidence == [state |-> "none", outcome |-> "none", cleanup |-> "none"]

TypeOK ==
  /\ head \in [Repo -> 0 .. MaxCommit] /\ dirty \in [Repo -> BOOLEAN]
  /\ plan \in [Repo -> -2 .. MaxCommit] /\ branch \subseteq Repo
  /\ \A r \in Repo : wt[r].is \in BOOLEAN /\ wt[r].base \in 0 .. MaxCommit
  /\ run.at \in Repo
  /\ run.pc \in {"plan", "validate", "create", "added", "ready", "works", "look", "remove",
                 "unbranch", "note", "next", "over"}

Init ==
  /\ head = [r \in Repo |-> 0] /\ dirty \in [Repo -> BOOLEAN]
  /\ plan = [r \in Repo |-> -2] /\ wt = [r \in Repo |-> NoTree] /\ branch = {}
  /\ evidence = [r \in Repo |-> NoEvidence] /\ lost = {} /\ trouble = 0
  /\ run = [pc |-> "plan", at |-> 1, wish |-> FALSE, outcome |-> "none", cleanup |-> "none",
            seen |-> FALSE, results |-> <<>>]

-----------------------------------------------------------------------------
r_ == run.at
At(pc) == run.pc = pc
Go(pc) == run' = [run EXCEPT !.pc = pc]
MayFail == trouble < MaxTrouble /\ trouble' = trouble + 1
Sources == UNCHANGED <<head, dirty>>

(* verify_clean_baseline *)
Clean(r) == ~dirty[r]

(* build_multi_repo_run_plan looks at one repository after the other; only *)
(* a plan whose repositories are all ready is executed.                    *)
Plan ==
  /\ At("plan")
  /\ plan' = [plan EXCEPT ![r_] = IF Clean(r_) THEN head[r_] ELSE -1]
  /\ run' = IF r_ < Repos THEN [run EXCEPT !.at = @ + 1]
            ELSE [run EXCEPT !.at = 1,
                    !.pc = IF \E r \in Repo : plan'[r] = -1 THEN "over" ELSE "validate"]
  /\ Sources /\ UNCHANGED <<wt, branch, evidence, lost, trouble>>

(* revalidate_run_plan: all of them, before the first is run.              *)
Changed(r) == ~Clean(r) \/ head[r] # plan[r]
Validate ==
  /\ At("validate")
  /\ \E wish \in BOOLEAN :
       run' = IF Changed(r_) THEN [run EXCEPT !.pc = "over"]
              ELSE IF r_ < Repos THEN [run EXCEPT !.at = @ + 1]
              ELSE [run EXCEPT !.at = 1, !.pc = "create", !.wish = wish]
  /\ Sources /\ UNCHANGED <<plan, wt, branch, evidence, lost, trouble>>

-----------------------------------------------------------------------------
(* create_worktree_session: a clean baseline again, the evidence of what   *)
(* is going to be, the worktree, its branch, the evidence that it is.      *)
Ends(result) == [run EXCEPT !.pc = "over", !.results = Append(@, result)]

Create ==
  /\ At("create")
  /\ IF Clean(r_)
     THEN /\ evidence' = [evidence EXCEPT ![r_] = [NoEvidence EXCEPT !.state = "preparing"]]
          /\ run' = [run EXCEPT !.pc = "added", !.seen = FALSE]
          /\ wt' = [wt EXCEPT ![r_].base = head[r_]]
     ELSE run' = Ends("infrastructure-failed") /\ UNCHANGED <<evidence, wt>>
  /\ Sources /\ UNCHANGED <<plan, branch, lost, trouble>>

(* Whatever Git cannot do of it is taken back, as far as it got.           *)
Undone == [evidence EXCEPT ![r_] = [state |-> "failed-to-create", outcome |-> "failed",
                                    cleanup |-> "creation-rolled-back"]]
Add ==
  /\ At("added")
  /\ \/ wt' = [wt EXCEPT ![r_].is = TRUE] /\ Go("ready") /\ UNCHANGED <<evidence, trouble>>
     \/ MayFail /\ evidence' = Undone /\ run' = Ends("infrastructure-failed") /\ UNCHANGED wt
  /\ Sources /\ UNCHANGED <<plan, branch, lost>>

KeepsTree == wt   \* mutant: the worktree stays when its branch cannot be made
RemovesTree == [wt EXCEPT ![r_].is = FALSE]
Checkout ==
  /\ At("ready")
  /\ \/ /\ branch' = branch \cup {r_} /\ Go("works") /\ UNCHANGED <<wt, trouble>>
        /\ evidence' = [evidence EXCEPT ![r_] = [state |-> "ready", outcome |-> "none",
                                                 cleanup |-> "preserved-clean"]]
     \/ /\ MayFail /\ evidence' = Undone /\ run' = Ends("infrastructure-failed")
        /\ wt' = RemovesTree /\ UNCHANGED branch
  /\ Sources /\ UNCHANGED <<plan, lost>>

(* The steps of the workflow, in the worktree: they may commit.            *)
Work ==
  /\ At("works")
  /\ \/ wt' = [wt EXCEPT ![r_].dirty = TRUE]
     \/ wt[r_].dirty /\ wt' = [wt EXCEPT ![r_].dirty = FALSE, ![r_].ahead = TRUE]
  /\ Sources /\ UNCHANGED <<plan, branch, evidence, run, lost, trouble>>

WorkEnds ==
  /\ At("works")
  /\ \/ /\ \E outcome \in {"success", "paused", "failed"} :
             run' = [run EXCEPT !.pc = "look", !.outcome = outcome]
        /\ UNCHANGED trouble
     \/ MayFail /\ run' = [run EXCEPT !.pc = "look", !.outcome = "cancelled"]
  /\ Sources /\ UNCHANGED <<plan, wt, branch, evidence, lost>>

(* finalize: one look at the worktree decides.                             *)
LookDirty == FALSE   \* mutant: status is not looked at
Look == wt[r_].dirty
Wanted == run.outcome \in {"failed", "cancelled"} \/ (run.wish /\ run.outcome # "cancelled")
Finalize ==
  /\ At("look")
  /\ run' = [run EXCEPT
       !.seen = Look,
       !.pc = IF Wanted /\ ~Look THEN "remove" ELSE "note",
       !.cleanup = IF ~Look THEN "preserved-clean"
                   ELSE IF Wanted /\ run.wish THEN "preserved-dirty-cleanup-refused"
                   ELSE "preserved-dirty"]
  /\ Sources /\ UNCHANGED <<plan, wt, branch, evidence, lost, trouble>>

Loses == {kind \in {"committed", "late"} :
            \/ kind = "committed" /\ wt[r_].ahead
            \/ kind = "late" /\ wt[r_].dirty /\ ~run.seen}
Remove ==
  /\ At("remove")
  /\ \/ wt' = RemovesTree /\ Go("unbranch") /\ UNCHANGED trouble
        /\ lost' = lost \cup (Loses \ {"committed"})
     \/ MayFail /\ run' = [run EXCEPT !.pc = "note", !.cleanup = "cleanup-failed"]
        /\ UNCHANGED <<wt, lost>>
  /\ Sources /\ UNCHANGED <<plan, branch, evidence>>

Unbranch ==
  /\ At("unbranch")
  /\ \/ branch' = branch \ {r_} /\ lost' = lost \cup (Loses \ {"late"}) /\ UNCHANGED trouble
        /\ run' = [run EXCEPT !.pc = "note", !.cleanup = "removed-clean"]
     \/ MayFail /\ UNCHANGED <<branch, lost>>
        /\ run' = [run EXCEPT !.pc = "note", !.cleanup = "worktree-removed-branch-preserved"]
  /\ Sources /\ UNCHANGED <<plan, wt, evidence>>

(* The evidence of the end; the next repository only after a success.      *)
GoesOn == TRUE   \* mutant: the next repository whatever came of this one
MayGoOn == run.outcome = "success"
Note ==
  /\ At("note")
  /\ evidence' = [evidence EXCEPT ![r_] =
       [state |-> "completed", outcome |-> run.outcome, cleanup |-> run.cleanup]]
  /\ LET results == Append(run.results, run.outcome) IN
     run' = IF MayGoOn /\ r_ < Repos
            THEN [run EXCEPT !.pc = "create", !.at = @ + 1, !.results = results]
            ELSE [run EXCEPT !.pc = "over", !.results = results]
  /\ Sources /\ UNCHANGED <<plan, wt, branch, lost, trouble>>

(* People work in the sources, and somebody else in the worktree.          *)
Commit(r) ==
  /\ head[r] < MaxCommit /\ head' = [head EXCEPT ![r] = @ + 1]
  /\ dirty' = [dirty EXCEPT ![r] = FALSE]
  /\ UNCHANGED <<plan, wt, branch, evidence, run, lost, trouble>>
Edit(r) ==
  /\ MayFail /\ ~dirty[r] /\ dirty' = [dirty EXCEPT ![r] = TRUE]
  /\ UNCHANGED <<head, plan, wt, branch, evidence, run, lost>>
Late ==
  /\ run.pc \in {"look", "remove", "note"} /\ wt[r_].is /\ MayFail
  /\ wt' = [wt EXCEPT ![r_].dirty = TRUE]
  /\ UNCHANGED <<head, dirty, plan, branch, evidence, run, lost>>
Dies ==
  /\ ~At("over") /\ MayFail /\ run' = [run EXCEPT !.pc = "over", !.results = Append(@, "died")]
  /\ UNCHANGED <<head, dirty, plan, wt, branch, evidence, lost>>

Next ==
  \/ Plan \/ Validate \/ Create \/ Add \/ Checkout \/ Work \/ WorkEnds \/ Finalize \/ Remove
  \/ Unbranch \/ Note \/ Late \/ Dies
  \/ \E r \in Repo : Commit(r) \/ Edit(r)

Spec == Init /\ [][Next]_vars
-----------------------------------------------------------------------------
(* A repository is not touched before all were found as planned, nor after *)
(* one before it has ended in any other way than well.                     *)
InOrder ==
  \A r \in Repo : evidence[r].state # "none" =>
    /\ \A s \in Repo : plan[s] >= 0
    /\ Len(run.results) >= r - 1 /\ \A s \in 1 .. (r - 1) : run.results[s] = "success"

(* What is removed was clean: lost is what somebody else wrote behind the  *)
(* look, and what the run committed before it failed.                      *)
DirtyIsKept == "late" \in lost => trouble > 0

(* The evidence says what there is: a run that got to its end has removed  *)
(* its worktree and branch, or it has them still.                          *)
EvidenceIsTrue ==
  \A r \in Repo :
    /\ evidence[r].state = "failed-to-create" => ~wt[r].is /\ r \notin branch
    /\ evidence[r].state = "completed" =>
         /\ wt[r].is <=> evidence[r].cleanup \in
              {"preserved-clean", "preserved-dirty", "preserved-dirty-cleanup-refused", "cleanup-failed"}
         /\ r \in branch <=> evidence[r].cleanup # "removed-clean"
=============================================================================
