----------------------------- MODULE MCWorkflow -----------------------------
(***************************************************************************)
(* WorkflowExecution for TLC.  A behaviour is one of a setting chosen in   *)
(* its first state: one executor with several plans, crashes and retries   *)
(* (one); all executors with the same plan (pair); or one executor with    *)
(* one plan, and never interrupted but by pauses (calm).                   *)
(***************************************************************************)
EXTENDS WorkflowExecution

CONSTANTS x1, x2, planA, planB, planC, b1, b2, c1
VARIABLE setting

MCTask == LeafTask
MCDigest == Outcome
(* Two executors have a plan of one leaf. *)
MCLeaves == [plan \in Plan |-> IF plan = planC THEN 1 ELSE 2]

ASSUME SettingAssumption == x1 \in Executor /\ planA \in Plan

One == Executes(x1, Plan \ {planC}) \/ Crash(x1)
Pair == \E x \in Executor : Executes(x, {planC}) \/ Crash(x)
Calm == Executes(x1, {planA})

MCInit == setting \in {"one", "pair", "calm"} /\ Init

MCNext ==
  /\ UNCHANGED setting
  /\ \/ setting = "one" /\ One
     \/ setting = "pair" /\ Pair
     \/ setting = "calm" /\ Calm

MCSpec ==
  /\ MCInit /\ [][MCNext]_<<vars, setting>>
  /\ WF_<<vars, setting>>(setting = "one" /\ Executes(x1, Plan \ {planC}) /\ UNCHANGED setting)
(* All executors with all plans. *)
AllSpec == setting = "one" /\ Init /\ [][Next /\ UNCHANGED setting]_<<vars, setting>>
-----------------------------------------------------------------------------
(* The properties of WorkflowExecution, each in the settings it is about.  *)
In(name) == setting = name

(* Everything has its type; and what a completion binds is the record that *)
(* stays, with two executors that persist outcomes of one leaf too.        *)
RecordsStay == TypeOK /\ CompletedReadsBack

(* Whatever is interrupted: no more attempts than retry.maxAttempts, and    *)
(* the ledger takes the run.completed of an executor that did all leaves.  *)
BoundedAndAdmitted == In("one") => AttemptsBounded /\ CompletionIsAdmitted

(* A leaf is invoked only while its task is started in an active run, and  *)
(* undisturbed no leaf runs on top of a cancelled one.                     *)
LeavesAreAuthorized ==
  [][/\ In("one") => WorkAuthorized
     /\ In("calm") => FollowsNoCancelled]_<<vars, setting>>

(* Executing again whenever it was interrupted brings the run to an end.   *)
OneEnds == In("one") => RunEnds

(* Undisturbed, a completed run's leaves succeeded or were forgiven, a     *)
(* failure that is not forgiven ends the run as failed, and the result of  *)
(* a completed run can be read again.                                      *)
OutcomesAreTrue ==
  In("calm") => CompletedMeansSucceeded /\ FailureIsTerminal /\ CompletedIsReadable
=============================================================================
